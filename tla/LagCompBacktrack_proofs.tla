----------------------- MODULE LagCompBacktrack_proofs -----------------------
(***************************************************************************)
(* The store implements its promise: Spec => Log!Spec, for every roster,   *)
(* ring size and bound, on top of the invariant of LagCompHistory_proofs.  *)
(***************************************************************************)
EXTENDS LagCompBacktrack, LagCompHistory_proofs

USE HistoryAssumption

\* The server's own records lie in the slots of their frames, none later than this one.
ServerFrames ==
  \A s \in Slot, t \in Client :
    LET r == hist[Server][s][t] IN
    /\ r.view = Server
    /\ r.stamp # 0 => r.stamp <= serverFrame /\ SlotOf(r.stamp) = s /\ r.who # 0

\* A slot in use has had an occupant.
Occupied == \A c \in Client : status[c] # "free" => gen[c] # 0

RInv == IInv /\ Occupied /\ ServerFrames

LEMMA OccupiedStep == TypeOK /\ Occupied /\ [Next]_vars => Occupied'
<1> SUFFICES ASSUME TypeOK, Occupied, [Next]_vars PROVE Occupied'
  OBVIOUS
<1> USE DEF TypeOK, Occupied
<1>1. ASSUME NEW h \in Client, PutInServer(h) PROVE Occupied'
  BY <1>1 DEF PutInServer
<1>2. ASSUME NEW c \in Client, Connect(c) PROVE Occupied'
  BY <1>2 DEF Connect
<1>3. ASSUME NEW c \in Client, TransmitEmpty(c) PROVE Occupied'
  BY <1>3 DEF TransmitEmpty
<1>4. ASSUME NEW c \in Client, Leave(c) PROVE Occupied'
  BY <1>4 DEF Leave
<1>5. CASE UNCHANGED <<status, gen>>
  BY <1>5
<1>6. QED
  BY <1>1, <1>2, <1>3, <1>4, <1>5
  DEF Next, Plugin, Engine, StartFramePost, PlayerPreThinkPre, PlayerPostThinkPost, SendDatagram,
      SetupBones, Acknowledge, EndFrame, vars, engineVars

LEMMA ServerFramesStep == TypeOK /\ Occupied /\ ServerFrames /\ [Next]_vars => ServerFrames'
<1> SUFFICES ASSUME TypeOK, Occupied, ServerFrames, [Next]_vars PROVE ServerFrames'
  OBVIOUS
<1> USE DEF ServerFrames
<1>1. CASE StartFramePost
  <2>1. serverFrame' = serverFrame + 1 /\ serverFrame \in Nat /\ Server \in Viewer
    BY <1>1 DEF StartFramePost, TypeOK, Viewer
  <2>2. ASSUME NEW s \in Slot, NEW t \in Client
        PROVE  LET r == hist'[Server][s][t] IN
               /\ r.view = Server
               /\ r.stamp # 0 => r.stamp <= serverFrame' /\ SlotOf(r.stamp) = s /\ r.who # 0
    <3>1. CASE hist'[Server][s][t] = hist[Server][s][t]
      <4>1. hist[Server][s][t] \in Record
        BY <2>1 DEF TypeOK
      <4>2. hist[Server][s][t].stamp \in Nat
        BY <4>1 DEF Record
      <4>3. QED
        BY <2>1, <3>1, <4>2
    <3>2. CASE /\ s = SlotOf(serverFrame + 1) /\ IsActive(t)
               /\ hist'[Server][s][t].view = Server
               /\ hist'[Server][s][t].stamp = serverFrame + 1
               /\ hist'[Server][s][t].who = gen[t]
      BY <2>1, <3>2 DEF Occupied, IsActive
    <3>3. QED
      BY <1>1, <2>1, <3>1, <3>2, StartWrites
  <2>3. QED
    BY <2>2
<1>2. ASSUME NEW h \in Client, PutInServer(h) \/ SendDatagram(h) PROVE ServerFrames'
  <2>1. \A s \in Slot, t \in Client : hist'[Server][s][t] = hist[Server][s][t]
    <3>1. Server \in Viewer /\ Server # h
      BY DEF Viewer
    <3>2. CASE PutInServer(h)
      BY <3>1, <3>2, PutInFacts
    <3>3. CASE SendDatagram(h)
      <4>1. \E shown \in SUBSET (Actives \ {h}) :
              \A v \in Viewer, s \in Slot, t \in Client :
                hist'[v][s][t] = IF v = h /\ s = SlotOf(out[h]) /\ IsActive(t) /\ t # h
                                   THEN AddToFullPackPost(h, t, shown) ELSE hist[v][s][t]
        BY <3>3, SendFacts
      <4>2. QED
        BY <3>1, <4>1
    <3>4. QED
      BY <1>2, <3>2, <3>3
  <2>2. serverFrame' = serverFrame
    BY <1>2 DEF PutInServer, SendDatagram
  <2>3. QED
    BY <2>1, <2>2
<1>3. CASE UNCHANGED <<hist, serverFrame>>
  BY <1>3
<1>4. QED
  BY <1>1, <1>2, <1>3
  DEF Next, Plugin, Engine, PlayerPreThinkPre, PlayerPostThinkPost, SetupBones, Connect,
      TransmitEmpty, Acknowledge, Leave, EndFrame, vars, engineVars

\* The invariant under which every step maps to a step of Backtrack.
THEOREM RefinementInv == Spec => []RInv
<1>1. Init => Occupied /\ ServerFrames
  <2>1. Server \in Viewer
    BY DEF Viewer
  <2>2. QED
    BY <2>1 DEF Init, Occupied, ServerFrames, NoHistory, Zero
<1>2. IInv => TypeOK
  BY DEF IInv
<1>3. RInv /\ [Next]_vars => RInv'
  BY <1>2, IInvStep, OccupiedStep, ServerFramesStep DEF RInv
<1>4. Init => RInv
  BY <1>1, IInvInit DEF RInv
<1>5. QED
  BY <1>3, <1>4, PTL DEF Spec
-----------------------------------------------------------------------------
(* Every step maps to a step of Backtrack, or to none.                     *)

LEMMA InitMaps == Init => Log!Init
<1> SUFFICES ASSUME Init PROVE Log!Init
  OBVIOUS
<1>1. \A t \in Client : ~IsActive(t)
  BY DEF Init, IsActive
<1>2. player = [c \in Client |-> 0]
  BY <1>1 DEF player, Present
<1>3. /\ SlotOf(serverFrame) \in Slot /\ Server \in Viewer
      /\ serverFrame = 0
  BY SlotInRing DEF Init, Viewer
<1>4. sampled = [c \in Client |-> 0]
  BY <1>3 DEF sampled, Current, Init, NoHistory, Zero
<1>5. log = [c \in Client |-> {}]
  BY DEF log, Packets, Init
<1>6. posed = [t \in Client |-> [view |-> Server, stamp |-> 0, who |-> 0]]
  BY DEF posed, Pose, Init, Zero
<1>7. compensated = FALSE
  BY DEF compensated, Init
<1>8. QED
  BY <1>2, <1>3, <1>4, <1>5, <1>6, <1>7 DEF Log!Init, Init

\* What leaves the state that a part of the mapping reads alone leaves that part alone.
LEMMA Frozen ==
  /\ UNCHANGED <<status, gen>> => player' = player
  /\ UNCHANGED <<hist, serverFrame>> => sampled' = sampled
  /\ UNCHANGED frames => log' = log
  /\ UNCHANGED params => posed' = posed
  /\ UNCHANGED <<thinker, nofind>> => compensated' = compensated
<1>1. UNCHANGED <<status, gen>> => player' = player
  BY DEF player, Present, IsActive
<1>2. UNCHANGED <<hist, serverFrame>> => sampled' = sampled
  BY DEF sampled, Current
<1>3. UNCHANGED frames => log' = log
  BY DEF log, Packets
<1>4. UNCHANGED params => posed' = posed
  BY DEF posed, Pose
<1>5. UNCHANGED <<thinker, nofind>> => compensated' = compensated
  BY DEF compensated
<1>6. QED
  BY <1>1, <1>2, <1>3, <1>4, <1>5

LEMMA AcknowledgeMaps ==
  ASSUME NEW c \in Client, Acknowledge(c) PROVE Log!Acknowledge(c)
  BY Frozen DEF Acknowledge, Log!Acknowledge

LEMMA LeaveMaps ==
  ASSUME TypeOK, NEW c \in Client, Leave(c) PROVE Log!Leave(c)
<1>1. status' = [status EXCEPT ![c] = "free"] /\ gen' = gen
  BY DEF Leave
<1>2. \A t \in Client : Present(t)' = IF t = c THEN 0 ELSE Present(t)
  BY <1>1 DEF Present, IsActive, TypeOK
<1>3. player' = [player EXCEPT ![c] = 0]
  BY <1>2 DEF player
<1>4. QED
  BY <1>3, Frozen DEF Leave, Log!Leave

LEMMA EndFrameMaps ==
  ASSUME EndFrame PROVE UNCHANGED Log!vars
  BY Frozen DEF EndFrame, Log!vars
LEMMA ConnectMaps ==
  ASSUME TypeOK, NEW c \in Client, Connect(c) PROVE Log!Connect(c)
<1>1. /\ status[c] = "free" /\ status \in [Client -> Status]
      /\ \A t \in Client \ {c} : status'[t] = status[t] /\ gen'[t] = gen[t]
      /\ status'[c] \in {"signon", "connecting"}
  BY DEF Connect, TypeOK
<1>2. player' = player
  BY <1>1 DEF player, Present, IsActive
<1>3. player[c] = 0
  BY <1>1 DEF player, Present, IsActive
<1>4. frames' = [frames EXCEPT ![c] = [s \in Slot |-> NoFrame]]
  BY DEF Connect
<1>5. /\ \A t \in Client \ {c} : Packets(t)' = Packets(t)
      /\ Packets(c)' = {}
  BY <1>4 DEF Packets, TypeOK
<1>6. log' = [log EXCEPT ![c] = {}]
  BY <1>5 DEF log
<1>7. QED
  BY <1>2, <1>3, <1>6, Frozen DEF Connect, Log!Connect

LEMMA EnterMaps ==
  ASSUME RInv, NEW c \in Client, PutInServer(c) PROVE Log!Enter(c)
<1>1. /\ status[c] = "signon" /\ status' = [status EXCEPT ![c] = "active"] /\ gen' = gen
      /\ UNCHANGED <<out, ack, frames, thinker, serverFrame, params, nofind>>
  BY DEF PutInServer
<1>2. TypeOK /\ Occupied /\ NoFramesYet
  BY DEF RInv, IInv
<1>3. Present(c) = 0 /\ Present(c)' = gen[c] /\ gen[c] # 0
  BY <1>1, <1>2 DEF Present, IsActive, TypeOK, Occupied
<1>4. \A t \in Client \ {c} : Present(t)' = Present(t)
  BY <1>1, <1>2 DEF Present, IsActive, TypeOK
<1>5. player[c] = 0 /\ player'[c] # 0 /\ player' = [player EXCEPT ![c] = player'[c]]
  BY <1>3, <1>4 DEF player
<1>6. log[c] = {}
  BY <1>1, <1>2 DEF NoFramesYet, log, Packets
<1>7. sampled' = sampled
  <2>1. Server \in Viewer /\ Server # c
    BY DEF Viewer
  <2>2. SlotOf(serverFrame) \in Slot
    BY <1>2, SlotInRing DEF TypeOK
  <2>3. \A t \in Client : Current(t)' = Current(t)
    BY <1>1, <1>2, <2>1, <2>2, PutInFacts DEF Current
  <2>4. QED
    BY <1>1, <2>3 DEF sampled
<1>8. QED
  BY <1>1, <1>5, <1>6, <1>7, Frozen DEF Log!Enter

LEMMA SendEmptyMaps ==
  ASSUME TypeOK, NEW c \in Client, TransmitEmpty(c) PROVE Log!SendEmpty(c)
<1>1. /\ status[c] \in {"connecting", "signon"} /\ status' = [status EXCEPT ![c] = "signon"]
      /\ gen' = gen
  BY DEF TransmitEmpty
<1>2. player' = player /\ player[c] = 0
  BY <1>1 DEF player, Present, IsActive, TypeOK
<1>3. QED
  BY <1>2, Frozen DEF TransmitEmpty, Log!SendEmpty

LEMMA SampleMaps ==
  ASSUME RInv, StartFramePost PROVE Log!Sample
<1> DEFINE now == serverFrame + 1
<1>1. TypeOK /\ Occupied /\ ServerFrames
  BY DEF RInv, IInv
<1>2. /\ thinker = Server /\ serverFrame' = now /\ serverFrame \in Nat
      /\ UNCHANGED <<status, gen, out, ack, frames, thinker, nofind>>
  BY <1>1 DEF StartFramePost, TypeOK
<1>3. /\ Server \in Viewer /\ SlotOf(now) \in Slot
  BY <1>2, SlotInRing DEF Viewer
<1>4. ASSUME NEW t \in Client, IsActive(t)
      PROVE  /\ Current(t)'.stamp = now /\ Current(t)'.who = gen[t]
             /\ Pose(params'[t]) = [view |-> Server, stamp |-> now, who |-> gen[t]]
  <2> DEFINE new == ProcessAnimParams(Server, now, gen[t], 0, PrevRecord(Server, now, t))
  <2>1. hist'[Server][SlotOf(now)][t] = new
    BY <1>1, <1>3, <1>4, StartFacts
  <2>2. params'[t] = new
    BY <1>4 DEF StartFramePost
  <2>3. new.view = Server /\ new.stamp = now /\ new.who = gen[t]
    BY DEF ProcessAnimParams
  <2> HIDE DEF new
  <2>4. QED
    BY <1>2, <2>1, <2>2, <2>3 DEF Current, Pose
<1>5. ASSUME NEW t \in Client, ~IsActive(t)
      PROVE  Current(t)'.stamp # now /\ params'[t] = params[t]
  <2>1. hist'[Server][SlotOf(now)][t] = hist[Server][SlotOf(now)][t]
    BY <1>1, <1>3, <1>5, StartFacts
  <2>2. hist[Server][SlotOf(now)][t].stamp # now
    BY <1>1, <1>2, <1>3 DEF ServerFrames
  <2>3. params'[t] = params[t]
    BY <1>5 DEF StartFramePost
  <2>4. QED
    BY <1>2, <2>1, <2>2, <2>3 DEF Current
<1>6. sampled' = player
  BY <1>2, <1>4, <1>5 DEF sampled, player, Present
<1>7. posed' = [t \in Client |->
                  IF player[t] # 0 THEN [view |-> Server, stamp |-> now, who |-> player[t]]
                                   ELSE posed[t]]
  <2>1. ASSUME NEW t \in Client
        PROVE  Pose(params'[t]) =
                 IF player[t] # 0 THEN [view |-> Server, stamp |-> now, who |-> player[t]]
                                  ELSE posed[t]
    <3>1. CASE IsActive(t)
      <4>1. player[t] = gen[t] /\ gen[t] # 0
        BY <1>1, <3>1 DEF player, Present, Occupied, IsActive
      <4>2. QED
        BY <1>4, <3>1, <4>1
    <3>2. CASE ~IsActive(t)
      BY <1>5, <3>2 DEF player, Present, posed
    <3>3. QED
      BY <3>1, <3>2
  <2>2. posed' = [t \in Client |-> Pose(params'[t])]
    BY DEF posed, Pose
  <2>3. QED
    BY <2>1, <2>2
<1>8. QED
  BY <1>2, <1>6, <1>7, Frozen DEF Log!Sample
\* A slot is overwritten only when its packet is a whole ring old.
LEMMA SendMaps ==
  ASSUME RInv, NEW h \in Client, SendDatagram(h) PROVE Log!Send(h)
<1>1. TypeOK /\ FrameWindow /\ Occupied
  BY DEF RInv, IInv
<1>2. /\ IsActive(h) /\ out' = [out EXCEPT ![h] = @ + 1] /\ out[h] \in Nat
      /\ UNCHANGED <<status, gen, ack, thinker, serverFrame, params, nofind>>
  BY <1>1 DEF SendDatagram, TypeOK
<1>3. PICK shown \in SUBSET (Actives \ {h}) :
        /\ \A v \in Viewer, s \in Slot, t \in Client :
             hist'[v][s][t] = IF v = h /\ s = SlotOf(out[h]) /\ IsActive(t) /\ t # h
                                THEN AddToFullPackPost(h, t, shown) ELSE hist[v][s][t]
        /\ \A c \in Client, s \in Slot :
             frames'[c][s] = IF c = h /\ s = SlotOf(out[h]) THEN SentFrame(h, shown) ELSE frames[c][s]
  BY <1>1, SendFacts
<1> DEFINE cur == SlotOf(out[h])
           p   == SentFrame(h, shown)
           all == shown \cup {h}
<1>4. cur \in Slot
  BY <1>2, SlotInRing
<1>5. /\ all \in SUBSET Client
      /\ p = [seq |-> out[h], ents |-> [t \in Client |-> IF t \in all THEN player[t] ELSE 0]]
  <2>1. \A t \in all : IsActive(t) /\ t \in Client
    BY <1>2 DEF Actives
  <2>2. \A t \in all : player[t] = gen[t]
    BY <2>1 DEF player, Present
  <2>3. QED
    BY <2>1, <2>2 DEF SentFrame
<1>6. p # NoFrame
  <2>1. p.seq # 0
    BY <1>1 DEF SentFrame, TypeOK
  <2>2. QED
    BY <2>1 DEF NoFrame
<1>7. \A c \in Client \ {h} : Packets(c)' = Packets(c)
  BY <1>3 DEF Packets
<1>8. p \in Packets(h)'
  BY <1>3, <1>4, <1>6 DEF Packets
<1>9. Packets(h)' \subseteq Packets(h) \cup {p}
  BY <1>3, <1>4 DEF Packets
<1>10. ASSUME NEW old \in Packets(h), old.seq > out[h] - Backup
       PROVE  old \in Packets(h)'
  <2>1. PICK s \in Slot : old = frames[h][s] /\ old # NoFrame
    BY DEF Packets
  <2>2. s # cur
    <3> DEFINE q == old.seq
    <3>1. /\ q < out[h] /\ SlotOf(q) = s
      BY <1>1, <2>1 DEF FrameWindow
    <3>2. q \in Int
      BY <1>1, <2>1 DEF TypeOK, Frame
    <3>3. q # out[h] /\ q <= out[h] /\ out[h] < q + Backup /\ out[h] \in Int
      BY <1>2, <1>10, <3>1, <3>2
    <3> HIDE DEF q
    <3>4. SlotOf(q) # SlotOf(out[h])
      BY <3>2, <3>3, SlotInjective
    <3>5. QED
      BY <3>1, <3>4
  <2>3. QED
    BY <1>3, <2>1, <2>2 DEF Packets
<1>11. /\ log'[h] = Packets(h)' /\ log[h] = Packets(h)
       /\ log' = [log EXCEPT ![h] = log'[h]]
  BY <1>7 DEF log
<1>12. player[h] # 0
  BY <1>1, <1>2 DEF player, Present, Occupied, IsActive
<1>13. sampled' = sampled
  <2>1. Server \in Viewer /\ Server # h /\ SlotOf(serverFrame) \in Slot
    BY <1>1, SlotInRing DEF Viewer, TypeOK
  <2>2. \A t \in Client : Current(t)' = Current(t)
    BY <1>2, <1>3, <2>1 DEF Current
  <2>3. QED
    BY <1>2, <2>2 DEF sampled
<1> HIDE DEF p, all
<1>14. \E showing \in SUBSET Client :
         LET sent == [seq |-> out[h], ents |-> [t \in Client |-> IF t \in showing THEN player[t] ELSE 0]]
         IN /\ sent \in log'[h] /\ log'[h] \subseteq log[h] \cup {sent}
            /\ \A old \in log[h] : old.seq > out[h] - Backup => old \in log'[h]
  BY <1>5, <1>8, <1>9, <1>10, <1>11
<1>15. QED
  BY <1>2, <1>11, <1>12, <1>13, <1>14, Frozen DEF Log!Send

LEMMA PlainMaps ==
  ASSUME NEW h \in Client, NEW lag \in BOOLEAN, PlayerPreThinkPre(h, lag), ~Compensated(h, lag)
  PROVE  Log!Plain(h)
<1>1. params' = [t \in Client |-> params[t]]
  BY DEF PlayerPreThinkPre
<1>2. posed' = posed
  BY <1>1 DEF posed, Pose
<1>3. /\ thinker = Server /\ thinker' = h /\ nofind' = TRUE
      /\ UNCHANGED <<engineVars, serverFrame, hist>>
  BY DEF PlayerPreThinkPre
<1>4. compensated' = FALSE
  BY <1>3 DEF compensated
<1>5. QED
  BY <1>2, <1>3, <1>4, Frozen DEF engineVars, Log!Plain

\* The frame at the acknowledged packet's slot is the one a command is judged by.
LEMMA CompensateMaps ==
  ASSUME RInv, NEW h \in Client, NEW lag \in BOOLEAN,
         PlayerPreThinkPre(h, lag), Compensated(h, lag)
  PROVE  Log!Compensate(h)
<1> DEFINE cur == SlotOf(ack[h])
           p   == frames[h][cur]
<1>1. TypeOK /\ FrameWindow /\ Occupied /\ AckSent /\ FrameCoherent /\ OwnView
  BY DEF RInv, IInv
<1>2. /\ thinker = Server /\ thinker' = h /\ nofind' = FALSE /\ IsActive(h)
      /\ UNCHANGED <<engineVars, serverFrame, hist>>
      /\ params' = [t \in Client |->
                       IF t \in {u \in Actives \ {h} : p.ents[u] # 0}
                         THEN hist[h][cur][t] ELSE params[t]]
  BY DEF PlayerPreThinkPre, FrameIndex, Compensated
<1>3. /\ cur \in Slot /\ h \in Viewer /\ p \in Frame
      /\ ack[h] \in Nat /\ out[h] \in Nat /\ ack[h] < out[h]
  <2>1. ack[h] \in Nat /\ out[h] \in Nat
    BY <1>1 DEF TypeOK
  <2>2. cur \in Slot
    BY <2>1, SlotInRing
  <2>3. QED
    BY <1>1, <2>1, <2>2 DEF TypeOK, Viewer, AckSent
<1>4. /\ p.seq = 0 => p = NoFrame
      /\ p.seq # 0 => p.seq < out[h] /\ p.seq >= out[h] - Backup /\ SlotOf(p.seq) = cur
  BY <1>1, <1>3 DEF FrameWindow
<1>5. p = NoFrame \/ p \in Packets(h)
  BY <1>3 DEF Packets
<1>6. ASSUME NEW t \in Client
      PROVE  Pose(params'[t]) =
               IF t # h /\ player[t] # 0 /\ p.ents[t] # 0
                 THEN [view |-> h, stamp |-> p.seq, who |-> p.ents[t]] ELSE posed[t]
  <2>1. player[t] # 0 <=> t \in Actives
    BY <1>1 DEF player, Present, Actives, Occupied, IsActive
  <2>2. CASE t # h /\ t \in Actives /\ p.ents[t] # 0
    <3>1. p.seq # 0
      BY <1>4, <2>2 DEF NoFrame
    <3>2. hist[h][cur][t].stamp = p.seq /\ hist[h][cur][t].who = p.ents[t]
      BY <1>1, <1>3, <2>2 DEF FrameCoherent
    <3>3. hist[h][cur][t].view = h
      BY <1>1, <1>3, <3>1, <3>2 DEF OwnView
    <3>4. params'[t] = hist[h][cur][t]
      BY <1>2, <2>2
    <3>5. QED
      BY <2>1, <2>2, <3>2, <3>3, <3>4 DEF Pose
  <2>3. CASE ~(t # h /\ t \in Actives /\ p.ents[t] # 0)
    <3>1. params'[t] = params[t]
      BY <1>2, <2>3
    <3>2. QED
      BY <2>1, <2>3, <3>1 DEF posed
  <2>4. QED
    BY <2>2, <2>3
<1>7. posed' = [t \in Client |->
                  IF t # h /\ player[t] # 0 /\ p.ents[t] # 0
                    THEN [view |-> h, stamp |-> p.seq, who |-> p.ents[t]] ELSE posed[t]]
  <2>1. posed' = [t \in Client |-> Pose(params'[t])]
    BY DEF posed, Pose
  <2> HIDE DEF p
  <2>2. QED
    BY <1>6, <2>1
<1>8. p \in Log!Judged(h)
  <2>1. NoFrame = Log!Nothing /\ log[h] = Packets(h)
    BY DEF NoFrame, Log!Nothing, log
  <2>2. CASE ack[h] < out[h] - Backup
    BY <1>5, <2>1, <2>2 DEF Log!Judged
  <2>3. CASE ~(ack[h] < out[h] - Backup)
    \* A packet of the ring with the acknowledged number, or with its slot, is p.
    <3>1. ASSUME NEW r \in Packets(h), r.seq = ack[h] PROVE r = p
      <4>1. PICK s \in Slot : r = frames[h][s] /\ r # NoFrame
        BY DEF Packets
      <4>2. s = cur
        BY <1>1, <3>1, <4>1 DEF FrameWindow
      <4>3. QED
        BY <4>1, <4>2
    <3>2. ASSUME p.seq # 0 PROVE p.seq = ack[h]
      <4> DEFINE q == p.seq
                 a == ack[h]
      <4>1. /\ q \in Int /\ q < out[h] /\ q >= out[h] - Backup /\ SlotOf(q) = SlotOf(a)
            /\ a \in Int /\ a < out[h] /\ a >= out[h] - Backup /\ out[h] \in Int
        BY <1>3, <1>4, <2>3, <3>2 DEF Frame
      <4> HIDE DEF q, a
      <4>2. q < a + Backup /\ a < q + Backup /\ (q <= a \/ a <= q)
        BY <4>1
      <4>3. q = a
        BY <4>1, <4>2, SlotInjective
      <4>4. QED
        BY <4>3 DEF q, a
    <3>3. CASE p = NoFrame
      <4>1. \A r \in Packets(h) : r.seq # ack[h]
        BY <3>1, <3>3 DEF Packets
      <4>2. QED
        BY <2>1, <2>3, <3>3, <4>1 DEF Log!Judged
    <3>4. CASE p # NoFrame
      <4>1. p \in Packets(h) /\ p.seq = ack[h]
        BY <1>4, <1>5, <3>2, <3>4
      <4>2. QED
        BY <2>1, <2>3, <4>1 DEF Log!Judged
    <3>5. QED
      BY <3>3, <3>4
  <2>4. QED
    BY <2>2, <2>3
<1>9. compensated' = TRUE
  <2>1. h # Server
    OBVIOUS
  <2>2. QED
    BY <1>2, <2>1 DEF compensated
<1>10. player[h] # 0
  BY <1>1, <1>2 DEF player, Present, Occupied, IsActive
<1> HIDE DEF p
<1>11. QED
  BY <1>2, <1>7, <1>8, <1>9, <1>10, Frozen DEF engineVars, Log!Compensate
\* The slot of this frame holds this frame's record of a player, or one a whole ring old.
LEMMA FinishMaps ==
  ASSUME RInv, NEW h \in Client, PlayerPostThinkPost(h) PROVE Log!Finish(h)
<1>1. TypeOK /\ ServerFrames /\ Occupied
  BY DEF RInv, IInv
<1>2. /\ thinker = h /\ thinker' = Server /\ nofind' = FALSE
      /\ UNCHANGED <<engineVars, serverFrame, hist>>
      /\ params' = [t \in Client |-> IF IsActive(t) THEN Current(t) ELSE params[t]]
  BY DEF PlayerPostThinkPost, ServerView, Current
<1>3. /\ Server \in Viewer /\ serverFrame \in Nat /\ SlotOf(serverFrame) \in Slot
  BY <1>1, SlotInRing DEF TypeOK, Viewer
<1>4. posed' = [t \in Client |-> Pose(params'[t])]
  BY DEF posed, Pose
<1>5. posed' \in [Client -> Log!Pose]
  <2>1. params' \in [Client -> Record]
    BY <1>1, <1>2, <1>3 DEF TypeOK, Current
  <2>2. \A t \in Client : Pose(params'[t]) \in Log!Pose
    BY <2>1 DEF Record, Gen, Junk, Viewer, Pose, Log!Pose, Log!Viewer
  <2>3. QED
    BY <1>4, <2>2
<1>6. ASSUME NEW t \in Client
      PROVE  IF player[t] = 0 THEN posed'[t] = posed[t]
             ELSE IF sampled[t] # 0
               THEN posed'[t] = [view |-> Server, stamp |-> serverFrame, who |-> sampled[t]]
               ELSE /\ posed'[t].view = Server
                    /\ posed'[t].stamp = 0 \/ posed'[t].stamp <= serverFrame - Backup
  <2>1. player[t] = 0 <=> ~IsActive(t)
    BY <1>1 DEF player, Present, Occupied, IsActive
  <2>2. CASE ~IsActive(t)
    BY <1>2, <1>4, <2>1, <2>2 DEF posed
  <2>3. CASE IsActive(t)
    <3> DEFINE r == Current(t)
    <3>1. posed'[t] = Pose(r)
      BY <1>2, <1>4, <2>3
    <3>2. /\ r \in Record /\ r.view = Server
          /\ r.stamp # 0 => /\ r.stamp <= serverFrame /\ SlotOf(r.stamp) = SlotOf(serverFrame)
                             /\ r.who # 0
      BY <1>1, <1>3 DEF ServerFrames, Current, TypeOK
    <3>3. r.stamp \in Nat
      BY <3>2 DEF Record
    <3>4. sampled[t] = IF r.stamp = serverFrame THEN r.who ELSE 0
      BY DEF sampled
    <3> HIDE DEF r
    <3>5. CASE sampled[t] # 0
      BY <2>1, <2>3, <3>1, <3>2, <3>4, <3>5 DEF Pose
    <3>6. CASE sampled[t] = 0 /\ r.stamp # 0
      <4>1. r.stamp # serverFrame
        BY <3>2, <3>4, <3>6
      <4>2. r.stamp \in Int /\ serverFrame \in Int
        BY <1>3, <3>3
      <4>3. ~(serverFrame < r.stamp + Backup)
        BY <3>2, <3>6, <4>1, <4>2, SlotInjective
      <4>4. r.stamp <= serverFrame - Backup
        BY <4>2, <4>3
      <4>5. QED
        BY <2>1, <2>3, <3>1, <3>2, <3>6, <4>4 DEF Pose
    <3>7. CASE sampled[t] = 0 /\ r.stamp = 0
      BY <2>1, <2>3, <3>1, <3>2, <3>7 DEF Pose
    <3>8. QED
      BY <3>5, <3>6, <3>7
  <2>4. QED
    BY <2>2, <2>3
<1>7. compensated' = FALSE
  BY <1>2 DEF compensated
<1>8. QED
  BY <1>2, <1>5, <1>6, <1>7, Frozen DEF engineVars, Log!Finish

\* An edit of the working copy is not seen in the mapping.
LEMMA SetupBonesMaps ==
  ASSUME TypeOK, NEW e \in Client, NEW enabled \in BOOLEAN, SetupBones(e, enabled)
  PROVE  UNCHANGED Log!vars
<1>1. params' = params \/ params' = [params EXCEPT ![e].pose = "edited"]
  BY DEF SetupBones
<1>2. \A t \in Client : Pose(params'[t]) = Pose(params[t])
  BY <1>1, EditKeeps DEF Pose
<1>3. posed' = posed
  BY <1>2 DEF posed, Pose
<1>4. QED
  BY <1>3, Frozen DEF SetupBones, engineVars, Log!vars

LEMMA StepMaps == RInv /\ [Next]_vars => [Log!Next]_(Log!vars)
<1> SUFFICES ASSUME RInv, [Next]_vars PROVE [Log!Next]_(Log!vars)
  OBVIOUS
<1>1. TypeOK
  BY DEF RInv, IInv
<1>2. CASE StartFramePost
  BY <1>2, SampleMaps DEF Log!Next
<1>3. ASSUME NEW h \in Client, PutInServer(h) PROVE Log!Next
  BY <1>3, EnterMaps DEF Log!Next
<1>4. ASSUME NEW h \in Client, NEW lag \in BOOLEAN, PlayerPreThinkPre(h, lag) PROVE Log!Next
  BY <1>4, PlainMaps, CompensateMaps DEF Log!Next
<1>5. ASSUME NEW h \in Client, PlayerPostThinkPost(h) PROVE Log!Next
  BY <1>5, FinishMaps DEF Log!Next
<1>6. ASSUME NEW h \in Client, SendDatagram(h) PROVE Log!Next
  BY <1>6, SendMaps DEF Log!Next
<1>7. ASSUME NEW e \in Client, NEW enabled \in BOOLEAN, SetupBones(e, enabled)
      PROVE  UNCHANGED Log!vars
  BY <1>1, <1>7, SetupBonesMaps
<1>8. ASSUME NEW c \in Client, Connect(c) PROVE Log!Next
  BY <1>1, <1>8, ConnectMaps DEF Log!Next
<1>9. ASSUME NEW c \in Client, TransmitEmpty(c) PROVE Log!Next
  BY <1>1, <1>9, SendEmptyMaps DEF Log!Next
<1>10. ASSUME NEW c \in Client, Acknowledge(c) PROVE Log!Next
  BY <1>10, AcknowledgeMaps DEF Log!Next
<1>11. ASSUME NEW c \in Client, Leave(c) PROVE Log!Next
  BY <1>1, <1>11, LeaveMaps DEF Log!Next
<1>12. CASE EndFrame
  BY <1>12, EndFrameMaps
<1>13. CASE UNCHANGED vars
  BY <1>13, Frozen DEF vars, engineVars, Log!vars
<1>14. QED
  BY <1>2, <1>3, <1>4, <1>5, <1>6, <1>7, <1>8, <1>9, <1>10, <1>11, <1>12, <1>13
  DEF Next, Plugin, Engine

\* The rings of player_params_history, with one index for reading and writing, do what logs
\* of all packets would, for every client whose acknowledgement is at most a ring old.
THEOREM StoreBacktracks == Spec => Backtracks
<1>1. Init => Log!Init
  BY InitMaps
<1>2. RInv /\ [Next]_vars => [Log!Next]_(Log!vars)
  BY StepMaps
<1>3. QED
  BY <1>1, <1>2, RefinementInv, PTL DEF Spec, Backtracks, Log!Spec
=============================================================================
