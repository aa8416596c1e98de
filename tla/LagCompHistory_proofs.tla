----------------------- MODULE LagCompHistory_proofs -----------------------
(***************************************************************************)
(* Proofs about LagCompHistory for every roster, ring size and bound.      *)
(***************************************************************************)
EXTENDS LagCompHistory, TLAPS

USE HistoryAssumption

-----------------------------------------------------------------------------
(* Ring arithmetic.                                                        *)

\* An index computed with SV_UPDATE_MASK is always a slot of the ring.
LEMMA SlotInRing == ASSUME NEW q \in Int PROVE SlotOf(q) \in Slot
  BY DEF SlotOf, Slot

\* Two numbers less than a whole ring apart share a slot only if they are equal.
LEMMA SlotInjective ==
  ASSUME NEW a \in Int, NEW b \in Int, SlotOf(a) = SlotOf(b), a <= b, b < a + Backup
  PROVE  a = b
<1> DEFINE x == a \div Backup
           y == b \div Backup
<1>1. /\ a = x * Backup + (a % Backup) /\ x \in Int
      /\ b = y * Backup + (b % Backup) /\ y \in Int
      /\ a % Backup = b % Backup /\ a % Backup \in 0..(Backup - 1)
  BY SMT DEF SlotOf
<1> HIDE DEF x, y
<1>2. b - a = (y - x) * Backup
  BY <1>1, SMT
<1>3. CASE y - x >= 1
  BY <1>1, <1>2, <1>3, SMT
<1>4. CASE y - x <= -1
  BY <1>1, <1>2, <1>4, SMT
<1>5. QED
  BY <1>1, <1>2, <1>3, <1>4, SMT

\* A number and the one a whole ring before it share a slot.
LEMMA SlotPeriodic == ASSUME NEW q \in Int PROVE SlotOf(q - Backup) = SlotOf(q)
<1> DEFINE x == q \div Backup
           y == (q - Backup) \div Backup
           r == q % Backup
           u == (q - Backup) % Backup
<1>1. /\ q = x * Backup + r /\ x \in Int /\ r \in 0..(Backup - 1)
      /\ q - Backup = y * Backup + u /\ y \in Int /\ u \in 0..(Backup - 1)
  BY SMT
<1>2. SlotOf(q) = r /\ SlotOf(q - Backup) = u
  BY DEF SlotOf
<1> HIDE DEF x, y, r, u
<1>3. r - u = (y - x + 1) * Backup
  BY <1>1, SMT
<1>4. CASE y - x + 1 >= 1
  BY <1>1, <1>3, <1>4, SMT
<1>5. CASE y - x + 1 <= -1
  BY <1>1, <1>3, <1>5, SMT
<1>6. QED
  BY <1>1, <1>2, <1>3, <1>4, <1>5, SMT

-----------------------------------------------------------------------------
(* Type correctness.                                                       *)

\* A record computed from typed data is a record.
LEMMA ProcessAnimParamsType ==
  ASSUME NEW v \in Viewer, NEW seq \in Nat, NEW who \in Gen, NEW owner \in Nat,
         NEW prev \in Record
  PROVE  ProcessAnimParams(v, seq, who, owner, prev) \in Record
  BY DEF ProcessAnimParams, Record

\* An edited record is a record.
LEMMA EditType == ASSUME NEW r \in Record PROVE [r EXCEPT !.pose = "edited"] \in Record
  BY DEF Record

LEMMA ZeroType == Zero \in Record /\ NoHistory \in [Slot -> [Client -> Record]]
  BY DEF Zero, NoHistory, Record, Viewer, Gen, Junk

LEMMA NoFrameType == NoFrame \in Frame
  BY DEF NoFrame, Frame

LEMMA TypeInit == Init => TypeOK
<1> SUFFICES ASSUME Init PROVE TypeOK
  OBVIOUS
<1>1. /\ [v \in Viewer |-> NoHistory] \in [Viewer -> [Slot -> [Client -> Record]]]
      /\ [t \in Client |-> Zero] \in [Client -> Record]
      /\ [c \in Client |-> [s \in Slot |-> NoFrame]] \in [Client -> [Slot -> Frame]]
  BY ZeroType, NoFrameType
<1>2. /\ hist \in [Viewer -> [Slot -> [Client -> Record]]]
      /\ params \in [Client -> Record]
      /\ frames \in [Client -> [Slot -> Frame]]
  BY <1>1 DEF Init
<1>3. /\ status \in [Client -> Status]
      /\ gen \in [Client -> Nat]
      /\ out \in [Client -> Nat \ {0}]
      /\ ack \in [Client -> Nat]
  BY DEF Init, Status
<1>4. /\ phase \in {"read", "send"}
      /\ thinker \in Viewer
      /\ serverFrame \in Nat
      /\ nofind \in BOOLEAN
  BY DEF Init, Viewer
<1>5. QED
  BY <1>2, <1>3, <1>4 DEF TypeOK

LEMMA TypeStep == TypeOK /\ [Next]_vars => TypeOK'
<1> SUFFICES ASSUME TypeOK, [Next]_vars PROVE TypeOK'
  OBVIOUS
<1> USE DEF TypeOK
<1>1. ASSUME NEW h \in Client, PutInServer(h) PROVE TypeOK'
  BY <1>1, ZeroType DEF PutInServer, Forget, Status, Viewer
<1>2. CASE StartFramePost
  <2> DEFINE now == serverFrame + 1
             new(t) == ProcessAnimParams(Server, now, gen[t], 0, PrevRecord(Server, now, t))
  <2>1. now \in Nat /\ SlotOf(now) \in Slot /\ SlotOf(now - 1) \in Slot /\ Server \in Viewer
    BY SlotInRing DEF Viewer
  <2>2. \A t \in Client : new(t) \in Record
    BY <2>1, ProcessAnimParamsType DEF PrevRecord, Gen
  <2> HIDE DEF new
  <2>3. /\ hist' = [hist EXCEPT ![Server][SlotOf(now)] =
             [t \in Client |-> IF IsActive(t) THEN new(t) ELSE hist[Server][SlotOf(now)][t]]]
        /\ params' = [t \in Client |-> IF IsActive(t) THEN new(t) ELSE params[t]]
    BY <1>2 DEF StartFramePost, new
  <2>4. hist' \in [Viewer -> [Slot -> [Client -> Record]]] /\ params' \in [Client -> Record]
    BY <2>1, <2>2, <2>3
  <2>5. QED
    BY <1>2, <2>1, <2>4 DEF StartFramePost
<1>3. ASSUME NEW h \in Client, NEW lag \in BOOLEAN, PlayerPreThinkPre(h, lag) PROVE TypeOK'
  <2>1. FrameIndex(h) \in Slot /\ h \in Viewer
    BY SlotInRing DEF FrameIndex, Viewer
  <2>2. QED
    BY <1>3, <2>1 DEF PlayerPreThinkPre, engineVars, Compensated
<1>4. ASSUME NEW h \in Client, PlayerPostThinkPost(h) PROVE TypeOK'
  <2>1. SlotOf(serverFrame) \in Slot /\ Server \in Viewer
    BY SlotInRing DEF Viewer
  <2>2. QED
    <3>1. params' \in [Client -> Record]
      BY <1>4, <2>1 DEF PlayerPostThinkPost, ServerView
    <3>2. QED
      BY <1>4, <2>1, <3>1 DEF PlayerPostThinkPost, engineVars
<1>5. ASSUME NEW h \in Client, SendDatagram(h) PROVE TypeOK'
  <2>1. PICK shown \in SUBSET (Actives \ {h}) :
          /\ hist' = [hist EXCEPT ![h][SlotOf(out[h])] =
                        [t \in Client |-> IF IsActive(t) /\ t # h
                                            THEN AddToFullPackPost(h, t, shown)
                                            ELSE hist[h][SlotOf(out[h])][t]]]
          /\ frames' = [frames EXCEPT ![h][SlotOf(out[h])] =
                          SentFrame(h, shown)]
    BY <1>5 DEF SendDatagram
  <2>2. SlotOf(out[h]) \in Slot /\ SlotOf(out[h] - 1) \in Slot /\ h \in Viewer
    BY SlotInRing DEF Viewer
  <2>3. \A t \in Client : AddToFullPackPost(h, t, shown) \in Record
    BY <2>2, ProcessAnimParamsType DEF AddToFullPackPost, PrevRecord, Gen, Junk
  <2>4. hist' \in [Viewer -> [Slot -> [Client -> Record]]]
    BY <2>1, <2>2, <2>3
  <2>5. frames' \in [Client -> [Slot -> Frame]]
    <3>1. SentFrame(h, shown) \in Frame
      BY DEF SentFrame, Frame
    <3>2. QED
      BY <2>1, <2>2, <3>1
  <2>6. QED
    BY <1>5, <2>4, <2>5 DEF SendDatagram
<1>6. ASSUME NEW e \in Client, NEW enabled \in BOOLEAN, SetupBones(e, enabled) PROVE TypeOK'
  <2>1. [params[e] EXCEPT !.pose = "edited"] \in Record
    BY EditType
  <2>2. params' = params \/ params' = [params EXCEPT ![e] = [params[e] EXCEPT !.pose = "edited"]]
    BY <1>6 DEF SetupBones
  <2>3. QED
    BY <1>6, <2>1, <2>2 DEF SetupBones, engineVars
<1>7. ASSUME NEW c \in Client, Connect(c) PROVE TypeOK'
  <2>1. [s \in Slot |-> NoFrame] \in [Slot -> Frame]
    BY NoFrameType
  <2>2. frames' \in [Client -> [Slot -> Frame]]
    <3>1. frames' = [frames EXCEPT ![c] = [s \in Slot |-> NoFrame]]
      BY <1>7 DEF Connect
    <3> HIDE DEF Frame
    <3>2. QED
      BY <2>1, <3>1
  <2>3. status' \in [Client -> Status] /\ gen' \in [Client -> Nat]
    BY <1>7 DEF Connect, Status
  <2>4. out' \in [Client -> Nat \ {0}] /\ ack' \in [Client -> Nat]
    <3>1. \/ out' = [out EXCEPT ![c] = 1] /\ ack' = [ack EXCEPT ![c] = 0]
          \/ UNCHANGED <<out, ack>>
      BY <1>7 DEF Connect
    <3>2. QED
      BY <3>1
  <2>5. QED
    BY <1>7, <2>2, <2>3, <2>4 DEF Connect
<1>8. ASSUME NEW c \in Client, TransmitEmpty(c) PROVE TypeOK'
  BY <1>8 DEF TransmitEmpty, Status
<1>9. ASSUME NEW c \in Client, Acknowledge(c) PROVE TypeOK'
  BY <1>9 DEF Acknowledge
<1>10. ASSUME NEW c \in Client, Leave(c) PROVE TypeOK'
  BY <1>10 DEF Leave, Status
<1>11. CASE EndFrame
  BY <1>11 DEF EndFrame
<1>12. CASE UNCHANGED vars
  BY <1>12 DEF vars, engineVars
<1>13. QED
  BY <1>1, <1>2, <1>3, <1>4, <1>5, <1>6, <1>7, <1>8, <1>9, <1>10, <1>11, <1>12
     DEF Next, Plugin, Engine

\* The variables keep their types: every index into the rings that a handler computes is
\* inside them, for every number the netchan, the server frame counter and a roster reach.
THEOREM TypeCorrect == Spec => []TypeOK
<1>1. Init => TypeOK
  BY TypeInit
<1>2. TypeOK /\ [Next]_vars => TypeOK'
  BY TypeStep
<1>3. QED
  BY <1>1, <1>2, PTL DEF Spec

-----------------------------------------------------------------------------
(* The inductive invariant.                                                *)

\* Commands are run while packets are read, and none is under way while packets are sent.
PhaseOK == phase = "send" => thinker = Server

\* Only packets that were sent are acknowledged.
AckSent == \A c \in Client : ack[c] < out[c]

\* A frame the ring holds is that of one of the last Backup packets, at its own slot.
FrameWindow ==
  \A h \in Client, s \in Slot :
    /\ frames[h][s].seq = 0 => frames[h][s] = NoFrame
    /\ frames[h][s].seq # 0 => /\ frames[h][s].seq < out[h]
                               /\ frames[h][s].seq >= out[h] - Backup
                               /\ SlotOf(frames[h][s].seq) = s

\* A client that has not entered the game was shown nothing yet.
NoFramesYet ==
  \A h \in Client : status[h] \in {"connecting", "signon"} =>
    \A s \in Slot : frames[h][s] = NoFrame

\* A record filed under a viewer was computed for that viewer, and no edit is in it.
OwnView ==
  \A v \in Viewer, s \in Slot, t \in Client :
    /\ hist[v][s][t].stamp # 0 => hist[v][s][t].view = v
    /\ hist[v][s][t].pose = "recorded"

\* The server's view is never ahead of the occupant, and behind it until it is in the game.
Sampled ==
  \A s \in Slot, t \in Client :
    /\ hist[Server][s][t].who <= gen[t]
    /\ status[t] \in {"connecting", "signon"} => hist[Server][s][t].who < gen[t]

IInv ==
  /\ TypeOK
  /\ PhaseOK
  /\ AckSent
  /\ FrameWindow
  /\ NoFramesYet
  /\ OwnView
  /\ Sampled
  /\ FrameCoherent
  /\ BacktrackExact
  /\ ViewOwner
  /\ RowOwned

-----------------------------------------------------------------------------
(* What the handlers write, slot by slot.                                  *)

LEMMA SendFacts ==
  ASSUME TypeOK, NEW h \in Client, SendDatagram(h)
  PROVE  \E shown \in SUBSET (Actives \ {h}) :
           /\ \A v \in Viewer, s \in Slot, t \in Client :
                hist'[v][s][t] = IF v = h /\ s = SlotOf(out[h]) /\ IsActive(t) /\ t # h
                                   THEN AddToFullPackPost(h, t, shown) ELSE hist[v][s][t]
           /\ \A c \in Client, s \in Slot :
                frames'[c][s] = IF c = h /\ s = SlotOf(out[h]) THEN SentFrame(h, shown) ELSE frames[c][s]
<1>1. PICK shown \in SUBSET (Actives \ {h}) :
        /\ hist' = [hist EXCEPT ![h][SlotOf(out[h])] =
                      [t \in Client |-> IF IsActive(t) /\ t # h
                                          THEN AddToFullPackPost(h, t, shown)
                                          ELSE hist[h][SlotOf(out[h])][t]]]
        /\ frames' = [frames EXCEPT ![h][SlotOf(out[h])] = SentFrame(h, shown)]
  BY DEF SendDatagram
<1>2. SlotOf(out[h]) \in Slot /\ h \in Viewer
  BY SlotInRing DEF Viewer, TypeOK
<1>3. \A v \in Viewer, s \in Slot, t \in Client :
        hist'[v][s][t] = IF v = h /\ s = SlotOf(out[h]) /\ IsActive(t) /\ t # h
                           THEN AddToFullPackPost(h, t, shown) ELSE hist[v][s][t]
  BY <1>1, <1>2 DEF TypeOK
<1>4. \A c \in Client, s \in Slot :
        frames'[c][s] = IF c = h /\ s = SlotOf(out[h]) THEN SentFrame(h, shown) ELSE frames[c][s]
  BY <1>1, <1>2 DEF TypeOK
<1>5. QED
  BY <1>3, <1>4

LEMMA StartFacts ==
  ASSUME TypeOK, StartFramePost
  PROVE  \A v \in Viewer, s \in Slot, t \in Client :
           LET now == serverFrame + 1 IN
           hist'[v][s][t] =
             IF v = Server /\ s = SlotOf(now) /\ IsActive(t)
               THEN ProcessAnimParams(Server, now, gen[t], 0, PrevRecord(Server, now, t))
               ELSE hist[v][s][t]
<1> DEFINE now == serverFrame + 1
           new(t) == ProcessAnimParams(Server, now, gen[t], 0, PrevRecord(Server, now, t))
<1>1. hist' = [hist EXCEPT ![Server][SlotOf(now)] =
                 [t \in Client |-> IF IsActive(t) THEN new(t) ELSE hist[Server][SlotOf(now)][t]]]
  BY DEF StartFramePost
<1>2. SlotOf(now) \in Slot /\ Server \in Viewer
  BY SlotInRing DEF Viewer, TypeOK
<1> HIDE DEF new
<1>3. \A v \in Viewer, s \in Slot, t \in Client :
        hist'[v][s][t] = IF v = Server /\ s = SlotOf(now) /\ IsActive(t) THEN new(t)
                         ELSE hist[v][s][t]
  BY <1>1, <1>2 DEF TypeOK
<1>4. QED
  BY <1>3 DEF new

LEMMA StartWrites ==
  ASSUME TypeOK, StartFramePost, NEW v \in Viewer, NEW s \in Slot, NEW t \in Client
  PROVE  \/ hist'[v][s][t] = hist[v][s][t]
         \/ /\ v = Server /\ s = SlotOf(serverFrame + 1) /\ IsActive(t)
            /\ hist'[v][s][t].view = v
            /\ hist'[v][s][t].stamp = serverFrame + 1
            /\ hist'[v][s][t].who = gen[t]
            /\ hist'[v][s][t].pose = "recorded"
<1> DEFINE now == serverFrame + 1
           new == ProcessAnimParams(Server, now, gen[t], 0, PrevRecord(Server, now, t))
<1>1. hist'[v][s][t] = IF v = Server /\ s = SlotOf(now) /\ IsActive(t) THEN new ELSE hist[v][s][t]
  BY StartFacts
<1>2. new.view = Server /\ new.stamp = now /\ new.who = gen[t] /\ new.pose = "recorded"
  BY DEF ProcessAnimParams
<1> HIDE DEF new
<1>3. QED
  BY <1>1, <1>2

LEMMA PutInFacts ==
  ASSUME TypeOK, NEW h \in Client, PutInServer(h)
  PROVE  \A v \in Viewer, s \in Slot, t \in Client :
           hist'[v][s][t] = IF v = h THEN Zero ELSE hist[v][s][t]
<1>1. hist' = [hist EXCEPT ![h] = NoHistory]
  BY DEF PutInServer, Forget
<1>2. QED
  BY <1>1 DEF TypeOK, NoHistory

\* The only steps that write a ring.
LEMMA HistWriters ==
  ASSUME [Next]_vars
  PROVE  \/ UNCHANGED hist
         \/ StartFramePost
         \/ \E h \in Client : PutInServer(h) \/ SendDatagram(h)
  BY DEF Next, Plugin, Engine, PlayerPreThinkPre, PlayerPostThinkPost, SetupBones, Connect,
         TransmitEmpty, Acknowledge, Leave, EndFrame, vars, engineVars

-----------------------------------------------------------------------------
(* The parts of the invariant, in the order in which they rest on each other. *)

LEMMA NetchanStep ==
  ASSUME TypeOK, PhaseOK, AckSent, [Next]_vars
  PROVE  PhaseOK' /\ AckSent'
<1> USE DEF TypeOK, PhaseOK, AckSent
<1>1. ASSUME NEW h \in Client, PutInServer(h) PROVE PhaseOK' /\ AckSent'
  BY <1>1 DEF PutInServer
<1>2. CASE StartFramePost
  BY <1>2 DEF StartFramePost
<1>3. ASSUME NEW h \in Client, NEW lag \in BOOLEAN, PlayerPreThinkPre(h, lag)
      PROVE  PhaseOK' /\ AckSent'
  BY <1>3 DEF PlayerPreThinkPre, engineVars
<1>4. ASSUME NEW h \in Client, PlayerPostThinkPost(h) PROVE PhaseOK' /\ AckSent'
  BY <1>4 DEF PlayerPostThinkPost, engineVars
<1>5. ASSUME NEW h \in Client, SendDatagram(h) PROVE PhaseOK' /\ AckSent'
  BY <1>5 DEF SendDatagram
<1>6. ASSUME NEW e \in Client, NEW enabled \in BOOLEAN, SetupBones(e, enabled)
      PROVE  PhaseOK' /\ AckSent'
  BY <1>6 DEF SetupBones, engineVars
<1>7. ASSUME NEW c \in Client, Connect(c) PROVE PhaseOK' /\ AckSent'
  BY <1>7 DEF Connect
<1>8. ASSUME NEW c \in Client, TransmitEmpty(c) PROVE PhaseOK' /\ AckSent'
  BY <1>8 DEF TransmitEmpty
<1>9. ASSUME NEW c \in Client, Acknowledge(c) PROVE PhaseOK' /\ AckSent'
  BY <1>9 DEF Acknowledge
<1>10. ASSUME NEW c \in Client, Leave(c) PROVE PhaseOK' /\ AckSent'
  BY <1>10 DEF Leave
<1>11. CASE EndFrame
  BY <1>11 DEF EndFrame
<1>12. CASE UNCHANGED vars
  BY <1>12 DEF vars, engineVars
<1>13. QED
  BY <1>1, <1>2, <1>3, <1>4, <1>5, <1>6, <1>7, <1>8, <1>9, <1>10, <1>11, <1>12
     DEF Next, Plugin, Engine

\* A step that neither sends, connects nor signs on leaves frames and numbers alone.
LEMMA FrameStep ==
  ASSUME TypeOK, FrameWindow, NoFramesYet, [Next]_vars
  PROVE  FrameWindow' /\ NoFramesYet'
<1> USE DEF FrameWindow, NoFramesYet
<1>1. CASE UNCHANGED <<out, frames>> /\ \A c \in Client : status'[c] \in {status[c], "active", "free"}
  BY <1>1
<1>2. ASSUME NEW h \in Client, SendDatagram(h) PROVE FrameWindow' /\ NoFramesYet'
  <2>0. PICK shown \in SUBSET (Actives \ {h}) :
          \A c \in Client, s \in Slot :
            frames'[c][s] = IF c = h /\ s = SlotOf(out[h]) THEN SentFrame(h, shown) ELSE frames[c][s]
    BY <1>2, SendFacts
  <2>1. \A c \in Client, s \in Slot :
          (c = h /\ s = SlotOf(out[h])) \/ frames'[c][s] = frames[c][s]
    BY <2>0
  <2>2. frames'[h][SlotOf(out[h])].seq = out[h]
    <3>1. SlotOf(out[h]) \in Slot
      BY SlotInRing DEF TypeOK
    <3>2. SentFrame(h, shown).seq = out[h]
      BY DEF SentFrame
    <3>3. QED
      BY <2>0, <3>1, <3>2
  <2>3. /\ out' = [out EXCEPT ![h] = out[h] + 1] /\ status' = status /\ status[h] = "active"
        /\ out[h] \in Nat \ {0}
    BY <1>2 DEF SendDatagram, IsActive, TypeOK
  <2>4. ASSUME NEW c \in Client, NEW s \in Slot, ~(c = h /\ s = SlotOf(out[h]))
        PROVE  /\ frames'[c][s].seq = 0 => frames'[c][s] = NoFrame
               /\ frames'[c][s].seq # 0 => /\ frames'[c][s].seq < out'[c]
                                           /\ frames'[c][s].seq >= out'[c] - Backup
                                           /\ SlotOf(frames'[c][s].seq) = s
    <3> DEFINE q == frames[c][s].seq
    <3>1. frames'[c][s] = frames[c][s] /\ q \in Nat /\ out[c] \in Nat
      BY <2>1, <2>4 DEF TypeOK, Frame
    <3>2. CASE c # h
      BY <2>3, <3>1, <3>2 DEF TypeOK
    <3>3. CASE c = h
      <4>1. ASSUME q # 0 PROVE q # out[h] - Backup
        <5>1. SlotOf(out[h] - Backup) = SlotOf(out[h])
          BY <2>3, SlotPeriodic
        <5>2. QED
          BY <5>1, <2>4, <3>3, <4>1
      <4>2. out'[c] = out[h] + 1
        BY <2>3, <3>3 DEF TypeOK
      <4>3. q # 0 => q < out[h] /\ q >= out[h] - Backup /\ SlotOf(q) = s
        BY <3>3
      <4>4. q # 0 => q < out'[c] /\ q >= out'[c] - Backup
        BY <4>1, <4>2, <4>3, <3>1, <3>3
      <4>5. QED
        BY <4>3, <4>4, <3>1
    <3>4. QED
      BY <3>2, <3>3
  <2>5. out'[h] = out[h] + 1
    BY <2>3 DEF TypeOK
  <2>6. FrameWindow'
    BY <2>2, <2>3, <2>4, <2>5
  <2>7. NoFramesYet'
    BY <2>1, <2>3
  <2>8. QED
    BY <2>6, <2>7
<1>3. ASSUME NEW c \in Client, Connect(c) PROVE FrameWindow' /\ NoFramesYet'
  <2>1. /\ frames' = [frames EXCEPT ![c] = [s \in Slot |-> NoFrame]]
        /\ \A h \in Client : h # c => out'[h] = out[h] /\ status'[h] = status[h]
    BY <1>3 DEF Connect, TypeOK
  <2>2. \A h \in Client, s \in Slot : frames'[h][s] = IF h = c THEN NoFrame ELSE frames[h][s]
    BY <2>1 DEF TypeOK
  <2>3. NoFrame.seq = 0
    BY DEF NoFrame
  <2>4. FrameWindow'
    BY <2>1, <2>2, <2>3
  <2>5. NoFramesYet'
    BY <2>1, <2>2
  <2>6. QED
    BY <2>4, <2>5
<1>4. ASSUME NEW c \in Client, TransmitEmpty(c) PROVE FrameWindow' /\ NoFramesYet'
  <2>1. /\ frames' = frames /\ status[c] \in {"connecting", "signon"}
        /\ \A h \in Client : h # c => out'[h] = out[h] /\ status'[h] = status[h]
    BY <1>4 DEF TransmitEmpty, TypeOK
  <2>2. \A s \in Slot : frames[c][s] = NoFrame /\ NoFrame.seq = 0
    BY <2>1 DEF NoFrame
  <2>3. QED
    BY <2>1, <2>2
<1>5. \/ UNCHANGED <<out, frames>> /\ \A c \in Client : status'[c] \in {status[c], "active", "free"}
      \/ \E c \in Client : SendDatagram(c) \/ Connect(c) \/ TransmitEmpty(c)
  BY DEF Next, Plugin, Engine, PutInServer, StartFramePost, PlayerPreThinkPre,
         PlayerPostThinkPost, SetupBones, Acknowledge, Leave, EndFrame, vars, engineVars, TypeOK
<1>6. QED
  BY <1>1, <1>2, <1>3, <1>4, <1>5

LEMMA OwnViewStep ==
  ASSUME TypeOK, OwnView, [Next]_vars
  PROVE  OwnView'
<1> USE DEF OwnView
<1>1. CASE UNCHANGED hist
  BY <1>1
<1>2. CASE StartFramePost
  <2>1. ASSUME NEW v \in Viewer, NEW s \in Slot, NEW t \in Client
        PROVE  \/ hist'[v][s][t] = hist[v][s][t]
               \/ hist'[v][s][t].view = v /\ hist'[v][s][t].pose = "recorded"
    BY <1>2, StartWrites
  <2>2. QED
    BY <2>1
<1>3. ASSUME NEW h \in Client, PutInServer(h) PROVE OwnView'
  BY <1>3, PutInFacts DEF Zero
<1>4. ASSUME NEW h \in Client, SendDatagram(h) PROVE OwnView'
  <2>1. PICK shown \in SUBSET (Actives \ {h}) :
          \A v \in Viewer, s \in Slot, t \in Client :
            hist'[v][s][t] = IF v = h /\ s = SlotOf(out[h]) /\ IsActive(t) /\ t # h
                               THEN AddToFullPackPost(h, t, shown) ELSE hist[v][s][t]
    BY <1>4, SendFacts
  <2>2. ASSUME NEW t \in Client
        PROVE  /\ AddToFullPackPost(h, t, shown).view = h
               /\ AddToFullPackPost(h, t, shown).pose = "recorded"
    BY DEF AddToFullPackPost, ProcessAnimParams
  <2>3. ASSUME NEW v \in Viewer, NEW s \in Slot, NEW t \in Client
        PROVE  \/ hist'[v][s][t] = hist[v][s][t]
               \/ hist'[v][s][t].view = v /\ hist'[v][s][t].pose = "recorded"
    <3>1. CASE v = h /\ s = SlotOf(out[h]) /\ IsActive(t) /\ t # h
      <4>1. hist'[v][s][t] = AddToFullPackPost(h, t, shown)
        BY <2>1, <3>1
      <4>2. QED
        BY <2>2, <3>1, <4>1
    <3>2. CASE ~(v = h /\ s = SlotOf(out[h]) /\ IsActive(t) /\ t # h)
      BY <2>1, <3>2
    <3>3. QED
      BY <3>1, <3>2
  <2>4. QED
    BY <2>3
<1>5. QED
  BY <1>1, <1>2, <1>3, <1>4, HistWriters

LEMMA SampledStep ==
  ASSUME TypeOK, Sampled, [Next]_vars
  PROVE  Sampled'
<1> USE DEF Sampled
<1>1. CASE StartFramePost
  <2>1. status' = status /\ gen' = gen
    BY <1>1 DEF StartFramePost
  <2>2. ASSUME NEW s \in Slot, NEW t \in Client
        PROVE  \/ hist'[Server][s][t] = hist[Server][s][t]
               \/ IsActive(t) /\ hist'[Server][s][t].who = gen[t]
    <3>1. Server \in Viewer
      BY DEF Viewer
    <3>2. QED
      BY <1>1, <3>1, StartWrites
  <2>3. \A t \in Client : gen[t] \in Nat /\ (IsActive(t) => status[t] \notin {"connecting", "signon"})
    BY DEF IsActive, TypeOK
  <2>4. QED
    BY <2>1, <2>2, <2>3
<1>2. ASSUME NEW h \in Client, PutInServer(h) PROVE Sampled'
  <2>1. gen' = gen /\ \A t \in Client : status'[t] \in {status[t], "active"}
    BY <1>2 DEF PutInServer, TypeOK
  <2>2. \A s \in Slot, t \in Client : hist'[Server][s][t] = hist[Server][s][t]
    BY <1>2, PutInFacts DEF Viewer
  <2>3. QED
    BY <2>1, <2>2
<1>3. ASSUME NEW h \in Client, SendDatagram(h) PROVE Sampled'
  <2>1. gen' = gen /\ status' = status
    BY <1>3 DEF SendDatagram
  <2>2. \A s \in Slot, t \in Client : hist'[Server][s][t] = hist[Server][s][t]
    BY <1>3, SendFacts DEF Viewer
  <2>3. QED
    BY <2>1, <2>2
<1>4. ASSUME NEW c \in Client, Connect(c) PROVE Sampled'
  <2>1. /\ hist' = hist /\ gen' = [gen EXCEPT ![c] = gen[c] + 1]
        /\ \A t \in Client : t # c => status'[t] = status[t]
    BY <1>4 DEF Connect, TypeOK
  <2>2. \A s \in Slot, t \in Client : hist[Server][s][t].who \in Int /\ gen[t] \in Int
    BY DEF TypeOK, Record, Gen, Junk, Viewer
  <2>3. QED
    BY <2>1, <2>2 DEF TypeOK
<1>5. CASE UNCHANGED <<hist, gen>> /\ \A t \in Client : \/ status'[t] \in {status[t], "free"}
                                                        \/ status[t] \in {"connecting", "signon"}
  BY <1>5
<1>6. \/ UNCHANGED <<hist, gen>> /\ \A t \in Client : \/ status'[t] \in {status[t], "free"}
                                                      \/ status[t] \in {"connecting", "signon"}
      \/ StartFramePost
      \/ \E h \in Client : PutInServer(h) \/ SendDatagram(h) \/ Connect(h)
  BY DEF Next, Plugin, Engine, PlayerPreThinkPre, PlayerPostThinkPost, SetupBones,
         TransmitEmpty, Acknowledge, Leave, EndFrame, vars, engineVars, TypeOK
<1>7. QED
  BY <1>1, <1>2, <1>3, <1>4, <1>5, <1>6

LEMMA CoherentStep ==
  ASSUME TypeOK, NoFramesYet, FrameCoherent, [Next]_vars
  PROVE  FrameCoherent'
<1> USE DEF FrameCoherent
<1>1. CASE StartFramePost
  <2>1. frames' = frames
    BY <1>1 DEF StartFramePost
  <2>2. \A h \in Client, s \in Slot, t \in Client : hist'[h][s][t] = hist[h][s][t]
    BY <1>1, StartFacts DEF Viewer
  <2>3. QED
    BY <2>1, <2>2
<1>2. ASSUME NEW c \in Client, PutInServer(c) PROVE FrameCoherent'
  <2>1. frames' = frames /\ \A s \in Slot, t \in Client : frames[c][s].ents[t] = 0
    BY <1>2 DEF PutInServer, NoFramesYet, NoFrame
  <2>2. \A h \in Client, s \in Slot, t \in Client : h # c => hist'[h][s][t] = hist[h][s][t]
    BY <1>2, PutInFacts DEF Viewer
  <2>3. QED
    BY <2>1, <2>2
<1>3. ASSUME NEW c \in Client, SendDatagram(c) PROVE FrameCoherent'
  <2>1. PICK shown \in SUBSET (Actives \ {c}) :
          /\ \A v \in Viewer, s \in Slot, t \in Client :
               hist'[v][s][t] = IF v = c /\ s = SlotOf(out[c]) /\ IsActive(t) /\ t # c
                                  THEN AddToFullPackPost(c, t, shown) ELSE hist[v][s][t]
          /\ \A h \in Client, s \in Slot :
               frames'[h][s] = IF h = c /\ s = SlotOf(out[c]) THEN SentFrame(c, shown) ELSE frames[h][s]
    BY <1>3, SendFacts
  <2>2. ASSUME NEW t \in Client \ {c}, SentFrame(c, shown).ents[t] # 0
        PROVE  /\ IsActive(t)
               /\ AddToFullPackPost(c, t, shown).stamp = SentFrame(c, shown).seq
               /\ AddToFullPackPost(c, t, shown).who = SentFrame(c, shown).ents[t]
    BY <2>2 DEF SentFrame, Actives, AddToFullPackPost, ProcessAnimParams
  <2>3. ASSUME NEW h \in Client, NEW s \in Slot, NEW t \in Client \ {h},
               frames'[h][s].ents[t] # 0
        PROVE  /\ hist'[h][s][t].stamp = frames'[h][s].seq
               /\ hist'[h][s][t].who = frames'[h][s].ents[t]
    <3>1. CASE h = c /\ s = SlotOf(out[c])
      <4>1. frames'[h][s] = SentFrame(c, shown) /\ t \in Client \ {c}
        BY <2>1, <3>1
      <4>2. IsActive(t)
        BY <2>2, <2>3, <4>1
      <4>3. hist'[h][s][t] = AddToFullPackPost(c, t, shown)
        BY <2>1, <3>1, <4>2 DEF Viewer
      <4>4. QED
        BY <2>2, <2>3, <4>1, <4>3
    <3>2. CASE ~(h = c /\ s = SlotOf(out[c]))
      BY <2>1, <2>3, <3>2 DEF Viewer
    <3>3. QED
      BY <3>1, <3>2
  <2>4. QED
    BY <2>3
<1>4. ASSUME NEW c \in Client, Connect(c) PROVE FrameCoherent'
  <2>1. hist' = hist /\ frames' = [frames EXCEPT ![c] = [s \in Slot |-> NoFrame]]
    BY <1>4 DEF Connect
  <2>2. \A h \in Client, s \in Slot : frames'[h][s] = IF h = c THEN NoFrame ELSE frames[h][s]
    BY <2>1 DEF TypeOK
  <2>3. \A t \in Client : NoFrame.ents[t] = 0
    BY DEF NoFrame
  <2>4. QED
    BY <2>1, <2>2, <2>3
<1>5. CASE UNCHANGED <<hist, frames>>
  BY <1>5
<1>6. \/ UNCHANGED <<hist, frames>>
      \/ StartFramePost
      \/ \E h \in Client : PutInServer(h) \/ SendDatagram(h) \/ Connect(h)
  BY DEF Next, Plugin, Engine, PlayerPreThinkPre, PlayerPostThinkPost, SetupBones,
         TransmitEmpty, Acknowledge, Leave, EndFrame, vars, engineVars
<1>7. QED
  BY <1>1, <1>2, <1>3, <1>4, <1>5, <1>6

\* Posing edits nothing but the mark.
LEMMA EditKeeps ==
  ASSUME TypeOK, NEW e \in Client, NEW t \in Client,
         params' = [params EXCEPT ![e].pose = "edited"]
  PROVE  /\ params'[t].view = params[t].view
         /\ params'[t].stamp = params[t].stamp
         /\ params'[t].who = params[t].who
         /\ Pristine(params'[t]) = Pristine(params[t])
<1>1. params[t] \in Record
  BY DEF TypeOK
<1>2. CASE t # e
  BY <1>2 DEF TypeOK
<1>3. CASE t = e
  <2>1. params'[t] = [params[t] EXCEPT !.pose = "edited"]
    BY <1>3 DEF TypeOK
  <2>2. QED
    BY <1>1, <2>1 DEF Record, Pristine
<1>4. QED
  BY <1>2, <1>3

\* A record without an edit is its own pristine form.
LEMMA PristineId ==
  ASSUME NEW r \in Record, r.pose = "recorded"
  PROVE  Pristine(r) = r
  BY DEF Pristine, Record

\* PlayerPreThinkPre copies the record of the acknowledged packet itself.
LEMMA ExactStep ==
  ASSUME TypeOK, PhaseOK, AckSent, FrameWindow, OwnView, FrameCoherent, BacktrackExact, [Next]_vars
  PROVE  BacktrackExact'
<1>1. CASE thinker' = Server
  BY <1>1 DEF BacktrackExact
<1>2. ASSUME NEW h \in Client, NEW lag \in BOOLEAN, PlayerPreThinkPre(h, lag)
      PROVE  BacktrackExact'
  <2> DEFINE cur == SlotOf(ack[h])
             seen == frames[h][cur].ents
  <2>1. /\ thinker' = h /\ ack' = ack /\ out' = out /\ frames' = frames /\ status' = status
        /\ nofind' = ~Compensated(h, lag)
        /\ params' = [t \in Client |->
                        IF Compensated(h, lag)
                             /\ t \in {u \in Actives \ {h} : frames[h][cur].ents[u] # 0}
                          THEN hist[h][cur][t] ELSE params[t]]
    BY <1>2 DEF PlayerPreThinkPre, engineVars, FrameIndex
  <2>2. SUFFICES ASSUME Compensated(h, lag), ack[h] >= out[h] - Backup,
                        NEW t \in Actives \ {h}, seen[t] # 0
                 PROVE  /\ params'[t].view = h
                        /\ params'[t].stamp = ack[h]
                        /\ params'[t].who = seen[t]
    BY <2>1 DEF BacktrackExact, Actives, IsActive
  <2>3. /\ cur \in Slot /\ h \in Viewer /\ t \in Client \ {h}
        /\ ack[h] \in Nat /\ out[h] \in Nat /\ frames[h][cur].seq \in Nat
    <3>1. cur \in Slot
      BY SlotInRing DEF TypeOK
    <3>2. QED
      BY <3>1 DEF TypeOK, Frame, Actives, Viewer
  <2>4. params'[t] = hist[h][cur][t]
    BY <2>1, <2>2, <2>3
  <2>5. hist[h][cur][t].stamp = frames[h][cur].seq /\ hist[h][cur][t].who = seen[t]
    BY <2>2, <2>3 DEF FrameCoherent
  <2>6. frames[h][cur].seq # 0
    <3>1. NoFrame.ents[t] = 0
      BY <2>3 DEF NoFrame
    <3>2. QED
      BY <2>2, <2>3, <3>1 DEF FrameWindow
  <2>7. frames[h][cur].seq = ack[h]
    <3> DEFINE q == frames[h][cur].seq
           a == ack[h]
    <3>1. /\ q \in Int /\ q < out[h] /\ q >= out[h] - Backup /\ SlotOf(q) = SlotOf(a)
          /\ a \in Int /\ a < out[h] /\ a >= out[h] - Backup /\ out[h] \in Int
      BY <2>2, <2>3, <2>6 DEF FrameWindow, AckSent
    <3> HIDE DEF q, a
    <3>2. /\ q < a + Backup /\ a < q + Backup /\ (q <= a \/ a <= q)
      BY <3>1
    <3>3. q = a
      BY <3>1, <3>2, SlotInjective
    <3>4. QED
      BY <3>3 DEF q, a
  <2>8. hist[h][cur][t].view = h
    BY <2>3, <2>5, <2>6 DEF OwnView
  <2>9. QED
    BY <2>4, <2>5, <2>7, <2>8
<1>3. ASSUME NEW e \in Client, NEW enabled \in BOOLEAN, SetupBones(e, enabled)
      PROVE  BacktrackExact'
  <2>1. UNCHANGED <<thinker, nofind, ack, out, frames, status>>
    BY <1>3 DEF SetupBones, engineVars
  <2>2. params' = params \/ params' = [params EXCEPT ![e].pose = "edited"]
    BY <1>3 DEF SetupBones
  <2>3. ASSUME NEW t \in Client
        PROVE  /\ params'[t].view = params[t].view
               /\ params'[t].stamp = params[t].stamp
               /\ params'[t].who = params[t].who
    BY <2>2, EditKeeps DEF TypeOK
  <2>4. QED
    BY <2>1, <2>3 DEF BacktrackExact, Actives, IsActive
<1>4. CASE /\ UNCHANGED <<thinker, nofind, ack, out, frames, params>>
           /\ \A c \in Client : status'[c] = "active" => status[c] = "active"
  BY <1>4 DEF BacktrackExact, Actives, IsActive
<1>5. \/ thinker' = Server
      \/ \E h \in Client, lag \in BOOLEAN : PlayerPreThinkPre(h, lag)
      \/ \E e \in Client, enabled \in BOOLEAN : SetupBones(e, enabled)
      \/ /\ UNCHANGED <<thinker, nofind, ack, out, frames, params>>
         /\ \A c \in Client : status'[c] = "active" => status[c] = "active"
  BY DEF Next, Plugin, Engine, PutInServer, StartFramePost, PlayerPostThinkPost, SendDatagram,
         Connect, TransmitEmpty, Acknowledge, Leave, EndFrame, vars, engineVars, PhaseOK, TypeOK
<1>6. QED
  BY <1>1, <1>2, <1>3, <1>4, <1>5

LEMMA RowStep ==
  ASSUME TypeOK, RowOwned, [Next]_vars
  PROVE  RowOwned'
<1> USE DEF RowOwned, IsActive
<1>1. CASE StartFramePost
  <2>1. status' = status /\ gen' = gen
    BY <1>1 DEF StartFramePost
  <2>2. ASSUME NEW h \in Client, NEW s \in Slot, NEW t \in Client
        PROVE  hist'[h][s][t] = hist[h][s][t]
    BY <1>1, StartWrites DEF Viewer
  <2>3. QED
    BY <2>1, <2>2
<1>2. ASSUME NEW c \in Client, PutInServer(c) PROVE RowOwned'
  <2>1. gen' = gen /\ \A h \in Client : h # c => status'[h] = status[h]
    BY <1>2 DEF PutInServer, TypeOK
  <2>2. \A h \in Client, s \in Slot, t \in Client :
          hist'[h][s][t] = IF h = c THEN Zero ELSE hist[h][s][t]
    BY <1>2, PutInFacts DEF Viewer
  <2>3. Zero.stamp = 0
    BY DEF Zero
  <2>4. QED
    BY <2>1, <2>2, <2>3
<1>3. ASSUME NEW c \in Client, SendDatagram(c) PROVE RowOwned'
  <2>1. gen' = gen /\ status' = status
    BY <1>3 DEF SendDatagram
  <2>2. PICK shown \in SUBSET (Actives \ {c}) :
          \A v \in Viewer, s \in Slot, t \in Client :
            hist'[v][s][t] = IF v = c /\ s = SlotOf(out[c]) /\ IsActive(t) /\ t # c
                               THEN AddToFullPackPost(c, t, shown) ELSE hist[v][s][t]
    BY <1>3, SendFacts
  <2>3. \A t \in Client : AddToFullPackPost(c, t, shown).owner = gen[c]
    BY DEF AddToFullPackPost, ProcessAnimParams
  <2>4. ASSUME NEW h \in Client, NEW s \in Slot, NEW t \in Client
        PROVE  \/ hist'[h][s][t] = hist[h][s][t]
               \/ hist'[h][s][t].owner = gen[h]
    BY <2>2, <2>3 DEF Viewer
  <2>5. QED
    BY <2>1, <2>4
<1>4. CASE /\ UNCHANGED hist
           /\ \A c \in Client : status'[c] = "active" => status[c] = "active" /\ gen'[c] = gen[c]
  BY <1>4
<1>5. \/ StartFramePost
      \/ \E c \in Client : PutInServer(c) \/ SendDatagram(c)
      \/ /\ UNCHANGED hist
         /\ \A c \in Client : status'[c] = "active" => status[c] = "active" /\ gen'[c] = gen[c]
  BY DEF Next, Plugin, Engine, PlayerPreThinkPre, PlayerPostThinkPost, SetupBones, Connect,
         TransmitEmpty, Acknowledge, Leave, EndFrame, vars, engineVars, TypeOK
<1>6. QED
  BY <1>1, <1>2, <1>3, <1>4, <1>5

\* What ViewOwner says of one player.
PosedFrom(t) ==
  LET cur == hist[Server][SlotOf(serverFrame)][t] IN
  IsActive(t) /\ cur.stamp = serverFrame /\ cur.who = gen[t] =>
    \/ Pristine(params[t]) = cur
    \/ /\ thinker # Server /\ ~nofind
       /\ Pristine(params[t]) = hist[thinker][SlotOf(ack[thinker])][t]

\* Only a command puts the records of a client into the working copy, and its end
\* puts those of the server back.
LEMMA OwnerStep ==
  ASSUME TypeOK, PhaseOK, OwnView, Sampled, ViewOwner, [Next]_vars
  PROVE  ViewOwner'
<1> USE DEF IsActive
<1>2. (nofind => thinker # Server) /\ \A t \in Client : PosedFrom(t)
  BY DEF ViewOwner, PosedFrom
<1>3. (nofind => thinker # Server)'
  BY <1>2 DEF Next, Plugin, Engine, PutInServer, StartFramePost, PlayerPreThinkPre,
              PlayerPostThinkPost, SendDatagram, SetupBones, Connect, TransmitEmpty,
              Acknowledge, Leave, EndFrame, vars, engineVars
<1>4. SUFFICES ASSUME NEW t \in Client PROVE PosedFrom(t)'
  BY <1>3 DEF ViewOwner, PosedFrom
<1>5. /\ Server \in Viewer /\ t \in Client /\ gen[t] \in Nat
      /\ \A n \in Nat : SlotOf(n) \in Slot
      /\ serverFrame \in Nat
  BY SlotInRing DEF TypeOK, Viewer
<1>6. ASSUME NEW h \in Client, PutInServer(h) PROVE PosedFrom(t)'
  <2>1. /\ UNCHANGED <<gen, ack, thinker, serverFrame, params, nofind>> /\ thinker = Server
        /\ status[h] = "signon" /\ (t # h => status'[t] = status[t])
    BY <1>6 DEF PutInServer, TypeOK
  <2>2. \A s \in Slot : hist'[Server][s][t] = hist[Server][s][t]
    BY <1>5, <1>6, PutInFacts
  <2>3. CASE t = h
    <3>1. /\ hist[Server][SlotOf(serverFrame)][t].who < gen[t]
          /\ hist[Server][SlotOf(serverFrame)][t].who \in Int
      BY <1>5, <2>1, <2>3 DEF Sampled, TypeOK, Record, Gen, Junk
    <3>2. QED
      BY <1>5, <2>1, <2>2, <3>1 DEF PosedFrom
  <2>4. CASE t # h
    BY <1>2, <1>5, <2>1, <2>2, <2>4 DEF PosedFrom
  <2>5. QED
    BY <2>3, <2>4
<1>7. CASE StartFramePost
  <2> DEFINE now == serverFrame + 1
             new == ProcessAnimParams(Server, now, gen[t], 0, PrevRecord(Server, now, t))
  <2>1. /\ serverFrame' = now /\ now \in Nat /\ UNCHANGED status
        /\ IsActive(t) => params'[t] = new
    BY <1>5, <1>7 DEF StartFramePost
  <2>2. IsActive(t) => hist'[Server][SlotOf(now)][t] = new
    BY <1>5, <1>7, <2>1, StartFacts
  <2>3. Pristine(new) = new
    BY DEF Pristine, ProcessAnimParams
  <2> HIDE DEF now, new
  <2>4. QED
    BY <2>1, <2>2, <2>3 DEF PosedFrom
<1>8. ASSUME NEW h \in Client, NEW lag \in BOOLEAN, PlayerPreThinkPre(h, lag) PROVE PosedFrom(t)'
  <2>1. /\ UNCHANGED <<status, gen, ack, serverFrame, hist>>
        /\ thinker = Server /\ thinker' = h /\ nofind' = ~Compensated(h, lag)
        /\ \/ params'[t] = params[t]
           \/ Compensated(h, lag) /\ params'[t] = hist[h][SlotOf(ack[h])][t]
    BY <1>8 DEF PlayerPreThinkPre, FrameIndex, engineVars
  <2>2. CASE params'[t] = params[t]
    BY <1>2, <2>1, <2>2 DEF PosedFrom
  <2>3. CASE Compensated(h, lag) /\ params'[t] = hist[h][SlotOf(ack[h])][t]
    <3>1. /\ hist[h][SlotOf(ack[h])][t] \in Record
          /\ hist[h][SlotOf(ack[h])][t].pose = "recorded"
      BY <1>5 DEF TypeOK, OwnView, Viewer
    <3>2. Pristine(params'[t]) = hist'[h][SlotOf(ack'[h])][t]
      BY <2>1, <2>3, <3>1, PristineId
    <3>3. h # Server
      OBVIOUS
    <3>4. QED
      BY <2>1, <2>3, <3>2, <3>3 DEF PosedFrom
  <2>4. QED
    BY <2>1, <2>2, <2>3
<1>9. ASSUME NEW h \in Client, PlayerPostThinkPost(h) PROVE PosedFrom(t)'
  <2> DEFINE cur == hist[Server][SlotOf(serverFrame)][t]
  <2>1. /\ UNCHANGED <<status, gen, serverFrame, hist>>
        /\ IsActive(t) => params'[t] = cur
    BY <1>9 DEF PlayerPostThinkPost, ServerView, engineVars
  <2>2. Pristine(cur) = cur
    <3>1. SlotOf(serverFrame) \in Slot
      BY <1>5
    <3>2. cur \in Record
      BY <1>5, <3>1 DEF TypeOK
    <3>3. cur.pose = "recorded"
      BY <1>5, <3>1 DEF OwnView
    <3>4. QED
      BY <3>2, <3>3, PristineId
  <2> HIDE DEF cur
  <2>3. ASSUME IsActive(t) PROVE Pristine(params'[t]) = cur
    <3>1. params'[t] = cur
      BY <2>1, <2>3
    <3>2. QED
      BY <2>2, <3>1
  <2>4. QED
    BY <2>1, <2>3 DEF PosedFrom, cur
<1>10. ASSUME NEW h \in Client, SendDatagram(h) PROVE PosedFrom(t)'
  <2>1. UNCHANGED <<status, gen, ack, thinker, serverFrame, params, nofind>> /\ thinker = Server
    BY <1>10 DEF SendDatagram, PhaseOK
  <2>2. \A s \in Slot : hist'[Server][s][t] = hist[Server][s][t]
    BY <1>5, <1>10, SendFacts
  <2>3. QED
    BY <1>2, <1>5, <2>1, <2>2 DEF PosedFrom
<1>11. ASSUME NEW e \in Client, NEW enabled \in BOOLEAN, SetupBones(e, enabled) PROVE PosedFrom(t)'
  <2>1. UNCHANGED <<status, gen, ack, thinker, serverFrame, hist, nofind>>
    BY <1>11 DEF SetupBones, engineVars
  <2>2. params' = params \/ params' = [params EXCEPT ![e].pose = "edited"]
    BY <1>11 DEF SetupBones
  <2>3. Pristine(params'[t]) = Pristine(params[t])
    BY <2>2, EditKeeps
  <2>4. QED
    BY <1>2, <2>1, <2>3 DEF PosedFrom
<1>12. ASSUME NEW c \in Client, Connect(c) PROVE PosedFrom(t)'
  <2>1. /\ UNCHANGED <<thinker, serverFrame, hist, params, nofind>> /\ thinker = Server
        /\ t = c => status'[t] # "active"
        /\ t # c => status'[t] = status[t] /\ gen'[t] = gen[t]
    BY <1>12 DEF Connect, TypeOK
  <2>2. QED
    BY <1>2, <2>1 DEF PosedFrom
<1>13. ASSUME NEW c \in Client, Acknowledge(c) PROVE PosedFrom(t)'
  <2>1. /\ UNCHANGED <<status, gen, thinker, serverFrame, hist, params, nofind>>
        /\ thinker = Server
    BY <1>13 DEF Acknowledge
  <2>2. QED
    BY <1>2, <2>1 DEF PosedFrom
<1>14. CASE /\ UNCHANGED <<gen, ack, thinker, serverFrame, hist, params, nofind>>
            /\ \A c \in Client : status'[c] = "active" => status[c] = "active"
  BY <1>2, <1>14 DEF PosedFrom
<1>15. \/ StartFramePost
       \/ \E h \in Client : \/ PutInServer(h) \/ PlayerPostThinkPost(h) \/ SendDatagram(h)
                            \/ Connect(h) \/ Acknowledge(h)
       \/ \E h \in Client, lag \in BOOLEAN : PlayerPreThinkPre(h, lag) \/ SetupBones(h, lag)
       \/ /\ UNCHANGED <<gen, ack, thinker, serverFrame, hist, params, nofind>>
          /\ \A c \in Client : status'[c] = "active" => status[c] = "active"
  BY DEF Next, Plugin, Engine, TransmitEmpty, Leave, EndFrame, vars, engineVars, TypeOK
<1>16. QED
  BY <1>6, <1>7, <1>8, <1>9, <1>10, <1>11, <1>12, <1>13, <1>14, <1>15

-----------------------------------------------------------------------------
(* The theorems.                                                           *)

LEMMA IInvInit == Init => IInv
<1> SUFFICES ASSUME Init PROVE IInv
  OBVIOUS
<1>1. TypeOK
  BY TypeInit
<1>2. PhaseOK /\ AckSent
  BY DEF Init, PhaseOK, AckSent
<1>3. \A h \in Client, s \in Slot : frames[h][s] = NoFrame
  BY DEF Init
<1>4. FrameWindow /\ NoFramesYet /\ FrameCoherent
  BY <1>3 DEF FrameWindow, NoFramesYet, FrameCoherent, NoFrame
<1>5. \A v \in Viewer, s \in Slot, t \in Client : hist[v][s][t] = Zero
  BY DEF Init, NoHistory
<1>6. OwnView
  BY <1>5 DEF OwnView, Zero
<1>7. \A c \in Client : status[c] = "free" /\ gen[c] = 0
  BY DEF Init
<1>8. Sampled
  BY <1>5, <1>7 DEF Sampled, Zero, Viewer
<1>9. BacktrackExact /\ ViewOwner /\ RowOwned
  BY <1>7 DEF Init, BacktrackExact, ViewOwner, RowOwned, IsActive
<1>10. QED
  BY <1>1, <1>2, <1>4, <1>6, <1>8, <1>9 DEF IInv

LEMMA IInvStep == IInv /\ [Next]_vars => IInv'
  BY TypeStep, NetchanStep, FrameStep, OwnViewStep, SampledStep, CoherentStep, ExactStep,
     OwnerStep, RowStep DEF IInv

\* The inductive invariant holds.
THEOREM Inductive == Spec => []IInv
<1>1. Init => IInv
  BY IInvInit
<1>2. IInv /\ [Next]_vars => IInv'
  BY IInvStep
<1>3. QED
  BY <1>1, <1>2, PTL DEF Spec

\* The frame the engine reads back for an acknowledged packet and the records the plugin
\* filed under the same index are always of one packet, for every ring size.
THEOREM FramesCoherent == Spec => []FrameCoherent
<1>1. IInv => FrameCoherent
  BY DEF IInv
<1>2. QED
  BY <1>1, Inductive, PTL

\* PlayerPreThinkPre shows a compensated command exactly the records of the packet that
\* the client acknowledged, as long as that packet is at most a ring old.
THEOREM BacktrackIsExact == Spec => []BacktrackExact
<1>1. IInv => BacktrackExact
  BY DEF IInv
<1>2. QED
  BY <1>1, Inductive, PTL

\* Neither a client's view nor nofind outlives the command that set it.
THEOREM ViewsAreOwned == Spec => []ViewOwner
<1>1. IInv => ViewOwner
  BY DEF IInv
<1>2. QED
  BY <1>1, Inductive, PTL

\* Nothing of an earlier occupant of a client's slot is left in its row.
THEOREM RowsAreOwned == Spec => []RowOwned
<1>1. IInv => RowOwned
  BY DEF IInv
<1>2. QED
  BY <1>1, Inductive, PTL

-----------------------------------------------------------------------------
(* Which record a new one continues, and which one it takes the place of:  *)
(* LaneBase and RecordsKept, for every ring size of at least 2.            *)

\* A record lies in the slot of its number, which is one that was used already.  Nothing
\* is said of the row of a client outside the game: its numbers may have started anew.
Filed ==
  \A v \in Viewer, s \in Slot, t \in Client :
    LET q == hist[v][s][t].stamp IN
    q # 0 => /\ v = Server => q <= serverFrame /\ SlotOf(q) = s
             /\ v # Server /\ IsActive(v) => q < out[v] /\ SlotOf(q) = s

-----------------------------------------------------------------------------
(* The ring, seen from the number n that is used next.                     *)

\* What lies in n's own slot is a whole ring old.
LEMMA TakenOver ==
  ASSUME NEW n \in Nat, NEW q \in Nat, q < n, SlotOf(q) = SlotOf(n)
  PROVE  n >= q + Backup
<1>1. CASE n < q + Backup
  <2>1. q = n
    BY <1>1, SlotInjective
  <2> QED
    BY <2>1
<1> QED
  BY <1>1

\* What lies in the slot before it is of the number before, or more than a ring old.
LEMMA Continued ==
  ASSUME NEW n \in Nat \ {0}, NEW q \in Nat, q < n, SlotOf(q) = SlotOf(n - 1)
  PROVE  q = n - 1 \/ q < n - Backup
<1>1. CASE n - 1 < q + Backup
  <2>1. n - 1 \in Int /\ q <= n - 1
    OBVIOUS
  <2> QED
    BY <1>1, <2>1, SlotInjective
<1> QED
  BY <1>1

-----------------------------------------------------------------------------
(* The steps.                                                              *)

\* A record is left as it is, or goes with the row of a client entering the game, or is
\* written under the next number n of its row.
LEMMA StepWrites ==
  ASSUME TypeOK, Filed, [Next]_vars, NEW v \in Viewer, NEW s \in Slot, NEW t \in Client
  PROVE  \/ hist'[v][s][t] = hist[v][s][t]
         \/ /\ v # Server /\ ~IsActive(v) /\ IsActive(v)' /\ hist'[v] = NoHistory
            /\ hist'[v][s][t] = Zero
         \/ \E n \in Nat \ {0} :
              /\ s = SlotOf(n) /\ hist'[v][s][t].stamp = n
              /\ hist'[v][s][t].base = hist[v][SlotOf(n - 1)][t].stamp
              /\ v = Server => serverFrame' = n
              /\ v # Server => out'[v] = n + 1
              /\ \A u \in Slot : LET q == hist[v][u][t].stamp IN
                                 q # 0 => q < n /\ SlotOf(q) = u
<1>0. \A w \in Viewer, u \in Slot : hist[w][u][t].stamp \in Nat
  BY DEF TypeOK, Record
<1>1. CASE UNCHANGED hist
  BY <1>1
<1>2. CASE StartFramePost
  <2> DEFINE n == serverFrame + 1
             new == ProcessAnimParams(Server, n, gen[t], 0, PrevRecord(Server, n, t))
  <2>1. n \in Nat \ {0} /\ serverFrame \in Nat /\ serverFrame' = n
    BY <1>2 DEF TypeOK, StartFramePost
  <2>2. hist'[v][s][t] = IF v = Server /\ s = SlotOf(n) /\ IsActive(t) THEN new ELSE hist[v][s][t]
    BY <1>2, StartFacts
  <2>3. new.stamp = n /\ new.base = hist[Server][SlotOf(n - 1)][t].stamp
    BY DEF ProcessAnimParams, PrevRecord
  <2>4. ASSUME v = Server, NEW u \in Slot, hist[v][u][t].stamp # 0
        PROVE  hist[v][u][t].stamp < n /\ SlotOf(hist[v][u][t].stamp) = u
    <3>1. hist[v][u][t].stamp <= serverFrame /\ SlotOf(hist[v][u][t].stamp) = u
      BY <2>4 DEF Filed
    <3> QED
      BY <1>0, <2>1, <3>1
  <2> HIDE DEF n, new
  <2>5. CASE v = Server /\ s = SlotOf(n) /\ IsActive(t)
    BY <2>1, <2>2, <2>3, <2>4, <2>5
  <2> QED
    BY <2>2, <2>5
<1>3. ASSUME NEW h \in Client, PutInServer(h)
      PROVE  \/ hist'[v][s][t] = hist[v][s][t]
             \/ /\ v # Server /\ ~IsActive(v) /\ IsActive(v)' /\ hist'[v] = NoHistory
                /\ hist'[v][s][t] = Zero
  <2>1. hist'[v][s][t] = IF v = h THEN Zero ELSE hist[v][s][t]
    BY <1>3, PutInFacts
  <2>2. CASE v = h
    <3>1. hist' = [hist EXCEPT ![h] = NoHistory] /\ status[h] = "signon"
          /\ status' = [status EXCEPT ![h] = "active"]
      BY <1>3 DEF PutInServer, Forget
    <3>2. hist'[v] = NoHistory /\ status'[v] = "active" /\ status[v] # "active" /\ v # Server
      BY <2>2, <3>1 DEF TypeOK
    <3> QED
      BY <2>1, <2>2, <3>2 DEF IsActive
  <2> QED
    BY <2>1, <2>2
<1>4. ASSUME NEW h \in Client, SendDatagram(h)
      PROVE  \/ hist'[v][s][t] = hist[v][s][t]
             \/ \E n \in Nat \ {0} :
                  /\ s = SlotOf(n) /\ hist'[v][s][t].stamp = n
                  /\ hist'[v][s][t].base = hist[v][SlotOf(n - 1)][t].stamp
                  /\ v = Server => serverFrame' = n
                  /\ v # Server => out'[v] = n + 1
                  /\ \A u \in Slot : LET q == hist[v][u][t].stamp IN
                                     q # 0 => q < n /\ SlotOf(q) = u
  <2>0. PICK shown \in SUBSET (Actives \ {h}) :
          \A w \in Viewer, u \in Slot, p \in Client :
            hist'[w][u][p] = IF w = h /\ u = SlotOf(out[h]) /\ IsActive(p) /\ p # h
                               THEN AddToFullPackPost(h, p, shown) ELSE hist[w][u][p]
    BY <1>4, SendFacts
  <2>1. hist'[v][s][t] = IF v = h /\ s = SlotOf(out[h]) /\ IsActive(t) /\ t # h
                           THEN AddToFullPackPost(h, t, shown) ELSE hist[v][s][t]
    BY <2>0
  <2> DEFINE n == out[h]
  <2>2. n \in Nat \ {0} /\ out'[h] = n + 1 /\ IsActive(h) /\ h # Server
    BY <1>4 DEF TypeOK, SendDatagram
  <2>3. /\ AddToFullPackPost(h, t, shown).stamp = n
        /\ AddToFullPackPost(h, t, shown).base = hist[h][SlotOf(n - 1)][t].stamp
    BY DEF AddToFullPackPost, ProcessAnimParams, PrevRecord
  <2>4. ASSUME v = h, NEW u \in Slot, hist[v][u][t].stamp # 0
        PROVE  hist[v][u][t].stamp < n /\ SlotOf(hist[v][u][t].stamp) = u
    BY <2>2, <2>4 DEF Filed
  <2> HIDE DEF n
  <2>5. CASE v = h /\ s = SlotOf(n) /\ IsActive(t) /\ t # h
    <3>1. hist'[v][s][t] = AddToFullPackPost(h, t, shown)
      BY <2>1, <2>5 DEF n
    <3> QED
      BY <2>2, <2>3, <2>4, <2>5, <3>1
  <2> QED
    BY <2>1, <2>5 DEF n
<1> QED
  BY <1>1, <1>2, <1>3, <1>4, HistWriters

\* What is in the ring of a row when n is the number used next.
LEMMA Relations ==
  ASSUME TypeOK, NEW v \in Viewer, NEW t \in Client, NEW n \in Nat \ {0},
         \A u \in Slot : LET q == hist[v][u][t].stamp IN q # 0 => q < n /\ SlotOf(q) = u
  PROVE  LET q == hist[v][SlotOf(n)][t].stamp
             b == hist[v][SlotOf(n - 1)][t].stamp
         IN /\ q # 0 => n >= q + Backup
            /\ b \in {0, n - 1} \/ b < n - Backup
<1> DEFINE q == hist[v][SlotOf(n)][t].stamp
           b == hist[v][SlotOf(n - 1)][t].stamp
<1>1. SlotOf(n) \in Slot /\ SlotOf(n - 1) \in Slot
  BY SlotInRing
<1>2. q \in Nat /\ b \in Nat
  BY <1>1 DEF TypeOK, Record
<1>3. (q # 0 => q < n /\ SlotOf(q) = SlotOf(n)) /\ (b # 0 => b < n /\ SlotOf(b) = SlotOf(n - 1))
  BY <1>1
<1> HIDE DEF q, b
<1>4. q # 0 => n >= q + Backup
  BY <1>2, <1>3, TakenOver
<1>5. b \in {0, n - 1} \/ b < n - Backup
  BY <1>2, <1>3, Continued
<1> QED
  BY <1>4, <1>5 DEF q, b

LEMMA FiledStep == TypeOK /\ Filed /\ [Next]_vars => Filed'
<1> SUFFICES ASSUME TypeOK, Filed, [Next]_vars, NEW v \in Viewer, NEW s \in Slot, NEW t \in Client,
                    hist'[v][s][t].stamp # 0
             PROVE  LET q == hist'[v][s][t].stamp IN
                    /\ v = Server => q <= serverFrame' /\ SlotOf(q) = s
                    /\ v # Server /\ IsActive(v)' => q < out'[v] /\ SlotOf(q) = s
  BY DEF Filed
<1> DEFINE q == hist'[v][s][t].stamp
<1>1. serverFrame \in Nat /\ (v # Server => out[v] \in Nat) /\ hist[v][s][t].stamp \in Nat
  BY DEF TypeOK, Viewer, Record
<1>2. /\ serverFrame' \in {serverFrame, serverFrame + 1}
      /\ v # Server /\ IsActive(v) => out'[v] \in {out[v], out[v] + 1}
      /\ v # Server /\ IsActive(v)' => IsActive(v) \/ hist'[v] = NoHistory
  <2>1. serverFrame' \in {serverFrame, serverFrame + 1}
    BY DEF Next, Plugin, Engine, PutInServer, StartFramePost, PlayerPreThinkPre,
           PlayerPostThinkPost, SendDatagram, SetupBones, Connect, TransmitEmpty, Acknowledge,
           Leave, EndFrame, vars, engineVars
  <2>2. ASSUME v # Server, IsActive(v) PROVE out'[v] \in {out[v], out[v] + 1}
    <3>1. v \in Client /\ status[v] # "free"
      BY <2>2 DEF Viewer, IsActive
    <3>2. \/ out' = out
          \/ \E c \in Client : out' = [out EXCEPT ![c] = @ + 1]
          \/ \E c \in Client : status[c] = "free" /\ out' = [out EXCEPT ![c] = 1]
      BY DEF Next, Plugin, Engine, PutInServer, StartFramePost, PlayerPreThinkPre,
             PlayerPostThinkPost, SendDatagram, SetupBones, Connect, TransmitEmpty, Acknowledge,
             Leave, EndFrame, vars, engineVars
    <3> QED
      BY <3>1, <3>2 DEF TypeOK
  <2>3. ASSUME v # Server, IsActive(v)', ~IsActive(v) PROVE hist'[v] = NoHistory
    <3>1. v \in Client /\ status[v] # "active" /\ status'[v] = "active"
      BY <2>3 DEF Viewer, IsActive
    <3>2. \/ status' = status
          \/ \E c \in Client : PutInServer(c)
          \/ \E c \in Client, x \in Status \ {"active"} : status' = [status EXCEPT ![c] = x]
      BY DEF Next, Plugin, Engine, StartFramePost, PlayerPreThinkPre,
             PlayerPostThinkPost, SendDatagram, SetupBones, Connect, TransmitEmpty, Acknowledge,
             Leave, EndFrame, vars, engineVars, Status
    <3>3. PutInServer(v)
      BY <3>1, <3>2 DEF TypeOK, PutInServer
    <3> QED
      BY <3>3 DEF PutInServer, Forget, TypeOK
  <2> QED
    BY <2>1, <2>2, <2>3
<1>3. CASE hist'[v][s][t] = hist[v][s][t]
  <2>1. q = hist[v][s][t].stamp
    BY <1>3
  <2>2. ASSUME hist'[v] = NoHistory PROVE FALSE
    BY <2>2 DEF NoHistory, Zero
  <2>3. /\ v = Server => q <= serverFrame /\ SlotOf(q) = s
        /\ v # Server /\ IsActive(v) => q < out[v] /\ SlotOf(q) = s
    BY <1>3 DEF Filed
  <2> HIDE DEF q
  <2> QED
    BY <1>1, <1>2, <2>1, <2>2, <2>3 DEF q
<1>4. CASE hist'[v][s][t] = Zero
  BY <1>4 DEF Zero
<1>5. ASSUME NEW n \in Nat \ {0}, s = SlotOf(n), q = n, v = Server => serverFrame' = n,
             v # Server => out'[v] = n + 1
      PROVE  /\ v = Server => q <= serverFrame' /\ SlotOf(q) = s
             /\ v # Server /\ IsActive(v)' => q < out'[v] /\ SlotOf(q) = s
  <2> HIDE DEF q
  <2> QED
    BY <1>5
<1> QED
  BY <1>3, <1>4, <1>5, StepWrites

LEMMA LaneStep == TypeOK /\ Filed /\ LaneBase /\ [Next]_vars => LaneBase'
<1> SUFFICES ASSUME TypeOK, Filed, LaneBase, [Next]_vars,
                    NEW v \in Viewer, NEW s \in Slot, NEW t \in Client,
                    hist'[v][s][t].stamp # 0
             PROVE  LET r == hist'[v][s][t] IN
                    r.base \in {0, r.stamp - 1} \/ r.base < r.stamp - Backup
  BY DEF LaneBase
<1>1. CASE hist'[v][s][t] = hist[v][s][t]
  BY <1>1 DEF LaneBase
<1>2. CASE hist'[v][s][t] = Zero
  BY <1>2 DEF Zero
<1>3. ASSUME NEW n \in Nat \ {0}, hist'[v][s][t].stamp = n,
             hist'[v][s][t].base = hist[v][SlotOf(n - 1)][t].stamp,
             \A u \in Slot : LET q == hist[v][u][t].stamp IN q # 0 => q < n /\ SlotOf(q) = u
      PROVE  LET r == hist'[v][s][t] IN
             r.base \in {0, r.stamp - 1} \/ r.base < r.stamp - Backup
  BY <1>3, Relations
<1> QED
  BY <1>1, <1>2, <1>3, StepWrites

LEMMA LanesInductive == Spec => [](TypeOK /\ Filed /\ LaneBase)
<1>1. Init => TypeOK /\ Filed /\ LaneBase
  <2> SUFFICES ASSUME Init PROVE TypeOK /\ Filed /\ LaneBase
    OBVIOUS
  <2>1. \A v \in Viewer, s \in Slot, t \in Client : hist[v][s][t].stamp = 0
    BY DEF Init, NoHistory, Zero
  <2> QED
    BY <2>1, TypeInit DEF Filed, LaneBase
<1>2. TypeOK /\ Filed /\ LaneBase /\ [Next]_vars => (TypeOK /\ Filed /\ LaneBase)'
  BY TypeStep, FiledStep, LaneStep
<1> QED
  BY <1>1, <1>2, PTL DEF Spec

-----------------------------------------------------------------------------
(* The theorems.                                                           *)

\* prev_params of ProcessAnimParams is the record of the packet, or server frame, right
\* before, or empty, or a left-over older than a whole ring: for every ring size.
THEOREM LanesHold == Spec => []LaneBase
  BY LanesInductive, PTL

\* A handler takes a record's place only when its ring has come round, unless a client
\* enters the game and loses its row: for every ring size, whoever comes and goes.
THEOREM RecordsAreKept == Spec => RecordsKept
<1> DEFINE Kept == \A v \in Viewer, s \in Slot, t \in Client :
                     \/ hist'[v][s][t] = hist[v][s][t]
                     \/ hist[v][s][t].stamp = 0
                     \/ hist'[v][s][t].stamp >= hist[v][s][t].stamp + Backup
                     \/ v # Server /\ ~IsActive(v) /\ IsActive(v)' /\ hist'[v] = NoHistory
<1>1. TypeOK /\ Filed /\ [Next]_vars => [Kept]_vars
  <2> SUFFICES ASSUME TypeOK, Filed, [Next]_vars,
                      NEW v \in Viewer, NEW s \in Slot, NEW t \in Client,
                      hist[v][s][t].stamp # 0
               PROVE  \/ hist'[v][s][t] = hist[v][s][t]
                      \/ hist'[v][s][t].stamp >= hist[v][s][t].stamp + Backup
                      \/ v # Server /\ ~IsActive(v) /\ IsActive(v)' /\ hist'[v] = NoHistory
    OBVIOUS
  <2>1. ASSUME NEW n \in Nat \ {0}, s = SlotOf(n), hist'[v][s][t].stamp = n,
               \A u \in Slot : LET q == hist[v][u][t].stamp IN q # 0 => q < n /\ SlotOf(q) = u
        PROVE  hist'[v][s][t].stamp >= hist[v][s][t].stamp + Backup
    BY <2>1, Relations
  <2> QED
    BY <2>1, StepWrites
<1> QED
  BY <1>1, LanesInductive, PTL DEF Spec, RecordsKept
=============================================================================
