---------------------------- MODULE GaitYaw_proofs ----------------------------
(***************************************************************************)
(* Proofs about GaitYaw, for all views, headings, times and sequences: the *)
(* arithmetic of C first, then the invariants, then that legs follow.      *)
(***************************************************************************)
EXTENDS GaitYaw, TLAPS

-----------------------------------------------------------------------------
(* Arithmetic of C.                                                        *)

\* A quotient of numbers that are not negative lies below its bound.
LEMMA DivBound ==
  ASSUME NEW a \in Nat, NEW b \in Nat \ {0}, NEW c \in Nat, a <= c * b
  PROVE  a \div b \in 0..c
<1>1. PICK q \in Int, r \in Int : q = a \div b /\ a = q * b + r /\ 0 <= r /\ r < b
  OBVIOUS
<1>2. q >= 0
  BY <1>1
<1>3. q <= c
  BY <1>1
<1> QED
  BY <1>1, <1>2, <1>3

\* The remainder has the sign of the dividend and is smaller than the divisor.
LEMMA ModRange ==
  ASSUME NEW a \in Int, NEW b \in Nat \ {0}
  PROVE  /\ Mod(a, b) \in Int /\ -b < Mod(a, b) /\ Mod(a, b) < b
         /\ a >= 0 => Mod(a, b) >= 0
         /\ a <= 0 => Mod(a, b) <= 0
  BY DEF Mod, Trunc

\* Two directions that are the same.
Same360(a, b) == \E k \in Int : a = b + 360 * k

\* Full turns make no difference.
LEMMA ModTurn ==
  ASSUME NEW a \in Int
  PROVE  Mod(a, 360) \in -359..359 /\ Same360(Mod(a, 360), a)
<1>1. Mod(a, 360) \in -359..359
  BY DEF Mod, Trunc
<1>2. Trunc(a, 360) \in Int /\ Mod(a, 360) = a + 360 * (-Trunc(a, 360))
  BY DEF Mod, Trunc
<1> QED
  BY <1>1, <1>2 DEF Same360

LEMMA HalfTurnRange ==
  ASSUME NEW a \in Int
  PROVE  HalfTurn(a) \in -180..180 /\ Same360(HalfTurn(a), a)
<1> DEFINE b == Mod(a, 360)
<1>1. b \in -359..359
  BY ModTurn
<1>2. PICK k \in Int : b = a + 360 * k
  BY ModTurn DEF Same360
<1>3. HalfTurn(a) = IF b > 180 THEN b - 360 ELSE IF b < -180 THEN b + 360 ELSE b
  BY DEF HalfTurn
<1> HIDE DEF b
<1>4. HalfTurn(a) \in -180..180
  BY <1>1, <1>3
<1>5. \E m \in {k - 1, k, k + 1} : HalfTurn(a) = a + 360 * m
  BY <1>1, <1>2, <1>3
<1> QED
  BY <1>4, <1>5 DEF Same360

\* The half turn is the only direction of its kind, but for the two that point backwards.
LEMMA HalfTurnUnique ==
  ASSUME NEW a \in Int, NEW x \in -179..179, Same360(a, x)
  PROVE  HalfTurn(a) = x
<1>1. PICK m \in Int : a = x + 360 * m
  BY DEF Same360
<1> DEFINE h == HalfTurn(a)
<1>2. h \in -180..180 /\ Same360(h, a)
  BY HalfTurnRange
<1> HIDE DEF h
<1>3. PICK k \in Int : h = a + 360 * k
  BY <1>2 DEF Same360
<1>4. x \in Int /\ h \in Int /\ h - x = 360 * (m + k)
  BY <1>1, <1>2, <1>3
<1>5. m + k = 0
  BY <1>2, <1>4
<1>6. h = x
  BY <1>4, <1>5
<1> QED
  BY <1>6 DEF h

-----------------------------------------------------------------------------
(* The inductive invariant: the properties, and that the twist is the way  *)
(* from the legs to the view.                                              *)

Turned == twist = HalfTurn(view - gaityaw)

\* The bytes, as a record.
Blends == blend \in [yaw : 0..255, pitch : 0..255]

IInv == TypeOK /\ Blends /\ BytesFit /\ TorsoOnView /\ TwistBound /\ Turned

LEMMA InitInv == Init => IInv
<1> SUFFICES ASSUME Init PROVE IInv
  OBVIOUS
<1>1. TypeOK
  <2>1. NumFrames \in Nat \ {0}
    BY GaitAssumption
  <2>2. gaitframe \in 0..(NumFrames - 1) \cup {Garbled}
    BY <2>1 DEF Init
  <2>3. game \in {"CS", "HL"} /\ jumped \in BOOLEAN /\ moving \in BOOLEAN
    BY DEF Init
  <2> QED
    BY <2>2, <2>3 DEF Init, TypeOK
<1>3. Blends /\ BytesFit /\ TorsoOnView /\ TwistBound
  BY DEF Init, Blends, BytesFit, TorsoOnView, TwistBound, Abs
<1>2. Turned
  BY DEF Init, Turned, HalfTurn, Mod, Trunc
<1> QED
  BY <1>1, <1>2, <1>3 DEF IInv

\* The torso is twisted against legs that point to yaw.
LEMMA TwistKeeps ==
  ASSUME game \in {"CS", "HL"},
         NEW v \in View, NEW moves \in BOOLEAN, NEW yaw \in Int,
         yaw \in -360..360 \/ (yaw \in -540..540 /\ game = "CS" /\ ~moves),
         Twist(v, yaw, moves)
  PROVE  /\ view' = v.yaw /\ view' \in -180..180
         /\ gaityaw' \in -540..540 /\ finalyaw' \in -180..540
         /\ twist' \in -180..180
         /\ moving' = moves
         /\ TorsoOnView'
         /\ moves \/ game = "HL" => Abs(twist') <= 120
         /\ Turned'
<1> DEFINE off  == Off(v, yaw)
           back == Back(off, moves)
<1>1. v.yaw \in -180..180
  BY GaitAssumption
<1> DEFINE d == v.yaw - yaw
<1>0. d \in Int /\ off = HalfTurn(d)
  BY <1>1 DEF Off
<1>2. off \in -180..180
  BY <1>0, HalfTurnRange
<1>10. PICK k \in Int : off = d + 360 * k
  BY <1>0, HalfTurnRange DEF Same360
<1>3. /\ view' = v.yaw /\ gaityaw' = yaw - back /\ twist' = off - back /\ moving' = moves
      /\ finalyaw' = IF gaityaw' < 0 THEN gaityaw' + 360 ELSE gaityaw'
  BY DEF Twist, TwistAfter
<1>4. \/ back = 0 /\ (moves \/ game = "HL" => off \in -120..120)
      \/ back = 180 /\ off \in 121..180 /\ (moves \/ game = "HL")
      \/ back = -180 /\ off \in -180..(-121) /\ (moves \/ game = "HL")
  BY <1>2 DEF Back, Reverse
<1> HIDE DEF off, back
<1>5. /\ yaw \in -540..540 /\ back \in {-180, 0, 180}
      /\ back # 0 => yaw \in -360..360
  BY <1>4
<1>6. gaityaw' \in -540..540 /\ finalyaw' \in -180..540 /\ twist' \in -180..180
  <2>1. twist' \in -180..180
    BY <1>2, <1>3, <1>4
  <2>2. gaityaw' \in -540..540
    BY <1>3, <1>5
  <2> QED
    BY <1>3, <2>1, <2>2
<1>8. moves \/ game = "HL" => twist' \in -120..120
  BY <1>2, <1>3, <1>4
<1>9. TorsoOnView'
  <2>1. /\ finalyaw' = yaw - back \/ finalyaw' = yaw - back + 360
        /\ twist' = d + 360 * k - back
        /\ view' = d + yaw
    BY <1>1, <1>3, <1>5, <1>10
  <2>2. PICK turns \in {0, 1} :
          finalyaw' + twist' - view' = 360 * (k + turns) - 2 * back
    BY <1>5, <1>0, <2>1
  <2>3. \A m \in Int : (360 * m) % 360 = 0
    OBVIOUS
  <2>4. \E m \in {k + turns - 1, k + turns, k + turns + 1} :
          finalyaw' + twist' - view' = 360 * m
    BY <1>5, <2>2
  <2> QED
    BY <2>3, <2>4 DEF TorsoOnView
<1>7. Turned'
  <2>1. view' - gaityaw' = d + back
    BY <1>1, <1>3, <1>5
  <2>2. HalfTurn(d + back) = twist'
    <3>1. CASE back = 0
      BY <1>0, <1>2, <1>3, <3>1
    <3>2. CASE back # 0
      <4>1. twist' \in -179..179
        BY <1>2, <1>3, <1>4, <3>2
      <4>2. d + back \in Int
        BY <1>0, <1>5
      <4>3. \E m \in {1 - k, -1 - k} : d + back = twist' + 360 * m
        BY <1>0, <1>3, <1>5, <1>10, <3>2
      <4>4. Same360(d + back, twist')
        BY <4>3 DEF Same360
      <4> QED
        BY <4>1, <4>2, <4>4, HalfTurnUnique
    <3> QED
      BY <3>1, <3>2
  <2>3. HalfTurn(view' - gaityaw') = twist'
    BY <2>1, <2>2
  <2> QED
    BY <2>3 DEF Turned, HalfTurn, Mod, Trunc
<1> QED
  BY <1>1, <1>3, <1>6, <1>7, <1>8, <1>9 DEF Abs

-----------------------------------------------------------------------------
(* What goes into bytes, and the gait frame.                               *)

LEMMA YawFits ==
  ASSUME NEW off \in Int
  PROVE  YawBlend(off) \in 0..255 /\ Walk(YawBlend(off)) \in 0..255
<1> DEFINE n == 255 * 90 - Clamp(off * 128 + 127 * 90, 0, 255 * 90)
<1>1. n \in Nat /\ n <= 255 * 90 /\ YawBlend(off) = n \div 90
  BY DEF Clamp, YawBlend
<1> HIDE DEF n
<1>2. n \div 90 \in 0..255
  BY <1>1, DivBound
<1> QED
  BY <1>1, <1>2 DEF Walk

LEMMA ControllerFits ==
  ASSUME NEW off \in -120..120
  PROVE  Controller(off) \in 0..255
  BY DEF Controller, Trunc

LEMMA PitchFits ==
  ASSUME NEW pitch \in Int
  PROVE  PlayerBlend(pitch) \in 0..255 /\ HL_PlayerBlend(pitch) \in 0..255
<1>1. PlayerBlend(pitch) \in 0..255
  BY DEF PlayerBlend
<1> DEFINE b     == 3 * pitch
           range == BlendEnd - BlendStart
<1>2. BlendStart \in Int /\ BlendEnd \in Int
  BY GaitAssumption
<1>3. CASE BlendStart <= b /\ b <= BlendEnd /\ range >= 1
  <2> DEFINE n == 255 * (b - BlendStart)
  <2>1. range \in Nat \ {0} /\ n \in Nat /\ n <= 255 * range
    BY <1>2, <1>3
  <2>2. HL_PlayerBlend(pitch) = n \div range
    BY <1>2, <1>3 DEF HL_PlayerBlend, Trunc
  <2> HIDE DEF n, range
  <2>3. n \div range \in 0..255
    BY <2>1, DivBound
  <2> QED
    BY <1>1, <2>2, <2>3
<1>4. CASE ~(BlendStart <= b /\ b <= BlendEnd /\ range >= 1)
  BY <1>1, <1>2, <1>4 DEF HL_PlayerBlend
<1> QED
  BY <1>3, <1>4

LEMMA FrameFits ==
  ASSUME gaitframe \in 0..(NumFrames - 1) \cup {Garbled}, NEW v, NEW yaw, NEW moves, NEW jumps,
         Advance(v, yaw, moves, jumps)
  PROVE  gaitframe' \in 0..(NumFrames - 1) \cup {Garbled}
<1>1. NumFrames \in Nat \ {0} /\ Stride \in Nat
  BY GaitAssumption
<1> DEFINE S == Steps(moves, Back(Off(v, yaw), moves))
<1>2. S \subseteq Int
  BY <1>1 DEF Steps
<1>3. \/ gaitframe' \in {0, Garbled}
      \/ gaitframe # Garbled /\ gaitframe' \in {GaitFrame(step) : step \in S}
  BY DEF Advance
<1>4. CASE gaitframe' \in {0, Garbled}
  BY <1>1, <1>4
<1>5. CASE gaitframe # Garbled /\ gaitframe' \in {GaitFrame(step) : step \in S}
  <2>1. PICK step \in Int : gaitframe' = GaitFrame(step)
    BY <1>2, <1>5
  <2>2. gaitframe \in Int
    BY <1>1, <1>5
  <2>3. GaitFrame(step) \in 0..(NumFrames - 1)
    <3> DEFINE f == Mod(gaitframe + step, NumFrames)
    <3>1. gaitframe + step \in Int
      BY <2>2
    <3>2. f \in Int /\ -NumFrames < f /\ f < NumFrames
      BY <1>1, <3>1, ModRange
    <3>3. GaitFrame(step) = IF f < 0 THEN f + NumFrames ELSE f
      BY DEF GaitFrame
    <3> HIDE DEF f
    <3> QED
      BY <1>1, <3>2, <3>3
  <2> QED
    BY <2>1, <2>3
<1> QED
  BY <1>3, <1>4, <1>5

-----------------------------------------------------------------------------
(* The steps.                                                              *)

LEMMA RecordKeeps ==
  ASSUME IInv, NEW v \in View, NEW yaw \in Int, NEW moves \in BOOLEAN,
         yaw \in -360..360 \/ (yaw \in -540..540 /\ game = "CS" /\ ~moves),
         Record(v, yaw, moves), modifier' \in {0, 5, 350}
  PROVE  IInv'
<1>1. game \in {"CS", "HL"} /\ game' = game /\ gaitframe \in 0..(NumFrames - 1) \cup {Garbled}
  BY DEF IInv, TypeOK, Record
<1>2. /\ Twist(v, yaw, moves)
      /\ \E gait \in Gait : \/ CS_ProcessAnimParams(v, gait, yaw, moves)
                           \/ HL_ProcessAnimParams(v, gait, yaw, moves)
  BY DEF Record
<1>3. /\ view' \in -180..180 /\ gaityaw' \in -540..540 /\ finalyaw' \in -180..540
      /\ twist' \in -180..180 /\ moving' = moves
      /\ TorsoOnView' /\ Turned'
      /\ moves \/ game = "HL" => Abs(twist') <= 120
  BY <1>1, <1>2, TwistKeeps
<1>4. gaitframe' \in 0..(NumFrames - 1) \cup {Garbled}
  <2>1. CASE gaitframe' \in {gaitframe, Garbled}
    BY <1>1, <2>1
  <2>2. CASE \E jumps \in BOOLEAN : Advance(v, yaw, moves, jumps)
    BY <1>1, <2>2, FrameFits
  <2> QED
    BY <1>2, <2>1, <2>2 DEF CS_ProcessAnimParams, HL_ProcessAnimParams
<1>5. jumped' \in BOOLEAN
  BY <1>2 DEF CS_ProcessAnimParams, HL_ProcessAnimParams, IInv, TypeOK
<1>6. TypeOK'
  BY <1>1, <1>3, <1>4, <1>5 DEF TypeOK, Garbled
<1>7. TwistBound'
  BY <1>1, <1>3 DEF TwistBound, Abs
<1>8. Blends' /\ controller' \in 0..255
  <2>1. v.pitch \in Int /\ Blends
    BY GaitAssumption DEF IInv
  <2>2. ASSUME NEW gait \in Gait, CS_ProcessAnimParams(v, gait, yaw, moves)
        PROVE  Blends' /\ controller' \in 0..255
    <3>1. /\ controller' \in {127} \cup StateByte
          /\ \E b \in {YawBlend(twist'), Walk(YawBlend(twist'))} :
               blend' = [yaw |-> b, pitch |-> PlayerBlend(v.pitch)]
      BY <2>2 DEF CS_ProcessAnimParams
    <3> QED
      BY <1>3, <2>1, <3>1, YawFits, PitchFits, GaitAssumption DEF Blends
  <2>3. ASSUME NEW gait \in Gait, HL_ProcessAnimParams(v, gait, yaw, moves)
        PROVE  Blends' /\ controller' \in 0..255
    <3>1. /\ game = "HL" /\ controller' = Controller(twist')
          /\ blend' = [blend EXCEPT !.pitch = HL_PlayerBlend(v.pitch)]
      BY <2>3 DEF HL_ProcessAnimParams
    <3>2. twist' \in -120..120
      BY <1>3, <3>1 DEF Abs
    <3> QED
      BY <2>1, <3>1, <3>2, ControllerFits, PitchFits DEF Blends
  <2> QED
    BY <1>2, <2>2, <2>3
<1>9. BytesFit'
  BY <1>8 DEF Blends, BytesFit
<1> QED
  BY <1>3, <1>6, <1>7, <1>8, <1>9 DEF IInv

\* The time of a record.
LEMMA TimeFits == ASSUME NEW elapsed \in Elapsed PROVE Time(elapsed) \in 0..100
<1>1. elapsed \in Int
  BY GaitAssumption
<1> QED
  BY <1>1 DEF Time, Clamp

LEMMA OffFits ==
  ASSUME IInv, NEW v \in View
  PROVE  Off(v, gaityaw) \in -180..180
<1>1. v.yaw \in Int /\ gaityaw \in Int
  BY GaitAssumption DEF IInv, TypeOK
<1> QED
  BY <1>1, HalfTurnRange DEF Off

\* A player stands: also a still one.
LEMMA StandKeeps ==
  ASSUME IInv, NEW v \in View, NEW dt \in 0..100, Stand(v, dt)
  PROVE  IInv'
<1> DEFINE off == Off(v, gaityaw)
           yaw == StandYaw(off, dt)
<1>1. off \in Int
  BY OffFits
<1>2. Record(v, yaw, FALSE) /\ modifier' \in {modifier, Modifier(off)}
  BY DEF Stand
<1> HIDE DEF off
<1>3. modifier \in {0, 5, 350} /\ gaityaw \in Int
  BY DEF IInv, TypeOK
<1>4. Modifier(off) \in {0, 5, 350}
  BY <1>1, <1>3 DEF Modifier, Abs
<1>5. yaw \in -360..360 /\ yaw \in Int
  <2> DEFINE sum == gaityaw + TurnBy(off, dt)
  <2>1. sum \in Int /\ yaw = Mod(sum, 360)
    BY <1>1, <1>3, <1>4 DEF TurnBy, Trunc, StandYaw
  <2> HIDE DEF sum, yaw
  <2>2. Mod(sum, 360) \in -359..359
    BY <2>1, ModTurn
  <2> QED
    BY <2>1, <2>2
<1>6. modifier' \in {0, 5, 350}
  BY <1>2, <1>3, <1>4
<1> HIDE DEF yaw
<1>7. FALSE \in BOOLEAN
  OBVIOUS
<1> QED
  BY <1>2, <1>5, <1>6, <1>7, RecordKeeps

LEMMA MoveKeeps ==
  ASSUME IInv, NEW v \in View, NEW towards \in Heading,
         Move(v, towards)
  PROVE  IInv'
<1>1. towards \in -360..360 /\ towards \in Int
  BY GaitAssumption
<1>2. modifier' \in {0, 5, 350}
  BY DEF Move, IInv, TypeOK
<1> QED
  BY <1>1, <1>2, RecordKeeps DEF Move

LEMMA SameKeeps ==
  ASSUME IInv, NEW v \in View, Same(v)
  PROVE  IInv'
<1>1. gaityaw \in -540..540 /\ gaityaw \in Int /\ game = "CS" /\ modifier' \in {0, 5, 350}
  BY DEF Same, IInv, TypeOK
<1> QED
  BY <1>1, RecordKeeps DEF Same

LEMMA DieKeeps ==
  ASSUME IInv, NEW v \in View, NEW moves \in BOOLEAN, Die(v, moves)
  PROVE  IInv'
<1>1. v.yaw \in -180..180 /\ gaityaw \in Int /\ modifier' \in {0, 5, 350}
  BY GaitAssumption DEF Die, IInv, TypeOK
<1>2. gaityaw + (v.yaw - gaityaw) \in -360..360
  BY <1>1
<1> QED
  BY <1>1, <1>2, RecordKeeps DEF Die

LEMMA StepKeeps == IInv /\ [Next]_vars => IInv'
<1> SUFFICES ASSUME IInv, [Next]_vars PROVE IInv'
  OBVIOUS
<1>1. ASSUME NEW v \in View,
             NEW elapsed \in Elapsed, Stand(v, Time(elapsed))
      PROVE  IInv'
  BY <1>1, TimeFits, StandKeeps
<1>2. ASSUME NEW v \in View,
             NEW towards \in Heading, Move(v, towards)
      PROVE  IInv'
  BY <1>2, MoveKeeps
<1>3. ASSUME NEW v \in View, Same(v)
      PROVE  IInv'
  BY <1>3, SameKeeps
<1>4. ASSUME NEW v \in View, NEW moves \in BOOLEAN, Die(v, moves)
      PROVE  IInv'
  BY <1>4, DieKeeps
<1>5. ASSUME UNCHANGED <<game, gaityaw, modifier, gaitframe, jumped, view, twist, moving,
                         finalyaw>>,
             Blends', controller' \in 0..255
      PROVE  IInv'
  <2>1. TypeOK' /\ TorsoOnView'
    BY <1>5 DEF IInv, TypeOK, TorsoOnView, Garbled
  <2>2. TwistBound' /\ Turned'
    BY <1>5 DEF IInv, TwistBound, Turned, Abs, HalfTurn, Mod, Trunc
  <2>3. BytesFit'
    BY <1>5 DEF Blends, BytesFit
  <2> QED
    BY <1>5, <2>1, <2>2, <2>3 DEF IInv
<1>6. CASE HL_NoLegs
  <2>1. controller' \in 0..255
    BY <1>6, GaitAssumption DEF HL_NoLegs
  <2>2. Blends'
    <3>1. PICK b \in StateByte : blend' = [blend EXCEPT !.pitch = b]
      BY <1>6 DEF HL_NoLegs
    <3>2. b \in 0..255
      BY GaitAssumption
    <3> QED
      BY <3>1, <3>2 DEF IInv, Blends
  <2> QED
    BY <1>5, <1>6, <2>1, <2>2 DEF HL_NoLegs
<1>7. CASE UNCHANGED Others
  BY <1>5, <1>7 DEF Others, IInv, BytesFit, Blends
<1>8. CASE UNCHANGED vars
  BY <1>7, <1>8 DEF vars, Others
<1> QED
  BY <1>1, <1>2, <1>3, <1>4, <1>6, <1>7, <1>8 DEF Next

\* The invariant holds throughout.
THEOREM Inductive == Spec => []IInv
  BY InitInv, StepKeeps, PTL DEF Spec

\* The gait frame is one of the sequence's, but for one that stems from behind the model's
\* sequences (StudioProcessGait), and the yaw of the legs never winds up,
\* however long the player moves, stands and dies.
THEOREM TypeCorrect == Spec => []TypeOK
  BY Inductive, PTL DEF IInv

\* Blends and controllers fit their bytes.
THEOREM AllBytesFit == Spec => []BytesFit
  BY Inductive, PTL DEF IInv

\* Legs and twist add up to the view.
THEOREM TorsoIsOnView == Spec => []TorsoOnView
  BY Inductive, PTL DEF IInv

\* No twist of more than 120 degrees against moving legs.
THEOREM TwistIsBounded == Spec => []TwistBound
  BY Inductive, PTL DEF IInv

-----------------------------------------------------------------------------
(* Legs follow.                                                            *)

\* A part of a number lies between none and all of it.
LEMMA PartOf ==
  ASSUME NEW a \in Int, NEW n \in Int, NEW m \in Nat \ {0},
         a >= 0 => 0 <= n /\ n <= a * m,
         a <= 0 => a * m <= n /\ n <= 0
  PROVE  /\ a >= 0 => Trunc(n, m) \in 0..a
         /\ a <= 0 => Trunc(n, m) \in a..0
<1>1. CASE a >= 0
  <2>1. n \div m \in 0..a
    BY <1>1, DivBound
  <2> QED
    BY <1>1, <2>1 DEF Trunc
<1>2. CASE a < 0
  <2> DEFINE b == -a
             c == -n
  <2>1. c \in Nat /\ b \in Nat /\ c <= b * m
    BY <1>2
  <2>2. Trunc(n, m) = -(c \div m)
    <3>1. CASE n = 0
      BY <3>1 DEF Trunc
    <3>2. CASE n # 0
      BY <1>2, <3>2 DEF Trunc
    <3> QED
      BY <3>1, <3>2
  <2> HIDE DEF b, c
  <2>3. c \div m \in 0..b
    BY <2>1, DivBound
  <2> QED
    BY <1>2, <2>2, <2>3 DEF b
<1> QED
  BY <1>1, <1>2

\* What a step may do to the twist.
Follows(new, old) ==
  /\ Abs(new) <= Abs(old)
  /\ new = 0 \/ (new > 0) = (old > 0)

\* Legs that stand turn by a part of the twist.
LEMMA StandFollows ==
  ASSUME IInv, NEW v \in View, NEW dt \in 0..100, Stand(v, dt),
         v.yaw = view
  PROVE  Follows(twist', twist)
<1> DEFINE turn == TurnBy(twist, dt)
           yaw  == StandYaw(twist, dt)
<1>1. /\ game \in {"CS", "HL"} /\ gaityaw \in Int /\ modifier \in {0, 5, 350}
      /\ view \in Int /\ twist \in -180..180
      /\ game = "HL" => twist \in -120..120
      /\ game = "CS" => dt > 0
  BY DEF IInv, TypeOK, TwistBound, Abs, Stand
<1>2. Off(v, gaityaw) = twist
  BY DEF IInv, Turned, Off
<1>3. Twist(v, yaw, FALSE)
  BY <1>2 DEF Stand, Record
<1>4. Modifier(twist) \in {0, 5, 350} /\ (Abs(twist) > 90 => Modifier(twist) = 350)
  BY <1>1 DEF Modifier, Abs
<1>5. /\ twist >= 0 => turn \in 0..twist
      /\ twist <= 0 => turn \in twist..0
  <2> DEFINE m == IF dt < 25 /\ game = "CS" THEN 10000 ELSE 100
             k == IF dt >= 25 THEN dt
                  ELSE IF game = "HL" THEN 4 * dt ELSE dt * Modifier(twist)
             n == twist * k
  <2>1. k \in Nat /\ m \in Nat \ {0} /\ k <= m
    BY <1>1, <1>4
  <2>2. turn = Trunc(n, m)
    BY <1>1, <1>4 DEF TurnBy
  <2> HIDE DEF k, m
  <2>3. /\ n \in Int
        /\ twist >= 0 => 0 <= n /\ n <= twist * m
        /\ twist <= 0 => twist * m <= n /\ n <= 0
    BY <1>1, <2>1
  <2> HIDE DEF n
  <2>4. twist \in Int
    BY <1>1
  <2> QED
    BY <2>1, <2>2, <2>3, <2>4, PartOf
<1>6. twist \in {-180, 180} => turn # 0
  BY <1>1, <1>4 DEF TurnBy, Trunc, Abs
<1>7. yaw = Mod(gaityaw + turn, 360)
  BY DEF StandYaw
<1> HIDE DEF turn, yaw
<1>8. turn \in Int /\ twist - turn \in -179..179
  <2>1. CASE twist >= 0
    BY <1>1, <1>5, <1>6, <2>1
  <2>2. CASE twist < 0
    BY <1>1, <1>5, <1>6, <2>2
  <2> QED
    BY <1>1, <2>1, <2>2
<1>9. Off(v, yaw) = twist - turn
  <2> DEFINE sum == gaityaw + turn
  <2>1. sum \in Int
    BY <1>1, <1>8
  <2>2. PICK m \in Int : yaw = sum + 360 * m
    BY <1>7, <2>1, ModTurn DEF Same360
  <2>3. PICK k \in Int : twist = view - gaityaw + 360 * k
    <3>1. twist = HalfTurn(view - gaityaw) /\ view - gaityaw \in Int
      BY <1>1 DEF IInv, Turned
    <3> QED
      BY <3>1, HalfTurnRange DEF Same360
  <2> DEFINE d == v.yaw - yaw
             n == -m - k
  <2>4. d \in Int /\ n \in Int /\ d = (twist - turn) + 360 * n
    BY <1>1, <1>8, <2>2, <2>3
  <2> HIDE DEF d, n
  <2>5. Same360(d, twist - turn)
    BY <2>4 DEF Same360
  <2>6. HalfTurn(d) = twist - turn
    BY <1>8, <2>4, <2>5, HalfTurnUnique
  <2> QED
    BY <2>6 DEF Off, d
<1>10. Back(Off(v, yaw), FALSE) = 0
  BY <1>1, <1>5, <1>9 DEF Back, Reverse
<1>11. twist' = twist - turn
  <2>1. twist' = Off(v, yaw) - Back(Off(v, yaw), FALSE)
    BY <1>3, Zenon DEF Twist, TwistAfter
  <2>2. twist' = (twist - turn) - 0
    BY <1>9, <1>10, <2>1, Zenon
  <2> QED
    BY <1>1, <1>8, <2>2
<1> QED
  BY <1>1, <1>5, <1>11 DEF Follows, Abs

LEMMA SameFollows ==
  ASSUME IInv, NEW v \in View, Same(v), v.yaw = view
  PROVE  Follows(twist', twist)
<1>1. Off(v, gaityaw) = twist /\ twist \in Int
  BY DEF IInv, TypeOK, Turned, Off
<1>2. Twist(v, gaityaw, FALSE) /\ game # "HL"
  BY DEF Same, Record
<1>3. Back(Off(v, gaityaw), FALSE) = 0
  BY <1>2, Zenon DEF Back
<1>4. twist' = Off(v, gaityaw) - Back(Off(v, gaityaw), FALSE)
  BY <1>2, Zenon DEF Twist, TwistAfter
<1>5. twist' = twist - 0
  BY <1>1, <1>3, <1>4, Zenon
<1> QED
  BY <1>1, <1>5 DEF Follows, Abs

LEMMA DieFollows ==
  ASSUME IInv, NEW v \in View, Die(v, FALSE)
  PROVE  Follows(twist', twist)
<1> DEFINE yaw == gaityaw + (v.yaw - gaityaw)
<1>1. v.yaw \in Int /\ gaityaw \in Int /\ twist \in Int
  BY GaitAssumption DEF IInv, TypeOK
<1>2. v.yaw - yaw = 0
  BY <1>1
<1>3. Twist(v, yaw, FALSE) /\ game # "HL"
  BY DEF Die, Record
<1> HIDE DEF yaw
<1>4. Off(v, yaw) = 0
  BY <1>2 DEF Off, HalfTurn, Mod, Trunc
<1>5. Back(Off(v, yaw), FALSE) = 0
  BY <1>3, Zenon DEF Back
<1>6. twist' = Off(v, yaw) - Back(Off(v, yaw), FALSE)
  BY <1>3, Zenon DEF Twist, TwistAfter
<1>7. twist' = 0 - 0
  BY <1>4, <1>5, <1>6, Zenon
<1> QED
  BY <1>1, <1>7 DEF Follows, Abs

\* The legs of a standing player follow its view without passing it, at whatever rate
\* records are made, and whatever else the player did before.
THEOREM LegsDoFollow == Spec => LegsFollow
<1> DEFINE Quiet == ~moving' /\ view' = view
<1>1. ASSUME IInv, [Next]_vars, Quiet PROVE Follows(twist', twist)
  <2>1. twist \in Int
    BY <1>1 DEF IInv, TypeOK
  <2>2. ASSUME NEW v \in View, NEW yaw, NEW moves \in BOOLEAN,
               Record(v, yaw, moves)
        PROVE  v.yaw = view /\ moves = FALSE
    <3>1. view' = v.yaw /\ moving' = moves
      BY <2>2 DEF Record, Twist
    <3> QED
      BY <1>1, <3>1
  <2>3. ASSUME NEW v \in View,
               NEW elapsed \in Elapsed, Stand(v, Time(elapsed))
        PROVE  Follows(twist', twist)
    <3>1. v.yaw = view
      BY <2>2, <2>3 DEF Stand
    <3> QED
      BY <1>1, <2>3, <3>1, TimeFits, StandFollows
  <2>4. ASSUME NEW v \in View, NEW towards \in Heading,
               Move(v, towards)
        PROVE  FALSE
    BY <2>2, <2>4 DEF Move
  <2>5. ASSUME NEW v \in View, Same(v)
        PROVE  Follows(twist', twist)
    <3>1. v.yaw = view
      BY <2>2, <2>5 DEF Same
    <3> QED
      BY <1>1, <2>5, <3>1, SameFollows
  <2>6. ASSUME NEW v \in View, NEW moves \in BOOLEAN, Die(v, moves)
        PROVE  Follows(twist', twist)
    <3>1. moves = FALSE
      BY <2>2, <2>6 DEF Die
    <3> QED
      BY <1>1, <2>6, <3>1, DieFollows
  <2>7. CASE twist' = twist
    BY <2>1, <2>7 DEF Follows, Abs
  <2> QED
    BY <1>1, <2>3, <2>4, <2>5, <2>6, <2>7 DEF Next, HL_NoLegs, Others, vars
<1>2. IInv /\ [Next]_vars => [Quiet => Follows(twist', twist)]_vars
  BY <1>1
<1> QED
  BY <1>2, Inductive, PTL DEF Spec, LegsFollow, Follows
=============================================================================
