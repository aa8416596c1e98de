------------------------------- MODULE GaitYaw -------------------------------
(***************************************************************************)
(* Where the legs of a player point, and how far its torso is twisted and  *)
(* bent against them: the gait functions of src/main.cpp, which carry      *)
(* gaityaw, m_flYawModifier and gaitframe of one player in one view from   *)
(* record to record, and the walk and jump part of CS_StudioProcessParams. *)
(*                                                                         *)
(* Angles are whole degrees, times and m_flYawModifier hundredths, frames  *)
(* whole numbers; quotients are cut towards zero.  What is stored in an    *)
(* unsigned char is kept as it is before the store, so that the properties *)
(* can tell whether it fits.                                               *)
(***************************************************************************)
EXTENDS Integers

CONSTANTS
  View,        \* where players look: yaw (from NormalizeAngles) and pitch
  Heading,     \* where they move (from atan2)
  Elapsed,     \* m_clTime - m_clOldTime
  BlendStart, BlendEnd,  \* pseqdesc->blendstart[0], blendend[0] (HL)
  StateByte,   \* bytes the game sets in the state's controller and blending
  NumFrames,   \* pseqdesc->numframes of the gait sequence
  Stride       \* bound: frames the gait advances in a record

ASSUME GaitAssumption ==
  /\ \A v \in View : v.yaw \in -180..180 /\ v.pitch \in Int
  /\ Heading \subseteq -180..180
  /\ Elapsed \subseteq Int
  /\ BlendStart \in Int /\ BlendEnd \in Int
  /\ StateByte \subseteq 0..255
  /\ NumFrames \in Nat \ {0}
  /\ Stride \in Nat

VARIABLES
  game,        \* g_eGameType: "CS" (Counter-Strike, Condition Zero) or "HL"
  gaityaw,     \* gaityaw
  modifier,    \* m_flYawModifier
  gaitframe,   \* gaitframe, or Garbled
  jumped,      \* m_nPlayerGaitSequences is ANIM_JUMP_SEQUENCE
  view,        \* final_angles[1] of the last record with a twist, before the legs' yaw
  twist,       \* flYaw of that record: the view against the legs
  moving,      \* m_flGaitMovement # 0
  finalyaw,    \* final_angles[1] after the twist
  blend,       \* blending: of the yaw (CS) and of the pitch
  controller,  \* controller[0..3]: 127, the state's, or of the twist (HL)
  still        \* external: the player stands and looks where it looked, for as long as this is

vars == <<game, gaityaw, modifier, gaitframe, jumped, view, twist, moving,
          finalyaw, blend, controller, still>>

\* gaitsequence: none (0), ANIM_JUMP_SEQUENCE, one out of the model's bounds, or another,
\* ANIM_WALK_SEQUENCE among them.
Gait == {"none", "walk", "jump", "run", "outside"}

\* A gait frame that was computed with what lies behind the sequences: any number, or none.
Garbled == -NumFrames

Init ==
  /\ game \in {"CS", "HL"}
  /\ gaityaw = 0 /\ modifier = 0 /\ gaitframe = 0 /\ jumped = FALSE
  /\ view = 0 /\ twist = 0 /\ moving = FALSE /\ finalyaw = 0
  /\ blend = [yaw |-> 0, pitch |-> 0]
  /\ controller = 127
  /\ still = FALSE

-----------------------------------------------------------------------------
(* Arithmetic of C.                                                        *)

\* (int)(a / b): towards zero.
Trunc(a, b) == IF a >= 0 THEN a \div b ELSE -((-a) \div b)
\* fmod(a, b), a - (int)(a / b) * b: of the sign of a.
Mod(a, b) == a - Trunc(a, b) * b
Clamp(x, lo, hi) == IF x < lo THEN lo ELSE IF x > hi THEN hi ELSE x
Abs(x) == IF x < 0 THEN -x ELSE x

\* A difference of directions, brought to -180..180.
HalfTurn(a) ==
  LET b == Mod(a, 360) IN IF b > 180 THEN b - 360 ELSE IF b < -180 THEN b + 360 ELSE b

-----------------------------------------------------------------------------
(* The functions.  X_Y is X with a slip Y, used by no action.              *)

\* m_flYawModifier: slow once the legs are under the view, fast once they are far off,
\* and in between as before.
Modifier_Anew(off) == IF Abs(off) > 90 THEN 350 ELSE 5
Modifier(off) == IF Abs(off) < 5 THEN 5 ELSE IF Abs(off) > 90 THEN 350 ELSE modifier

\* By how much the legs of a standing player turn towards its view in time dt.
TurnBy(off, dt) ==
  IF dt >= 25 THEN Trunc(off * dt, 100)
  ELSE IF game = "HL" THEN Trunc(off * dt * 4, 100)
  ELSE Trunc(off * dt * Modifier(off), 10000)
StandYaw_Away(off, dt) == Mod(gaityaw - TurnBy(off, dt), 360)
StandYaw(off, dt) == Mod(gaityaw + TurnBy(off, dt), 360)

\* Legs that would be more than 120 degrees off the view walk backwards.
Reverse_Late(off) == IF off > 160 THEN 180 ELSE IF off < -160 THEN -180 ELSE 0
Reverse(off) == IF off > 120 THEN 180 ELSE IF off < -120 THEN -180 ELSE 0

\* The twist that is left when the legs have been reversed.
TwistAfter_Unturned(off, back) == off
TwistAfter(off, back) == off - back

\* CalculateYawBlend; CS_StudioProcessParams takes 26 off for a walk.
Walk_Unguarded(b) == b - 26
Walk(b) == IF b > 26 THEN b - 26 ELSE 0
YawBlend(off) == (255 * 90 - Clamp(off * 128 + 127 * 90, 0, 255 * 90)) \div 90

\* HL_StudioProcessGait.
Controller(off) == Trunc((off + 120) * 255, 240)

\* StudioPlayerBlend.
PlayerBlend(pitch) ==
  LET range == 3 * pitch IN
  IF range <= -45 THEN 255 ELSE IF range >= 45 THEN 0 ELSE ((45 - range) * 255) \div 90

HL_PlayerBlend(pitch) ==
  LET b == 3 * pitch IN
  IF b < BlendStart THEN 0
  ELSE IF b > BlendEnd THEN 255
  ELSE IF BlendEnd - BlendStart < 1 THEN 127
  ELSE Trunc(255 * (b - BlendStart), BlendEnd - BlendStart)

\* The gait frame: advanced, or taken back under reversed legs or at a negative framerate
\* (which only CS reads), and brought into range.
Steps(moves, back) ==
  IF game = "CS" \/ (moves /\ back # 0) THEN (-Stride)..Stride ELSE 0..Stride
GaitFrame_Signed(step) == Mod(gaitframe + step, NumFrames)
GaitFrame(step) ==
  LET f == Mod(gaitframe + step, NumFrames) IN IF f < 0 THEN f + NumFrames ELSE f

-----------------------------------------------------------------------------
(* A record, for legs that point to yaw and do, or do not, move.           *)

Off(v, yaw) == HalfTurn(v.yaw - yaw)
Back(off, moves) == IF game = "HL" \/ moves THEN Reverse(off) ELSE 0

\* The torso is twisted against the legs, which become the player's yaw.
Twist(v, yaw, moves) ==
  LET off == Off(v, yaw) IN
  /\ view' = v.yaw
  /\ gaityaw' = yaw - Back(off, moves)
  /\ twist' = TwistAfter(off, Back(off, moves))
  /\ moving' = moves
  /\ finalyaw' = IF gaityaw' < 0 THEN gaityaw' + 360 ELSE gaityaw'

\* The frame advances; it starts anew with a jump (CS).
Advance(v, yaw, moves, jumps) ==
  gaitframe' \in IF jumps THEN {0} ELSE IF gaitframe = Garbled THEN {Garbled}
                ELSE {GaitFrame(step) : step \in Steps(moves, Back(Off(v, yaw), moves))}

\* ProcessAnimParams in Counter-Strike.  Without a gait, or a model, the frame stays,
\* and with a gait out of bounds it is computed with what lies behind the sequences;
\* CS_StudioProcessParams may return early (no model, sequence out of bounds).  With a gait
\* the controllers are those of the state.
CS_ProcessAnimParams(v, gait, yaw, moves) ==
  /\ game = "CS"
  /\ \E model \in IF gait = "none" THEN {FALSE} ELSE BOOLEAN :
     \E known \in IF model THEN BOOLEAN ELSE {FALSE} :
       LET b == YawBlend(twist') IN
       /\ IF ~model THEN UNCHANGED gaitframe
          ELSE IF gait = "outside" THEN gaitframe' = Garbled
          ELSE Advance(v, yaw, moves, known /\ gait = "jump" /\ ~jumped)
       /\ jumped' = IF known THEN gait = "jump" ELSE jumped
       /\ blend' = [yaw   |-> IF known /\ gait = "walk" THEN Walk(b) ELSE b,
                    pitch |-> PlayerBlend(v.pitch)]
  /\ controller' \in IF gait = "none" THEN {127} ELSE StateByte

\* ProcessAnimParams in Half-Life, with a gait and a model.
HL_ProcessAnimParams(v, gait, yaw, moves) ==
  /\ game = "HL" /\ gait # "none"
  /\ Advance(v, yaw, moves, FALSE)
  /\ blend' = [blend EXCEPT !.pitch = HL_PlayerBlend(v.pitch)]
  /\ controller' = Controller(twist')
  /\ UNCHANGED jumped

\* What both do, whichever the gait.
Record(v, yaw, moves) ==
  /\ UNCHANGED <<game, still>>
  /\ Twist(v, yaw, moves)
  /\ \E gait \in Gait : \/ CS_ProcessAnimParams(v, gait, yaw, moves)
                        \/ HL_ProcessAnimParams(v, gait, yaw, moves)

\* dt of the code: between 0 and a second.
Time(elapsed) == Clamp(elapsed, 0, 100)

\* The player stands, or moves straight up or down: its legs turn towards its view.
Stand(v, dt) ==
  /\ game = "CS" => dt > 0
  /\ Record(v, StandYaw(Off(v, gaityaw), dt), FALSE)
  /\ modifier' = IF game = "CS" THEN Modifier(Off(v, gaityaw)) ELSE modifier

\* It moves, in any time but none: its legs point where it goes.
Move(v, towards) ==
  /\ Record(v, towards, TRUE)
  /\ UNCHANGED modifier

\* CS: no time has passed.
Same(v) ==
  /\ game = "CS"
  /\ Record(v, gaityaw, FALSE)
  /\ UNCHANGED modifier

\* CS, sequence > 100: the legs of a dying player follow its view.
Die(v, moves) ==
  /\ game = "CS"
  /\ Record(v, gaityaw + (v.yaw - gaityaw), moves)
  /\ UNCHANGED modifier

\* HL, no legs to process: controllers are set without a gaitsequence, and with one, but
\* no entity or no model, are those of the state; the blend is the state's.
HL_NoLegs ==
  /\ game = "HL"
  /\ controller' \in {127} \cup StateByte
  /\ \E b \in StateByte : blend' = [blend EXCEPT !.pitch = b]
  /\ UNCHANGED <<game, gaityaw, modifier, gaitframe, jumped, view, twist, moving,
                 finalyaw, still>>

\* A player who stands, and has turned its view far (HL: at all), may stay as it is until
\* it does something else.
Settle == ~still /\ ~moving /\ (game = "CS" => Abs(twist) > 90) /\ still' = TRUE
Stir   == still /\ still' = FALSE

Others == <<game, gaityaw, modifier, gaitframe, jumped, view, twist, moving, finalyaw,
            blend, controller>>

\* A record in which time has passed, of a player that is still.
StillRecord ==
  /\ still
  /\ \E v \in {w \in View : w.yaw = view}, elapsed \in {e \in Elapsed : e > 0} :
       Stand(v, Time(elapsed))

Next ==
  \/ \E v \in View :
       /\ still => v.yaw = view
       /\ \/ \E elapsed \in Elapsed : Stand(v, Time(elapsed))
          \/ \E towards \in Heading : ~still /\ Move(v, towards)
          \/ Same(v)
          \/ \E moves \in BOOLEAN : ~still /\ Die(v, moves)
  \/ HL_NoLegs
  \/ (Settle \/ Stir) /\ UNCHANGED Others

Spec == Init /\ [][Next]_vars

\* Every server frame makes a record of every player, and takes some time; a player that is
\* still has a model, and in HL a gait.
FairSpec == Spec /\ WF_vars(StillRecord)

-----------------------------------------------------------------------------
(* Properties.                                                             *)

\* Types of the variables; the gait frame is always one of the sequence's, unless it
\* stems from behind the sequences, and the yaw of the legs never winds up.
TypeOK ==
  /\ game \in {"CS", "HL"}
  /\ gaityaw \in -540..540
  /\ modifier \in {0, 5, 350}
  /\ gaitframe \in 0..(NumFrames - 1) \cup {Garbled}
  /\ jumped \in BOOLEAN
  /\ view \in -180..180
  /\ twist \in -180..180
  /\ moving \in BOOLEAN
  /\ finalyaw \in -180..540

\* What is stored in blending and controller, which are unsigned chars, fits.
BytesFit == {blend.yaw, blend.pitch, controller} \subseteq 0..255

\* Legs and twist together point where the player looks, reversed or not: the model is
\* turned by finalyaw and its torso by the twist on top of it.
TorsoOnView == (finalyaw + twist - view) % 360 = 0

\* The torso is never twisted more than 120 degrees against legs that move, and in
\* Half-Life never at all.
TwistBound == moving \/ game = "HL" => Abs(twist) <= 120

\* A standing player who looks where it looked is never twisted further, nor to the other
\* side: its legs follow without passing the view.
LegsFollow ==
  [][~moving' /\ view' = view => /\ Abs(twist') <= Abs(twist)
                                 /\ twist' = 0 \/ (twist' > 0) = (twist > 0)]_vars

\* The legs of a player who stays as it is do not stay behind: once they have begun to
\* turn fast they go on until they are under the view.
LegsArrive == []<>(~still \/ Abs(twist) < 5)
=============================================================================
