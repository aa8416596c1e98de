---------------------------- MODULE BoneAnimation ----------------------------
(***************************************************************************)
(* How a moment of an animation is read: StudioEstimateFrame (its twin     *)
(* HL_StudioEstimateFrame is the same code), which turns a record's frame  *)
(* and times into a frame of the sequence; StudioCalcRotations, which      *)
(* brings the frame into the sequence; StudioCalcBonePosition and          *)
(* StudioCalcBoneQuaterion, which look the frame and the next one up in    *)
(* the compressed values of a bone; all of src/animation.cpp.              *)
(*                                                                         *)
(* One sequence is looked at, and in it one axis of one bone.  Frames and  *)
(* weights are thousandths, times hundredths of a second.  A bone's base   *)
(* value, scale and controllers are left out: they are added to whatever   *)
(* is read.                                                                *)
(***************************************************************************)
EXTENDS Integers, Sequences

CONSTANTS
  Animations,  \* sequences of the model with the values of the axis, see below
  Others,      \* lengths of the other sequences that the player shows
  Frames,      \* entity_state_t.frame
  Elapsed,     \* m_clTime - animtime, in hundredths
  Fps,         \* framerate * fps: frames in a second
  Behind       \* what lies in memory behind the values

\* numframes, looping (STUDIO_LOOPING), and words: the mstudioanimvalue_t of the axis.
ASSUME AnimationAssumption ==
  /\ Animations \subseteq [numframes : Nat \ {0}, looping : BOOLEAN, words : Seq(Int)]
  /\ Others \subseteq Nat \ {0} /\ Frames \subseteq 0..255
  /\ Elapsed \subseteq Int /\ Fps \subseteq Nat
  /\ Behind \in Nat

-----------------------------------------------------------------------------
(* The words of an animation a.                                            *)

\* panimvalue[p]: a value or the head of a span, valid + 256 * total: valid values follow
\* it, the last of which stands for the other frames of total.
Word(a, p) == IF p + 1 \in DOMAIN a.words THEN a.words[p + 1] ELSE Behind
Valid(a, p) == Word(a, p) % 256
Total(a, p) == Word(a, p) \div 256
Following(a, p) == p + Valid(a, p) + 1

\* The heads of spans that fill the words, and the first frame of each: as the compiler of
\* models lays them out.
Heads(a, heads) ==
  /\ 0 \in heads
  /\ \A p \in heads : /\ Valid(a, p) \in 1..Total(a, p)
                      /\ Following(a, p) \in heads \cup {Len(a.words)}
Starts(a, heads, start) ==
  /\ start[0] = 0
  /\ \A p \in heads :
       start[p] + Total(a, p) = IF Following(a, p) \in heads THEN start[Following(a, p)] ELSE a.numframes

ASSUME LayoutAssumption ==
  \A a \in Animations :
    \E heads \in SUBSET (0..(Len(a.words) - 1)) :
      Heads(a, heads) /\ \E start \in [heads -> 0..(a.numframes - 1)] : Starts(a, heads, start)

VARIABLES
  anim,        \* the sequence looked at
  f,           \* of the player's records: f, and so prevframe
  shown        \* what the last pose took from the sequence, since the last record

vars == <<anim, f, shown>>

Nothing == [frame |-> 0, s |-> 0, first |-> 0, second |-> 0, at |-> 0, read |-> FALSE]

Init ==
  /\ anim \in Animations
  /\ f = 0
  /\ shown = Nothing

-----------------------------------------------------------------------------
(* The frame.  X_Y is X with a slip Y, used by no action.                  *)

One == 1000

\* frame is a byte for the whole of the sequence, to which the time since animtime is added.
Advanced_Backward(n, frame, elapsed, fps) ==
  (IF n <= 1 THEN 0 ELSE (frame * (n - 1) * One) \div 256) + elapsed * 10 * fps
Advanced(n, frame, elapsed, fps) ==
  (IF n <= 1 THEN 0 ELSE (frame * (n - 1) * One) \div 256)
    + (IF elapsed < 0 THEN 0 ELSE elapsed * 10 * fps)

\* A looping sequence ends in the frame it starts with.
EstimateFrame(n, looping, frame, elapsed, fps) ==
  LET g    == Advanced(n, frame, elapsed, fps)
      last == (n - 1) * One - 1
      cut  == IF g >= last THEN last ELSE g
  IN IF looping THEN IF n > 1 THEN g % ((n - 1) * One) ELSE g
     ELSE IF cut < 0 THEN 0 ELSE cut

\* StudioCalcRotations: another sequence's frame may lie behind the end of this one.
InSequence_Unbounded(a, g) == g
InSequence(a, g) == IF g > (a.numframes - 1) * One THEN 0 ELSE g

-----------------------------------------------------------------------------
(* The values.                                                             *)

\* The head of the span that holds a frame, and the frame's place in the span.  (Behind the
\* words the search ends here.)
Place == [head : Nat, k : Nat]
Within(a, p, k) == [head |-> p, k |-> IF Total(a, p) < Valid(a, p) THEN 0 ELSE k]
Span(a) ==
  LET span[here \in Place] ==
        IF here.head >= Len(a.words) \/ Total(a, here.head) > here.k THEN here
        ELSE span[Within(a, Following(a, here.head), here.k - Total(a, here.head))]
  IN span
SpanOf(a, frame) == Span(a)[Within(a, 0, frame)]

\* StudioCalcBonePosition: in front of the last of the span's frames only values of the
\* span are mixed, and behind its last value that one is repeated.
Position_Ends(a, at, s) ==
  LET p == at.head  k == at.k IN
  IF Valid(a, p) > k
    THEN Word(a, p + k + 1) * (One - s) + s * Word(a, p + k + 2)
    ELSE IF Total(a, p) <= k + 1
           THEN Word(a, p + Valid(a, p)) * (One - s) + s * Word(a, p + Valid(a, p) + 2)
           ELSE Word(a, p + Valid(a, p)) * One
Position(a, at, s) ==
  LET p == at.head  k == at.k IN
  IF Valid(a, p) > k
    THEN IF Valid(a, p) > k + 1
           THEN Word(a, p + k + 1) * (One - s) + s * Word(a, p + k + 2)
           ELSE Word(a, p + k + 1) * One
    ELSE IF Total(a, p) <= k + 1
           THEN Word(a, p + Valid(a, p)) * (One - s) + s * Word(a, p + Valid(a, p) + 2)
           ELSE Word(a, p + Valid(a, p)) * One

\* StudioCalcBoneQuaterion: the angle in the frame and in the next one, which are mixed as
\* quaternions.
First(a, at) == Word(a, at.head + IF Valid(a, at.head) > at.k THEN at.k + 1 ELSE Valid(a, at.head))
Second_Head(a, at) ==
  LET p == at.head  k == at.k IN
  IF Valid(a, p) > k + 1 THEN Word(a, p + k + 2)
  ELSE IF Total(a, p) > k + 1 THEN First(a, at)
  ELSE Word(a, p + Valid(a, p) + 1)
Second(a, at) ==
  LET p == at.head  k == at.k IN
  IF Valid(a, p) > k + 1 THEN Word(a, p + k + 2)
  ELSE IF Total(a, p) > k + 1 THEN First(a, at)
  ELSE Word(a, p + Valid(a, p) + 2)

\* StudioCalcRotations for this axis.
CalcRotations(a, g) ==
  LET frame == InSequence(a, g) \div One
      s     == InSequence(a, g) % One
      at    == SpanOf(a, frame)
  IN [frame |-> frame, s |-> s, first |-> First(a, at), second |-> Second(a, at),
      at |-> Position(a, at, s), read |-> TRUE]

-----------------------------------------------------------------------------
(* Steps.                                                                  *)

\* A record is made while the player shows this sequence, or another one of n frames:
\* its frame is estimated for that one (CS_StudioProcessParams).  A later record may carry
\* it over, as its prevframe or, in Counter-Strike without a gait sequence, as its own.
ProcessAnimParams(n, looping) ==
  /\ \E frame \in Frames, elapsed \in Elapsed, fps \in Fps :
       f' = EstimateFrame(n, looping, frame, elapsed, fps)
  /\ shown' = Nothing
  /\ UNCHANGED anim

\* The player is posed in the sequence: as its own, or as the one it fades out of.
Pose ==
  /\ shown' = CalcRotations(anim, f)
  /\ UNCHANGED <<anim, f>>

\* It is posed in its gait, a gaitframe anywhere in the sequence (GaitYaw): by quarters.
PoseGait ==
  /\ \E quarter \in 0..(4 * anim.numframes - 1) : shown' = CalcRotations(anim, quarter * 250)
  /\ UNCHANGED <<anim, f>>

Next ==
  \/ ProcessAnimParams(anim.numframes, anim.looping)
  \/ \E n \in Others, looping \in BOOLEAN : ProcessAnimParams(n, looping)
  \/ Pose
  \/ PoseGait

Spec == Init /\ [][Next]_vars

-----------------------------------------------------------------------------
(* Properties.                                                             *)

\* The values of all frames, uncompressed.
Decoded(a) ==
  LET values[p \in Nat] ==
        IF p >= Len(a.words) THEN <<>>
        ELSE [i \in 1..Total(a, p) |-> Word(a, p + IF i < Valid(a, p) THEN i ELSE Valid(a, p))]
               \o values[Following(a, p)]
  IN values
Value(frame) == Decoded(anim)[0][frame + 1]

\* Types of the variables.
TypeOK ==
  /\ DOMAIN anim = {"numframes", "looping", "words"}
  /\ f \in Nat
  /\ shown.frame \in Nat /\ shown.s \in 0..(One - 1) /\ shown.read \in BOOLEAN

\* Whichever record the frame was estimated for, of this sequence, another one or a gait,
\* and however long ago: what is posed are frames of this sequence.  The next one takes
\* part only if there is one.
FrameInData ==
  /\ shown.frame \in 0..(anim.numframes - 1)
  /\ shown.s > 0 => shown.frame + 1 <= anim.numframes - 1

\* A bone turns from the frame's angle to the next frame's, wherever in a span, between two
\* spans or in a repetition the frame lies.
AngleExact ==
  shown.read => /\ shown.first = Value(shown.frame)
                /\ shown.s > 0 => shown.second = Value(shown.frame + 1)

\* A bone moves from the frame's position to the next frame's; at the end of a span in
\* which nothing is repeated it waits for the next frame.
Waits(frame) ==
  LET at == SpanOf(anim, frame)
  IN Total(anim, at.head) = Valid(anim, at.head) /\ at.k + 1 = Total(anim, at.head)
PositionExact ==
  shown.read =>
    shown.at = IF shown.s = 0 \/ Waits(shown.frame) THEN Value(shown.frame) * One
               ELSE Value(shown.frame) * (One - shown.s) + Value(shown.frame + 1) * shown.s
=============================================================================
