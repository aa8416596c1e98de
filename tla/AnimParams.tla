----------------------------- MODULE AnimParams -----------------------------
(***************************************************************************)
(* What is remembered from record to record so that a player can fade from *)
(* one animation sequence to the next: ProcessAnimParams, for one player   *)
(* in one view.  The angles and the blends are computed as GaitYaw says;   *)
(* here a blend is any of the constant Blend, and controllers, positions   *)
(* and angles are left out.  A frame (f, prevframe) is known by the        *)
(* sequence it was estimated for; from whose clock is the subject of       *)
(* PoseFrame.  Times are ticks of a hundredth of a second.                 *)
(***************************************************************************)
EXTENDS Integers

CONSTANTS
  NumSeq,      \* g_pstudiohdr->numseq: the model has the sequences 0..NumSeq - 1
  Shown,       \* the sequences players show; NumSeq stands for one out of bounds
  Gaits,       \* their gait sequences, 0 for none
  Walk,        \* ANIM_WALK_SEQUENCE
  Blend,       \* values of a pair of blends, functions in [0..1 -> 0..255]
  Tick,        \* how far the clock may advance from record to record
  MaxClock,    \* bound: last tick of a level
  MaxRecords   \* bound: records made

ASSUME AnimAssumption ==
  /\ NumSeq \in Nat \ {0}
  /\ Shown \subseteq 0..NumSeq /\ Gaits \subseteq 0..NumSeq
  /\ Walk \in Nat
  /\ Blend \subseteq [0..1 -> 0..255]
  /\ Tick \subseteq Nat \ {0}
  /\ MaxClock \in Nat \ {0} /\ MaxRecords \in Nat

NoFrame == -1    \* frame 0 of no sequence: never estimated
FrameOf == 0..NumSeq \cup {NoFrame}

NoBlend == [i \in 0..1 |-> 0]
Zero == [sequence |-> 0, prevsequence |-> 0, gaitsequence |-> 0,
         animtime |-> 0, clTime |-> 0, dt |-> 0, sequencetime |-> 0,
         blending |-> NoBlend, prevblending |-> NoBlend, prevseqblending |-> NoBlend,
         f |-> NoFrame, prevframe |-> NoFrame]

VARIABLES
  game,        \* g_eGameType
  records,     \* how many have been made
  clock,       \* gpGlobals->time
  anim,        \* the player's animtime: when it last ran a command
  rec,         \* the newest record of row 0: prev_params of the next one
  copy,        \* the working copy player_params
  change       \* history, never read: the last change of the sequence the player shows

animVars == <<game, records, clock, anim, rec, copy, change>>

\* from, to: the sequences shown before and since (of the entity, whatever was recorded),
\* Unseen if none; at: animtime; now: in this level.
Unseen   == -1
NoChange == [from |-> Unseen, to |-> Unseen, at |-> 0, now |-> FALSE]

Init ==
  /\ game \in {"CS", "HL"}
  /\ records = 0
  /\ clock = 1 /\ anim = 1
  /\ rec = Zero /\ copy = Zero
  /\ change = NoChange

-----------------------------------------------------------------------------
(* ProcessAnimParams.  X_Y is X with a slip Y, used by no action.          *)

\* The time of a change of sequence.
SequenceTime_Always(prev, s, at) == at + 1
SequenceTime(prev, s, at) == IF s # prev.sequence THEN at + 1 ELSE prev.sequencetime

\* Up to the game's own part: the new state on top of the record before, whose sequence,
\* frame and blends are kept as the previous ones.
Latch(prev, s, gait, at, raw, now) ==
  [sequence |-> s, prevsequence |-> prev.sequence, gaitsequence |-> gait,
   animtime |-> at, clTime |-> now, dt |-> now - prev.clTime,
   sequencetime |-> SequenceTime(prev, s, at),
   blending |-> raw,
   prevblending |-> prev.blending,
   prevseqblending |-> IF s # prev.sequence THEN prev.blending ELSE prev.prevseqblending,
   f |-> prev.f, prevframe |-> prev.f]

\* CalculateYawBlend and CalculatePitchBlend.
CalculateBlends(r, b) ==
  [r EXCEPT !.blending = b, !.prevblending = b, !.prevseqblending = b]

\* CS_StudioProcessParams, unless it returns early: the frame, and less yaw for a walk.
Less_Unguarded(b) == b - 26
Less(b) == IF b > 26 THEN b - 26 ELSE 0
CS_StudioProcessParams(r) ==
  LET walked == [r.blending EXCEPT ![0] = Less(@)] IN
  IF r.sequence >= NumSeq THEN r
  ELSE IF r.gaitsequence = Walk
    THEN [r EXCEPT !.f = r.sequence, !.blending = walked, !.prevseqblending[0] = walked[0]]
    ELSE [r EXCEPT !.f = r.sequence]

\* HL_StudioProcessGait: sequences are brought into bounds, only the first blend is set.
HL_StudioProcessGait(r, b) ==
  [r EXCEPT !.sequence = IF @ >= NumSeq THEN 0 ELSE @,
            !.gaitsequence = IF @ >= NumSeq THEN 0 ELSE @,
            !.blending[0] = b[0], !.prevblending[0] = b[0], !.prevseqblending[0] = b[0]]

\* The outcomes: blends b computed, model loaded or not.
Outcome(r, b, model) ==
  IF game = "CS"
    THEN IF r.gaitsequence # 0 /\ model THEN CS_StudioProcessParams(CalculateBlends(r, b))
                                        ELSE CalculateBlends(r, b)
    ELSE IF r.gaitsequence # 0 /\ model THEN HL_StudioProcessGait(r, b) ELSE r

\* StartFramePost: both blends of the state are the entity's second one.
StateBlends(b) == [i \in 0..1 |-> b[1]]

\* StartFramePost: the record, and its working copy.  b stands for the blends of the entity
\* and for the computed ones: one blend is never both.
ProcessAnimParams(s, gait, b, model) ==
  /\ records < MaxRecords /\ records' = records + 1
  /\ \E d \in Tick : clock + d <= MaxClock /\ clock' = clock + d
  /\ anim' \in {anim, clock'}
  /\ rec' = Outcome(Latch(rec, s, gait, anim', StateBlends(b), clock'), b, model)
  /\ copy' = rec'
  /\ change' = IF s = change.to THEN change
               ELSE [from |-> change.to, to |-> s, at |-> anim', now |-> TRUE]
  /\ UNCHANGED game

\* A new level: time starts anew, and nothing clears the server's own view.
NewLevel ==
  /\ clock > 1
  /\ clock' = 1 /\ anim' = 1
  /\ change' = [change EXCEPT !.now = FALSE]
  /\ UNCHANGED <<game, records, rec, copy>>
=============================================================================
