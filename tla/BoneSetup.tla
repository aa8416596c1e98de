------------------------------ MODULE BoneSetup ------------------------------
(***************************************************************************)
(* How a player's bones are posed from the working copy: the set-ups       *)
(* CS_StudioSetupBones and HL_StudioSetupBones of src/animation.cpp, past  *)
(* their guards, on the records that AnimParams makes.                     *)
(*                                                                         *)
(* The pose of a bone is a term: an animation of a sequence at a frame     *)
(* (StudioCalcRotations), or two such poses mixed by a weight, a fraction  *)
(* of One (StudioSlerpBones).  The arrays of poses are static: a bone that *)
(* is not computed in a call keeps what another call left in it.           *)
(***************************************************************************)
EXTENDS AnimParams, SequencesExt

CONSTANTS
  Skeletons,   \* skeletons of models: parent (0 for none) and name of every bone
  Asked,       \* values of iBone, 0 for -1
  NumBlends,   \* pseqdesc->numblends, in each game
  WholeBody    \* CS sequences without legs of their own: deaths, swimming

ASSUME BoneAssumption ==
  /\ \A k \in Skeletons :
       /\ k.parent \in Seq(Nat) \ {<<>>} /\ Len(k.name) = Len(k.parent)
       /\ \A b \in DOMAIN k.parent : k.parent[b] < b
  /\ Asked \subseteq Nat
  /\ NumBlends \in [{"CS", "HL"} -> [0..(NumSeq - 1) -> 1..9]]
  /\ WholeBody \subseteq Nat

\* The skeleton of a player: the only spine hangs from the only pelvis, and whatever comes
\* after it hangs from the pelvis too, or from the limb that is being laid out.
Biped(k) ==
  \A s \in DOMAIN k.parent : k.name[s] = "spine" =>
    LET p == k.parent[s] IN
    /\ p # 0
    /\ \A b \in DOMAIN k.parent : (k.name[b] = "spine" => b = s) /\ (k.name[b] = "pelvis" <=> b = p)
    /\ \A b \in (s + 1)..Len(k.parent) :
         k.parent[b] # p =>
           k.parent[b] >= s /\ \A c \in (k.parent[b] + 1)..b : k.parent[c] # p

ASSUME BipedAssumption == \A k \in Skeletons : Biped(k)

VARIABLES
  bones,       \* pbones: the skeleton of the model
  pose,        \* pos, q: the pose of every bone when the call returns
  transform,   \* *g_pBoneTransform: the call it is of, and that of the parent's
  chain        \* of the last call, for the properties

vars == <<animVars, bones, pose, transform, chain>>

Bone == DOMAIN bones.parent
None == 0    \* no bone: parent -1, or iBone -1

Now  == "this call"
Past == "an earlier call"

-----------------------------------------------------------------------------
(* Poses.  X_Y is X with a slip Y, used by no action.                      *)

\* One: a weight of all of the second pose; fractions are brought to it.
One == 510
Weight(num, den) ==
  IF num <= 0 THEN 0 ELSE IF num >= den THEN One ELSE (num * One) \div den

GaitFrame == -2   \* gaitframe, as a frame of the gait sequence

Left == [left |-> Past]
Leaf(s, k, frame) == [sequence |-> s, anim |-> k, frame |-> frame]
Mix(p, r, w) == [first |-> p, second |-> r, weight |-> w]
Untouched == [b \in Bone |-> Left]

\* StudioCalcRotations into the array a, for the bones of the chain only.
CalcRotations(a, links, s, k, frame) ==
  [b \in Bone |-> IF b \in links THEN Leaf(s, k, frame) ELSE a[b]]
\* StudioSlerpBones, for every bone.
SlerpBones(a1, a2, w) == [b \in Bone |-> Mix(a1[b], a2[b], w)]

\* The chain of iBone in the order in which it is put together: all bones, or the parents
\* from the root down to iBone; an iBone out of bounds stands for the first bone.
Ancestors[b \in {None} \cup Bone] == IF b = None THEN <<>> ELSE Append(Ancestors[bones.parent[b]], b)
ChainOf_FromLeaf(iBone) ==
  Reverse(IF iBone = None THEN [b \in Bone |-> b]
          ELSE Ancestors[IF iBone \in Bone THEN iBone ELSE 1])
ChainOf(iBone) ==
  IF iBone = None THEN [b \in Bone |-> b]
  ELSE Ancestors[IF iBone \in Bone THEN iBone ELSE 1]

-----------------------------------------------------------------------------
(* CS_StudioSetupBones.                                                    *)

\* The four animations of the nine that are mixed, by whether each blend is past 127.
FourOf_Crossed(s, t) ==
  IF s <= 127 THEN IF t <= 127 THEN <<0, 1, 3, 4>> ELSE <<1, 2, 4, 5>>
              ELSE IF t <= 127 THEN <<3, 4, 6, 7>> ELSE <<4, 5, 7, 8>>
FourOf(s, t) ==
  IF s <= 127 THEN IF t <= 127 THEN <<0, 1, 3, 4>> ELSE <<3, 4, 6, 7>>
              ELSE IF t <= 127 THEN <<1, 2, 4, 5>> ELSE <<4, 5, 7, 8>>
Scale(s) == IF s <= 127 THEN Weight(2 * s, 255) ELSE Weight(2 * (s - 127), 255)

\* Four animations mixed in two rows and then together.
MixFour(a, links, sq, four, frame, s, t) ==
  LET calc(i) == CalcRotations(a, links, sq, four[i], frame)
  IN SlerpBones(SlerpBones(calc(1), calc(2), s), SlerpBones(calc(3), calc(4), s), t)

CS_Sequence(a, links, sq, frame, bl) ==
  IF NumBlends["CS"][sq] # 9
    THEN CalcRotations(a, links, sq, 0, frame)
    ELSE MixFour(a, links, sq, FourOf(bl[0], bl[1]), frame, Scale(bl[0]), Scale(bl[1]))

-----------------------------------------------------------------------------
(* HL_StudioSetupBones.                                                    *)

\* HL_StudioEstimateInterpolant, in tenths: how far from the previous blend to this one,
\* up to twice the way.
Interpolant == IF copy.dt >= 1 THEN (IF copy.dt > 20 THEN 20 ELSE copy.dt) ELSE 10
Between(b, prev) == Weight(b * Interpolant + prev * (10 - Interpolant), 2550)

\* One, two or four animations.
HL_Sequence(a, links, sq, frame, s, t) ==
  LET calc(k) == CalcRotations(a, links, sq, k, frame) IN
  IF NumBlends["HL"][sq] = 1 THEN calc(0)
  ELSE IF NumBlends["HL"][sq] # 4 THEN SlerpBones(calc(0), calc(1), s)
  ELSE MixFour(a, links, sq, <<0, 1, 2, 3>>, frame, s, t)

-----------------------------------------------------------------------------
(* Both.                                                                   *)

\* The sequence in bounds.
Bounded(s) == IF s >= NumSeq THEN 0 ELSE s

\* Whether the sequence is faded in over the previous one, and how much is left of that.
Fading ==
  /\ copy.sequencetime # 0
  /\ copy.sequencetime + 20 > copy.clTime
  /\ copy.prevsequence < NumSeq
FadeWeight == Weight(20 - (copy.clTime - copy.sequencetime), 20)

\* The sequence at its frame, and the previous one at prevframe.
Current(links) ==
  LET sq == Bounded(copy.sequence) IN
  IF game = "CS" THEN CS_Sequence(Untouched, links, sq, copy.f, copy.blending)
  ELSE HL_Sequence(Untouched, links, sq, sq, Between(copy.blending[0], copy.prevblending[0]),
                   Between(copy.blending[1], copy.prevblending[1]))
Previous(links) ==
  LET sq == copy.prevsequence
      bl == copy.prevseqblending
  IN IF game = "CS" THEN CS_Sequence(Untouched, links, sq, copy.prevframe, bl)
     ELSE HL_Sequence(Untouched, links, sq, copy.prevframe, Weight(bl[0], 255), Weight(bl[1], 255))

Faded(links) ==
  IF Fading THEN SlerpBones(Current(links), Previous(links), FadeWeight) ELSE Current(links)

\* Whether the legs come from the gait sequence.
CopiesGait ==
  IF game = "CS" THEN Bounded(copy.sequence) \notin WholeBody ELSE copy.gaitsequence # 0

\* The bones copied from the gait, going through the bones in order: all up to the spine,
\* and again from a bone that hangs from the pelvis.  (CS looks up the parent's name for
\* the root too, whose parent is -1; it is copied whatever is found there.)
Resumes(b) ==
  /\ bones.name[b] # "spine"
  /\ bones.parent[b] # None /\ bones.name[bones.parent[b]] = "pelvis"
OfGait(b) == \A s \in 1..b : bones.name[s] = "spine" => \E c \in s..b : Resumes(c)

Gait(links) == CalcRotations(Untouched, links, Bounded(copy.gaitsequence), 0, GaitFrame)
PoseOf(links) ==
  [b \in Bone |-> IF CopiesGait /\ OfGait(b) THEN Gait(links)[b] ELSE Faded(links)[b]]

\* The transforms are put together along the chain, each on that of its parent as it is by
\* then: of this call only if the parent comes earlier in the chain.
Aged == [b \in Bone |-> [transform[b] EXCEPT !.call = Past]]
Comes(order, p, b) ==
  \E i, j \in DOMAIN order : i < j /\ order[i] = p /\ order[j] = b
ConcatTransforms(order) ==
  [b \in Bone |->
     IF b \notin ToSet(order) THEN Aged[b]
     ELSE [call |-> Now,
           on   |-> IF bones.parent[b] = None \/ Comes(order, bones.parent[b], b)
                    THEN Now ELSE Past]]

\* The player is posed: and its working copy keeps the frame, unless the pose fades, and
\* a gait sequence in bounds.
SetupBones(iBone) ==
  LET order == ChainOf(iBone) IN
  /\ chain' = ToSet(order)
  /\ pose' = PoseOf(ToSet(order))
  /\ transform' = ConcatTransforms(order)
  /\ copy' = [copy EXCEPT !.prevframe = IF Fading THEN @
                                        ELSE IF game = "CS" THEN copy.f ELSE Bounded(copy.sequence),
                          !.gaitsequence = IF CopiesGait THEN Bounded(@) ELSE @]
  /\ UNCHANGED <<game, records, clock, anim, rec, change, bones>>

Idle ==
  /\ chain' = {}
  /\ pose' = Untouched
  /\ transform' = Aged
  /\ UNCHANGED bones

BoneInit ==
  /\ Init
  /\ bones \in Skeletons
  /\ pose = Untouched
  /\ transform = [b \in Bone |-> [call |-> Past, on |-> Past]]
  /\ chain = {}

Next ==
  \/ \E s \in Shown, gait \in Gaits, b \in Blend, model \in BOOLEAN :
       ProcessAnimParams(s, gait, b, model) /\ Idle
  \/ NewLevel /\ Idle
  \/ \E iBone \in Asked : SetupBones(iBone)

Spec == BoneInit /\ [][Next]_vars

-----------------------------------------------------------------------------
(* Properties.                                                             *)

\* A pair of blends as a point of the nine animations, three by three: the lower left one
\* of the four around it, and the weights towards the others.
Point(x) == IF x <= 127 THEN 2 * x ELSE 2 * x + 1
Cell(x)  == IF Point(x) < 255 THEN 0 ELSE 1
Rest(x)  == Weight(Point(x) - 255 * Cell(x), 255)

Square(sq, frame, corner, width, s, t) ==
  Mix(Mix(Leaf(sq, corner, frame), Leaf(sq, corner + 1, frame), s),
      Mix(Leaf(sq, corner + width, frame), Leaf(sq, corner + width + 1, frame), s), t)

\* The pose of one sequence.
Of(sq, frame, bl) ==
  LET n == NumBlends[game][sq] IN
  IF game = "CS"
    THEN IF n = 9 THEN Square(sq, frame, 3 * Cell(bl[1]) + Cell(bl[0]), 3, Rest(bl[0]), Rest(bl[1]))
                  ELSE Leaf(sq, 0, frame)
    ELSE IF n = 1 THEN Leaf(sq, 0, frame)
         ELSE IF n = 4 THEN Square(sq, frame, 0, 2, bl[0], bl[1])
         ELSE Mix(Leaf(sq, 0, frame), Leaf(sq, 1, frame), bl[0])

\* The spine and what hangs from it.
Torso(b) == \E k \in 1..Len(Ancestors[b]) : bones.name[Ancestors[b][k]] = "spine"

\* A bone as it should be posed: legs in the gait sequence, a torso in the sequence, which
\* the previous one fades out of.
Expected(b) ==
  LET blends == IF game = "CS" THEN copy.blending
                ELSE [i \in 0..1 |-> Between(copy.blending[i], copy.prevblending[i])]
      old    == IF game = "CS" THEN copy.prevseqblending
                ELSE [i \in 0..1 |-> Weight(copy.prevseqblending[i], 255)]
      sq     == Bounded(copy.sequence)
      body   == Of(sq, IF game = "CS" THEN copy.f ELSE sq, blends)
  IN
  IF CopiesGait /\ ~Torso(b) THEN Leaf(Bounded(copy.gaitsequence), 0, GaitFrame)
  ELSE IF Fading THEN Mix(body, Of(copy.prevsequence, copy.prevframe, old), FadeWeight)
  ELSE body

\* Whatever an earlier call has left in the static arrays, whichever chain is asked for
\* and on whichever side of the middle the blends are: every bone of the chain is posed
\* from this player's own animations, in the square of the nine around its blends, and
\* the gait goes to the legs and to nothing else.
PoseExact == [][\A b \in chain' : pose'[b] = Expected(b)]_vars

\* A bone's transform is put together in this call, on that of its parent in this call.
Composed == \A b \in chain : transform[b].call = Now /\ transform[b].on = Now

\* The sequences shown are sequences of the model.  One out of bounds is recorded by
\* HL_StudioProcessGait as sequence 0, so that the next record sees a change again.
InModel == game = "CS" \/ (change.from < NumSeq /\ change.to < NumSeq)

\* A sequence fades in for no longer than a fifth of a second after the player changed to
\* it, however often it is posed or recorded meanwhile: within a level, and in Half-Life
\* among sequences of the model.
FadeEnds == Fading /\ change.now /\ InModel => copy.clTime <= change.at + 20

\* Types of the variables.
TypeOK ==
  /\ game \in {"CS", "HL"}
  /\ records \in 0..MaxRecords
  /\ clock \in 1..MaxClock /\ anim \in 1..clock
  /\ \A r \in {rec, copy} :
       /\ {r.sequence, r.prevsequence, r.gaitsequence} \subseteq 0..NumSeq
       /\ {r.animtime, r.clTime} \subseteq 0..MaxClock
       /\ r.sequencetime \in 0..(MaxClock + 1)
       /\ {r.blending, r.prevblending, r.prevseqblending} \subseteq [0..1 -> 0..255]
       /\ {r.f, r.prevframe} \subseteq FrameOf
  /\ bones \in Skeletons
  /\ chain \subseteq Bone
  /\ DOMAIN pose = Bone
  /\ transform \in [Bone -> [call : {Now, Past}, on : {Now, Past}]]

\* main.cpp:838, "sequence has changed, hold the previous sequence info": while the change
\* of a sequence fades, it fades from the sequence that was shown before it.
HeldSequence ==
  Fading /\ change.now /\ InModel /\ change.from # Unseen => copy.prevsequence = change.from
=============================================================================
