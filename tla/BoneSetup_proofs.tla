--------------------------- MODULE BoneSetup_proofs ---------------------------
(***************************************************************************)
(* Proofs of TypeOK, FadeEnds, Composed and PoseExact, for all models,     *)
(* records, clocks and skeletons (PoseExact: of players, see Biped).       *)
(***************************************************************************)
EXTENDS BoneSetup, WellFoundedInduction, TLAPS

Pairs == [0..1 -> 0..255]
Seqs  == 0..NumSeq
Times == 0..MaxClock
Stamps == 0..(MaxClock + 1)
Records == [sequence : Seqs, prevsequence : Seqs, gaitsequence : Seqs,
            animtime : Times, clTime : Times, dt : Int, sequencetime : Stamps,
            blending : Pairs, prevblending : Pairs, prevseqblending : Pairs,
            f : FrameOf, prevframe : FrameOf]
Links == [call : {Now, Past}, on : {Now, Past}]

Types ==
  /\ game \in {"CS", "HL"}
  /\ records \in 0..MaxRecords
  /\ rec \in Records /\ copy \in Records
  /\ clock \in 1..MaxClock /\ anim \in 1..clock
  /\ change \in [from : Int, to : Int, at : Nat, now : BOOLEAN]

\* The bones: what is posed is a part of one skeleton.
Posed ==
  /\ bones \in Skeletons
  /\ chain \subseteq Bone
  /\ DOMAIN pose = Bone
  /\ transform \in [Bone -> Links]

\* The newest record has the sequence that was shown last, or 0 for one out of bounds; and
\* the sequence's time, in it and in the working copy, is not after the last change, until
\* time starts anew.
Timed ==
  /\ change.to = Unseen => rec.sequence = 0 /\ rec.sequencetime = 0
  /\ change.to # Unseen => rec.sequence = change.to \/ (game = "HL" /\ change.to >= NumSeq)
  /\ change.now /\ InModel => /\ rec.sequencetime <= change.at + 1
                            /\ copy.sequencetime <= change.at + 1

IInv == Types /\ Timed /\ Posed /\ Composed

-----------------------------------------------------------------------------
(* No outcome touches the sequence's time, and only HL_StudioProcessGait   *)
(* touches a sequence, one out of bounds.                                  *)

\* r keeps the sequence s, and its time at.
Keeps(r, s, at) ==
  /\ r.sequencetime = at
  /\ r.sequence = s \/ (game = "HL" /\ s >= NumSeq)

LEMMA SeqsAreFrames == Seqs \subseteq FrameOf /\ 0 \in Seqs /\ NoFrame \in FrameOf
  BY AnimAssumption DEF Seqs, FrameOf

LEMMA BoundedType == ASSUME NEW s \in Seqs PROVE Bounded(s) \in Seqs
  BY SeqsAreFrames DEF Bounded

LEMMA LatchType ==
  ASSUME NEW prev \in Records, NEW s \in Seqs, NEW gait \in Seqs, NEW at \in Times,
         NEW raw \in Pairs, NEW now \in Times
  PROVE  /\ Latch(prev, s, gait, at, raw, now) \in Records
         /\ Keeps(Latch(prev, s, gait, at, raw, now), s, SequenceTime(prev, s, at))
<1>1. SequenceTime(prev, s, at) \in Stamps
  <2>1. prev.sequencetime \in Stamps
    BY DEF Records
  <2>2. at + 1 \in Stamps
    BY AnimAssumption DEF Times, Stamps
  <2> QED
    BY <2>1, <2>2 DEF SequenceTime
<1>2. now - prev.clTime \in Int
  BY DEF Records, Times
<1> QED
  BY <1>1, <1>2 DEF Latch, Records, Keeps

LEMMA BlendsType ==
  ASSUME NEW r \in Records, NEW b \in Pairs
  PROVE  /\ CalculateBlends(r, b) \in Records
         /\ CalculateBlends(r, b).sequence = r.sequence
         /\ CalculateBlends(r, b).sequencetime = r.sequencetime
  BY DEF CalculateBlends, Records

LEMMA ParamsType ==
  ASSUME NEW r \in Records
  PROVE  /\ CS_StudioProcessParams(r) \in Records
         /\ CS_StudioProcessParams(r).sequence = r.sequence
         /\ CS_StudioProcessParams(r).sequencetime = r.sequencetime
<1> DEFINE walked == [r.blending EXCEPT ![0] = Less(@)]
           framed == [r EXCEPT !.f = r.sequence]
           all    == [r EXCEPT !.f = r.sequence, !.blending = walked, !.prevseqblending[0] = walked[0]]
<1>1. /\ r.sequence \in Seqs /\ r.sequence \in FrameOf
      /\ r.blending \in Pairs /\ r.prevseqblending \in Pairs
  BY SeqsAreFrames DEF Records
<1>2. walked \in Pairs
  <2>1. Less(r.blending[0]) \in 0..255
    BY <1>1 DEF Pairs, Less
  <2> QED
    BY <1>1, <2>1 DEF Pairs
<1>3. /\ framed \in Records
      /\ framed.sequence = r.sequence /\ framed.sequencetime = r.sequencetime
  BY <1>1 DEF Records
<1>4. /\ all \in Records
      /\ all.sequence = r.sequence /\ all.sequencetime = r.sequencetime
  <2> DEFINE w == walked[0]
             p == [r.prevseqblending EXCEPT ![0] = w]
  <2>1. w \in 0..255
    <3> HIDE DEF walked
    <3> QED
      BY <1>2 DEF Pairs
  <2> HIDE DEF w
  <2>2. p \in Pairs
    BY <1>1, <2>1 DEF Pairs
  <2> HIDE DEF walked
  <2>3. all = [r EXCEPT !.f = r.sequence, !.blending = walked, !.prevseqblending = p]
    BY <1>2 DEF w, Records
  <2> HIDE DEF p, all
  <2> QED
    BY <1>1, <1>2, <2>2, <2>3 DEF Records
<1>5. CS_StudioProcessParams(r) \in {r, framed, all}
  BY DEF CS_StudioProcessParams
<1> HIDE DEF framed, all
<1> QED
  BY <1>3, <1>4, <1>5

LEMMA GaitType ==
  ASSUME NEW r \in Records, NEW b \in Pairs
  PROVE  /\ HL_StudioProcessGait(r, b) \in Records
         /\ HL_StudioProcessGait(r, b).sequence = IF r.sequence >= NumSeq THEN 0 ELSE r.sequence
         /\ HL_StudioProcessGait(r, b).sequencetime = r.sequencetime
<1> DEFINE sq == IF r.sequence >= NumSeq THEN 0 ELSE r.sequence
           gt == IF r.gaitsequence >= NumSeq THEN 0 ELSE r.gaitsequence
           x  == [r.blending EXCEPT ![0] = b[0]]
           y  == [r.prevblending EXCEPT ![0] = b[0]]
           z  == [r.prevseqblending EXCEPT ![0] = b[0]]
<1>1. sq \in Seqs /\ gt \in Seqs /\ x \in Pairs /\ y \in Pairs /\ z \in Pairs
  <2>1. r.sequence \in Seqs /\ r.gaitsequence \in Seqs
    BY DEF Records
  <2>2. r.blending \in Pairs /\ r.prevblending \in Pairs /\ r.prevseqblending \in Pairs
    BY DEF Records
  <2>3. b[0] \in 0..255
    BY DEF Pairs
  <2>4. x \in Pairs /\ y \in Pairs /\ z \in Pairs
    BY <2>2, <2>3 DEF Pairs
  <2> QED
    BY <2>1, <2>4, SeqsAreFrames
<1>2. HL_StudioProcessGait(r, b) =
        [r EXCEPT !.sequence = sq, !.gaitsequence = gt, !.blending = x, !.prevblending = y,
                  !.prevseqblending = z]
  BY DEF HL_StudioProcessGait, Records
<1> HIDE DEF gt, x, y, z
<1>3. HL_StudioProcessGait(r, b).sequence = sq
  BY <1>1, <1>2 DEF Records
<1> HIDE DEF sq
<1>4. /\ HL_StudioProcessGait(r, b) \in Records
      /\ HL_StudioProcessGait(r, b).sequencetime = r.sequencetime
  BY <1>1, <1>2 DEF Records
<1> QED
  BY <1>3, <1>4 DEF sq

LEMMA OutcomeType ==
  ASSUME NEW r \in Records, NEW b \in Pairs, NEW model \in BOOLEAN, game \in {"CS", "HL"}
  PROVE  /\ Outcome(r, b, model) \in Records
         /\ Keeps(Outcome(r, b, model), r.sequence, r.sequencetime)
<1> DEFINE c == CalculateBlends(r, b)
<1>1. c \in Records /\ c.sequence = r.sequence /\ c.sequencetime = r.sequencetime
  BY BlendsType
<1>2. \/ Outcome(r, b, model) \in {r, c, CS_StudioProcessParams(c)}
      \/ Outcome(r, b, model) = HL_StudioProcessGait(r, b) /\ game # "CS"
  BY DEF Outcome
<1> HIDE DEF c
<1>3. /\ CS_StudioProcessParams(c) \in Records
      /\ CS_StudioProcessParams(c).sequence = c.sequence
      /\ CS_StudioProcessParams(c).sequencetime = c.sequencetime
      /\ HL_StudioProcessGait(r, b) \in Records
      /\ HL_StudioProcessGait(r, b).sequence = IF r.sequence >= NumSeq THEN 0 ELSE r.sequence
      /\ HL_StudioProcessGait(r, b).sequencetime = r.sequencetime
  BY <1>1, ParamsType, GaitType
<1> QED
  BY <1>1, <1>2, <1>3 DEF Keeps

-----------------------------------------------------------------------------
(* The steps.                                                              *)

LEMMA InitInv == BoneInit => IInv
<1> SUFFICES ASSUME BoneInit PROVE IInv
  OBVIOUS
<1>1. NoBlend \in Pairs
  BY DEF NoBlend, Pairs
<1>2. Zero \in Records
  <2>1. 0 \in Times /\ 0 \in Stamps /\ 0 \in Int
    BY AnimAssumption DEF Times, Stamps
  <2> QED
    BY <1>1, <2>1, SeqsAreFrames DEF Zero, Records
<1>3. Types /\ Timed
  BY <1>2, AnimAssumption DEF BoneInit, Init, Types, Timed, NoChange, Unseen, Zero
<1>4. Posed /\ Composed
  BY DEF BoneInit, Posed, Composed, Untouched, Links, Now, Past
<1> QED
  BY <1>3, <1>4 DEF IInv

LEMMA IdleKeeps ==
  ASSUME Posed, Idle
  PROVE  Posed' /\ Composed'
<1>1. bones' = bones /\ chain' = {} /\ pose' = Untouched /\ transform' = Aged
  BY DEF Idle
<1>2. Bone' = Bone
  BY <1>1 DEF Bone
<1>3. DOMAIN Untouched = Bone
  BY DEF Untouched
<1>4. Aged \in [Bone -> Links]
  <2> SUFFICES ASSUME NEW b \in Bone PROVE [transform[b] EXCEPT !.call = Past] \in Links
    BY DEF Aged
  <2>1. transform[b] \in Links
    BY DEF Posed
  <2> QED
    BY <2>1 DEF Links
<1> QED
  BY <1>1, <1>2, <1>3, <1>4 DEF Posed, Composed

LEMMA RecordKeeps ==
  ASSUME Types, Timed, NEW s \in Shown, NEW gait \in Gaits, NEW b \in Blend, NEW model \in BOOLEAN,
         ProcessAnimParams(s, gait, b, model)
  PROVE  Types' /\ Timed'
<1> DEFINE raw == StateBlends(b)
           new == Latch(rec, s, gait, anim', raw, clock')
<1>1. s \in Seqs /\ gait \in Seqs /\ b \in Pairs /\ raw \in Pairs
  BY AnimAssumption DEF Pairs, StateBlends, Seqs
<1>2. /\ clock' \in 1..MaxClock /\ anim' \in 1..clock'
      /\ clock' \in Times /\ anim' \in Times /\ anim' \in Nat
  BY AnimAssumption DEF ProcessAnimParams, Types, Times
<1>3. rec' = Outcome(new, b, model) /\ copy' = rec'
  BY DEF ProcessAnimParams
<1>4. rec \in Records
  BY DEF Types
<1>5. game' = game /\ records' \in 0..MaxRecords
  BY AnimAssumption DEF ProcessAnimParams, Types
<1> HIDE DEF raw
<1>6. new \in Records /\ Keeps(new, s, SequenceTime(rec, s, anim'))
  BY <1>1, <1>2, <1>4, LatchType
<1> HIDE DEF new
<1>7. rec' \in Records /\ Keeps(rec', s, SequenceTime(rec, s, anim'))
  <2>1. rec' \in Records /\ Keeps(rec', new.sequence, new.sequencetime)
    BY <1>1, <1>3, <1>6, OutcomeType DEF Types
  <2> QED
    BY <1>6, <2>1 DEF Keeps
<1>8. /\ rec'.sequence = s \/ (game = "HL" /\ s >= NumSeq)
      /\ s # rec.sequence => rec'.sequencetime = anim' + 1
      /\ s = rec.sequence => rec'.sequencetime = rec.sequencetime
      /\ copy'.sequencetime = rec'.sequencetime
  BY <1>3, <1>7 DEF Keeps, SequenceTime
<1>9. s \in Int /\ s # Unseen
  BY <1>1, AnimAssumption DEF Seqs, Unseen
<1>10. rec.sequencetime \in Int /\ change.at \in Int /\ anim' \in Int
  BY <1>2, <1>4, AnimAssumption DEF Records, Stamps, Types
<1>11. CASE s = change.to
  <2>1. change' = change
    BY <1>11 DEF ProcessAnimParams
  <2>2. Timed'
    <3>1. InModel' => InModel
      BY <1>5, <2>1 DEF InModel
    <3>2. change.now /\ InModel' => rec'.sequencetime <= change.at + 1
      <4> SUFFICES ASSUME change.now, InModel' PROVE rec'.sequencetime <= change.at + 1
        OBVIOUS
      <4>1. InModel /\ (game = "CS" \/ ~(change.to >= NumSeq))
        BY <1>5, <2>1, <3>1, AnimAssumption DEF InModel, Types
      <4>2. game \in {"CS", "HL"} /\ change.to # Unseen
        BY <1>9, <1>11 DEF Types
      <4>3. s = rec.sequence
        BY <1>11, <4>1, <4>2 DEF Timed
      <4>4. rec.sequencetime <= change.at + 1
        BY <4>1 DEF Timed
      <4> QED
        BY <1>8, <4>3, <4>4
    <3> QED
      BY <1>5, <1>8, <1>9, <1>11, <2>1, <3>2 DEF Timed
  <2> QED
    BY <1>2, <1>3, <1>5, <1>7, <2>1, <2>2 DEF Types
<1>12. CASE s # change.to
  <2>1. change' = [from |-> change.to, to |-> s, at |-> anim', now |-> TRUE]
    BY <1>12 DEF ProcessAnimParams
  <2>2. change' \in [from : Int, to : Int, at : Nat, now : BOOLEAN]
    BY <1>2, <1>9, <2>1 DEF Types
  <2>3. InModel' => rec'.sequencetime <= anim' + 1
    <3> SUFFICES ASSUME InModel' PROVE rec'.sequencetime <= anim' + 1
      OBVIOUS
    <3>1. CASE s # rec.sequence
      <4>1. rec'.sequencetime = anim' + 1
        BY <1>8, <3>1, Zenon
      <4>2. \A x \in Int : x + 1 <= x + 1
        OBVIOUS
      <4> QED
        BY <1>10, <4>1, <4>2, Zenon
    <3>2. CASE s = rec.sequence
      <4>1. change.to = Unseen
        <5>1. game = "CS" \/ change.to < NumSeq
          BY <1>5, <2>1 DEF InModel
        <5>2. game \in {"CS", "HL"} /\ change.to \in Int /\ NumSeq \in Int
          BY AnimAssumption DEF Types
        <5> QED
          BY <1>12, <3>2, <5>1, <5>2 DEF Timed
      <4> QED
        BY <1>2, <1>8, <3>2, <4>1 DEF Timed
    <3> QED
      BY <3>1, <3>2
  <2>4. Timed'
    BY <1>5, <1>8, <1>9, <2>1, <2>3 DEF Timed
  <2> QED
    BY <1>2, <1>3, <1>5, <1>7, <2>1, <2>2, <2>4 DEF Types
<1> QED
  BY <1>11, <1>12

LEMMA LevelKeeps == ASSUME Types, Timed, NewLevel PROVE Types' /\ Timed'
<1>1. /\ clock' = 1 /\ anim' = 1 /\ change' = [change EXCEPT !.now = FALSE]
      /\ rec' = rec /\ copy' = copy /\ game' = game /\ records' = records
  BY DEF NewLevel
<1>2. change' \in [from : Int, to : Int, at : Nat, now : BOOLEAN]
      /\ ~change'.now /\ change'.to = change.to
  BY <1>1 DEF Types
<1>3. Types'
  BY <1>1, <1>2, AnimAssumption DEF Types
<1>4. Timed'
  BY <1>1, <1>2 DEF Timed
<1> QED
  BY <1>3, <1>4

LEMMA SetupKeeps == ASSUME Types, Timed, NEW iBone, SetupBones(iBone) PROVE Types' /\ Timed'
<1> DEFINE kept == IF Fading THEN copy.prevframe
                   ELSE IF game = "CS" THEN copy.f ELSE Bounded(copy.sequence)
           gt   == IF CopiesGait THEN Bounded(copy.gaitsequence) ELSE copy.gaitsequence
<1>1. copy' = [copy EXCEPT !.prevframe = kept, !.gaitsequence = gt]
  BY DEF SetupBones, Types, Records
<1>2. copy \in Records
  BY DEF Types
<1>3. kept \in FrameOf /\ gt \in Seqs
  <2>1. /\ copy.sequence \in Seqs /\ copy.gaitsequence \in Seqs
        /\ copy.f \in FrameOf /\ copy.prevframe \in FrameOf
    BY <1>2 DEF Records
  <2>2. Bounded(copy.sequence) \in Seqs /\ Bounded(copy.gaitsequence) \in Seqs
    BY <2>1, BoundedType
  <2> QED
    BY <2>1, <2>2, SeqsAreFrames
<1> HIDE DEF kept, gt
<1>4. copy' \in Records /\ copy'.sequencetime = copy.sequencetime
  BY <1>1, <1>2, <1>3 DEF Records
<1>5. UNCHANGED <<rec, clock, anim, change, game, records>>
  BY DEF SetupBones
<1>6. InModel' = InModel
  BY <1>5 DEF InModel
<1> QED
  BY <1>4, <1>5, <1>6 DEF Types, Timed

-----------------------------------------------------------------------------
(* Chains of bones.                                                        *)

LEMMA LeastOf ==
  ASSUME NEW S \in SUBSET Nat, S # {}
  PROVE  \E x \in S : \A y \in S : x <= y
<1> DEFINE R == OpToRel(<, Nat)
<1>1. PICK x \in S : \A y \in S : ~ (<<y, x>> \in R)
  <2>1. IsWellFoundedOn(R, Nat)
    BY NatLessThanWellFounded
  <2> QED
    BY <2>1, WFMin
<1>2. ASSUME NEW y \in S PROVE <<y, x>> \in R <=> y < x
  <2>1. R = {ss \in Nat \X Nat : ss[1] < ss[2]}
    BY Zenon DEF OpToRel
  <2> QED
    BY <2>1
<1> HIDE DEF R
<1>3. ASSUME NEW y \in S PROVE x <= y
  <2>1. ~ (y < x)
    BY <1>1, <1>2, Zenon
  <2> QED
    BY <2>1
<1> QED
  BY <1>3

NumBones == Len(bones.parent)

LEMMA Skeleton ==
  ASSUME bones \in Skeletons
  PROVE  /\ NumBones \in Nat \ {0} /\ Bone = 1..NumBones
         /\ \A b \in Bone : bones.parent[b] \in {None} \cup Bone /\ bones.parent[b] < b
<1>1. /\ bones.parent \in Seq(Nat) /\ bones.parent # <<>>
      /\ \A b \in DOMAIN bones.parent : bones.parent[b] < b
  BY BoneAssumption
<1>2. NumBones \in Nat /\ Bone = 1..NumBones /\ NumBones # 0
  BY <1>1 DEF NumBones, Bone
<1>3. ASSUME NEW b \in Bone PROVE bones.parent[b] \in {None} \cup Bone /\ bones.parent[b] < b
  <2>1. bones.parent[b] \in Nat /\ bones.parent[b] < b
    BY <1>1 DEF Bone
  <2> QED
    BY <1>2, <2>1 DEF None
<1> QED
  BY <1>2, <1>3

\* What the bones up to the n-th have for ancestors.
Chains(g, n) ==
  /\ g \in [0..n -> Seq(Bone)]
  /\ \A b \in 0..n : g[b] = IF b = None THEN <<>> ELSE Append(g[bones.parent[b]], b)

\* The way from a bone to the root ends: a parent comes before its children.
LEMMA ChainsExist == ASSUME bones \in Skeletons PROVE \E g : Chains(g, NumBones)
<1> DEFINE Bad == {n \in 0..NumBones : ~ \E g : Chains(g, n)}
<1>0. NumBones \in Nat /\ Bone = 1..NumBones
  BY Skeleton
<1>1. SUFFICES ASSUME Bad # {} PROVE FALSE
  <2>1. NumBones \in 0..NumBones
    BY <1>0
  <2> QED
    BY <2>1
<1>2. PICK n \in Bad : \A m \in Bad : n <= m
  <2>1. Bad \in SUBSET Nat
    BY <1>0
  <2> HIDE DEF Bad
  <2> QED
    BY <1>1, <2>1, LeastOf
<1>3. n \in 0..NumBones /\ ~ \E g : Chains(g, n)
  OBVIOUS
<1>4. CASE n = 0
  <2> DEFINE h == [b \in 0..0 |-> <<>>]
  <2>1. Chains(h, 0)
    BY DEF Chains, None
  <2> QED
    BY <1>3, <1>4, <2>1
<1>5. CASE n # 0
  <2>1. n - 1 \in 0..NumBones /\ ~ (n <= n - 1) /\ n \in Bone /\ n \in Nat
    BY <1>0, <1>3, <1>5
  <2>2. PICK g : Chains(g, n - 1)
    <3>1. n - 1 \notin Bad
      BY <1>2, <2>1
    <3> QED
      BY <2>1, <3>1
  <2> HIDE DEF Bad
  <2> DEFINE p == bones.parent[n]
             h == [b \in 0..n |-> IF b = n THEN Append(g[p], n) ELSE g[b]]
  <2>3. p \in 0..(n - 1) /\ p # n
    BY <1>0, <2>1, Skeleton DEF None
  <2>4. g \in [0..(n - 1) -> Seq(Bone)]
    BY <2>2 DEF Chains
  <2>5. g[p] \in Seq(Bone)
    BY <2>3, <2>4
  <2>6. Append(g[p], n) \in Seq(Bone)
    BY <2>1, <2>5
  <2>7. h \in [0..n -> Seq(Bone)]
    <3> SUFFICES ASSUME NEW b \in 0..n
                 PROVE  (IF b = n THEN Append(g[p], n) ELSE g[b]) \in Seq(Bone)
      OBVIOUS
    <3>1. CASE b = n
      BY <2>6, <3>1
    <3>2. CASE b # n
      <4>1. b \in 0..(n - 1)
        BY <2>1, <3>2
      <4> QED
        BY <2>4, <3>2, <4>1
    <3> QED
      BY <3>1, <3>2
  <2>8. ASSUME NEW b \in 0..n
        PROVE  h[b] = IF b = None THEN <<>> ELSE Append(h[bones.parent[b]], b)
    <3>1. CASE b = n
      <4>1. p \in 0..n /\ h[p] = g[p]
        BY <2>1, <2>3
      <4>2. h[n] = Append(g[p], n) /\ n # None
        BY <2>1, <1>5 DEF None
      <4> QED
        BY <3>1, <4>1, <4>2
    <3>2. CASE b # n
      <4>1. b \in 0..(n - 1) /\ h[b] = g[b]
        BY <2>1, <3>2
      <4>2. g[b] = IF b = None THEN <<>> ELSE Append(g[bones.parent[b]], b)
        BY <2>2, <4>1 DEF Chains
      <4>3. CASE b = None
        BY <4>1, <4>2, <4>3
      <4>4. CASE b # None
        <5>1. b \in Bone
          BY <1>0, <1>3, <4>1, <4>4 DEF None
        <5>2. bones.parent[b] \in 0..n /\ bones.parent[b] # n
          BY <1>0, <5>1, <2>1, <4>1, Skeleton DEF None
        <5>3. h[bones.parent[b]] = g[bones.parent[b]]
          BY <5>2
        <5> QED
          BY <4>1, <4>2, <4>4, <5>3
      <4> QED
        BY <4>3, <4>4
    <3> QED
      BY <3>1, <3>2
  <2> HIDE DEF h
  <2>9. Chains(h, n)
    BY <2>7, <2>8 DEF Chains
  <2> QED
    BY <1>3, <2>9
<1> QED
  BY <1>4, <1>5

LEMMA AncestorsAre == ASSUME bones \in Skeletons PROVE Chains(Ancestors, NumBones)
<1> DEFINE F(g) == [b \in {None} \cup Bone |-> IF b = None THEN <<>> ELSE Append(g[bones.parent[b]], b)]
<1>1. {None} \cup Bone = 0..NumBones
  BY Skeleton DEF None
<1>2. PICK g : Chains(g, NumBones)
  BY ChainsExist
<1>3. g = F(g)
  BY <1>1, <1>2 DEF Chains
<1>4. Ancestors = CHOOSE h : h = F(h)
  BY Zenon DEF Ancestors
<1> HIDE DEF F
<1>5. Ancestors = F(Ancestors)
  BY <1>3, <1>4, Zenon
<1> DEFINE A == Ancestors
<1> HIDE DEF A
<1>6. A = F(A)
  BY <1>5 DEF A
<1>7. /\ A = [b \in 0..NumBones |-> A[b]]
      /\ \A b \in 0..NumBones : A[b] = IF b = None THEN <<>> ELSE Append(A[bones.parent[b]], b)
  BY <1>1, <1>6, Zenon DEF F
<1> DEFINE Bad == {n \in 0..NumBones : A[n] \notin Seq(Bone)}
<1>8. CASE Bad = {}
  <2>1. \A b \in 0..NumBones : A[b] \in Seq(Bone)
    BY <1>8
  <2>2. A \in [0..NumBones -> Seq(Bone)]
    BY <1>7, <2>1
  <2> QED
    BY <1>7, <2>2 DEF Chains, A
<1>9. CASE Bad # {}
  <2>1. PICK n \in Bad : \A m \in Bad : n <= m
    <3>1. Bad \in SUBSET Nat
      BY Skeleton
    <3> HIDE DEF Bad
    <3> QED
      BY <1>9, <3>1, LeastOf
  <2>2. n \in 0..NumBones /\ A[n] \notin Seq(Bone)
    OBVIOUS
  <2>3. n # None
    <3>1. <<>> \in Seq(Bone)
      OBVIOUS
    <3> QED
      BY <2>2, <3>1, <1>7, Zenon
  <2>4. n \in Bone
    BY <2>2, <2>3, <1>1
  <2>5. bones.parent[n] \in 0..NumBones /\ ~ (n <= bones.parent[n])
    BY <2>4, <1>1, Skeleton DEF None
  <2>6. A[bones.parent[n]] \in Seq(Bone)
    BY <2>1, <2>5
  <2>7. A[n] = Append(A[bones.parent[n]], n)
    BY <1>7, <2>2, <2>3
  <2> QED
    BY <2>2, <2>4, <2>6, <2>7
<1> QED
  BY <1>8, <1>9

\* A chain is one of bones, every one a root or after its parent.
Linked(order) ==
  /\ order \in Seq(Bone)
  /\ \A j \in 1..Len(order) :
       \/ bones.parent[order[j]] = None
       \/ \E i \in 1..Len(order) : i < j /\ order[i] = bones.parent[order[j]]

LEMMA AncestorsLinked ==
  ASSUME bones \in Skeletons, NEW b \in Bone
  PROVE  Linked(Ancestors[b])
<1> DEFINE A == Ancestors
           Good(x) == Linked(A[x]) /\ Len(A[x]) > 0 /\ A[x][Len(A[x])] = x
           Bad == {x \in Bone : ~ Good(x)}
<1>1. Chains(A, NumBones)
  BY AncestorsAre
<1>2. NumBones \in Nat /\ Bone = 1..NumBones
  BY Skeleton
<1> HIDE DEF A
<1>3. SUFFICES ASSUME Bad # {} PROVE FALSE
  BY DEF A
<1>4. PICK x \in Bad : \A y \in Bad : x <= y
  <2>1. Bad \in SUBSET Nat
    BY <1>2
  <2> HIDE DEF Bad
  <2> QED
    BY <1>3, <2>1, LeastOf
<1>5. x \in Bone /\ ~ Good(x)
  OBVIOUS
<1> DEFINE p == bones.parent[x]
           t == A[p]
           s == A[x]
<1>6. p \in {None} \cup Bone /\ p < x
  BY <1>5, Skeleton
<1>7. s = Append(t, x) /\ t \in Seq(Bone) /\ s \in Seq(Bone)
  <2>1. x \in 0..NumBones /\ x # None /\ p \in 0..NumBones
    BY <1>2, <1>5, <1>6 DEF None
  <2> QED
    BY <1>1, <2>1 DEF Chains
<1>8. p = None => t = <<>>
  BY <1>1, <1>2 DEF Chains, None
<1>9. p # None => Good(p)
  <2>1. SUFFICES ASSUME p # None PROVE Good(p)
    OBVIOUS
  <2>2. p \in Bone /\ ~ (x <= p)
    BY <1>2, <1>5, <1>6, <2>1
  <2>3. p \notin Bad
    BY <1>4, <2>2
  <2> QED
    BY <2>2, <2>3
<1> HIDE DEF Bad
<1>10. p # None => Linked(t) /\ Len(t) > 0 /\ t[Len(t)] = p
  BY <1>9
<1> HIDE DEF t, s
<1>11. /\ Len(t) \in Nat /\ Len(s) = Len(t) + 1 /\ s[Len(s)] = x
       /\ \A i \in 1..Len(t) : s[i] = t[i]
  BY <1>7
<1>12. ASSUME NEW j \in 1..Len(s)
       PROVE  \/ bones.parent[s[j]] = None
              \/ \E i \in 1..Len(s) : i < j /\ s[i] = bones.parent[s[j]]
  <2>1. CASE j = Len(s)
    <3>1. CASE p = None
      BY <1>11, <2>1, <3>1
    <3>2. CASE p # None
      <4>1. /\ Len(t) \in 1..Len(s) /\ Len(t) < j /\ Len(t) \in 1..Len(t)
            /\ s[Len(t)] = p
        BY <1>10, <1>11, <2>1, <3>2
      <4> QED
        BY <4>1, <1>11, <2>1
    <3> QED
      BY <3>1, <3>2
  <2>2. CASE j # Len(s)
    <3>1. j \in 1..Len(t) /\ s[j] = t[j]
      BY <1>11, <2>2
    <3>2. p # None
      BY <1>8, <3>1
    <3>3. \/ bones.parent[t[j]] = None
          \/ \E i \in 1..Len(t) : i < j /\ t[i] = bones.parent[t[j]]
      BY <1>10, <3>1, <3>2 DEF Linked
    <3>4. CASE bones.parent[t[j]] = None
      BY <3>1, <3>4
    <3>5. ASSUME NEW i \in 1..Len(t), i < j, t[i] = bones.parent[t[j]]
          PROVE  i \in 1..Len(s) /\ i < j /\ s[i] = bones.parent[s[j]]
      BY <3>1, <3>5, <1>11
    <3> QED
      BY <3>3, <3>4, <3>5
  <2> QED
    BY <2>1, <2>2
<1>13. Good(x)
  BY <1>7, <1>11, <1>12 DEF Linked, s
<1> QED
  BY <1>5, <1>13

LEMMA ChainLinked ==
  ASSUME bones \in Skeletons, NEW iBone
  PROVE  Linked(ChainOf(iBone))
<1>1. NumBones \in Nat \ {0} /\ Bone = 1..NumBones
  BY Skeleton
<1>2. CASE iBone = None
  <2> DEFINE all == [b \in Bone |-> b]
  <2>1. ChainOf(iBone) = all
    BY <1>2 DEF ChainOf
  <2>2. all \in Seq(Bone) /\ Len(all) = NumBones /\ \A b \in Bone : all[b] = b
    BY <1>1
  <2> HIDE DEF all
  <2>3. ASSUME NEW j \in 1..Len(all)
        PROVE  \/ bones.parent[all[j]] = None
               \/ \E i \in 1..Len(all) : i < j /\ all[i] = bones.parent[all[j]]
    BY <1>1, <2>2, Skeleton
  <2> QED
    BY <2>1, <2>2, <2>3 DEF Linked
<1>3. CASE iBone # None
  <2> DEFINE c == IF iBone \in Bone THEN iBone ELSE 1
  <2>1. c \in Bone
    BY <1>1
  <2>2. ChainOf(iBone) = Ancestors[c]
    BY <1>3 DEF ChainOf
  <2> HIDE DEF c
  <2> QED
    BY <2>1, <2>2, AncestorsLinked
<1> QED
  BY <1>2, <1>3

\* Putting the transforms together along such a chain reads none that another call left.
LEMMA Composes ==
  ASSUME Posed, NEW iBone, SetupBones(iBone)
  PROVE  Posed' /\ Composed'
<1> DEFINE order == ChainOf(iBone)
           t == ConcatTransforms(order)
<1>1. /\ bones' = bones /\ chain' = ToSet(order) /\ transform' = t
      /\ pose' = PoseOf(ToSet(order))
  BY DEF SetupBones
<1>2. Bone' = Bone
  BY <1>1 DEF Bone
<1>3. bones \in Skeletons /\ Linked(order)
  BY ChainLinked DEF Posed
<1> HIDE DEF order
<1>4. order \in Seq(Bone) /\ ToSet(order) \subseteq Bone
  BY <1>3 DEF Linked, ToSet
<1>5. DOMAIN PoseOf(ToSet(order)) = Bone
  BY DEF PoseOf
<1>6. t \in [Bone -> Links]
  <2> SUFFICES ASSUME NEW b \in Bone PROVE t[b] \in Links
    BY DEF ConcatTransforms
  <2>1. transform[b] \in Links
    BY DEF Posed
  <2>2. [transform[b] EXCEPT !.call = Past] \in Links
    BY <2>1 DEF Links
  <2> QED
    BY <2>2 DEF ConcatTransforms, Aged, Links
<1>7. ASSUME NEW b \in ToSet(order) PROVE t[b].call = Now /\ t[b].on = Now
  <2>1. PICK j \in 1..Len(order) : b = order[j]
    BY <1>4 DEF ToSet
  <2>2. bones.parent[b] = None \/ Comes(order, bones.parent[b], b)
    BY <1>3, <2>1 DEF Linked, Comes
  <2>3. b \in Bone
    BY <1>4
  <2> QED
    BY <2>2, <2>3 DEF ConcatTransforms
<1> HIDE DEF t
<1> QED
  BY <1>1, <1>2, <1>3, <1>4, <1>5, <1>6, <1>7 DEF Posed, Composed

LEMMA Inductive == Spec => []IInv
<1>1. BoneInit => IInv
  BY InitInv
<1>2. IInv /\ [Next]_vars => IInv'
  <2> SUFFICES ASSUME IInv, [Next]_vars PROVE IInv'
    OBVIOUS
  <2>1. ASSUME NEW s \in Shown, NEW gait \in Gaits, NEW b \in Blend, NEW model \in BOOLEAN,
               ProcessAnimParams(s, gait, b, model), Idle
        PROVE  IInv'
    BY <2>1, RecordKeeps, IdleKeeps DEF IInv
  <2>2. CASE NewLevel /\ Idle
    BY <2>2, LevelKeeps, IdleKeeps DEF IInv
  <2>3. ASSUME NEW iBone \in Asked, SetupBones(iBone) PROVE IInv'
    BY <2>3, SetupKeeps, Composes DEF IInv
  <2>4. CASE UNCHANGED vars
    <3>1. Types' /\ Timed'
      BY <2>4 DEF vars, animVars, IInv, Types, Timed, InModel
    <3>2. Posed' /\ Composed'
      BY <2>4 DEF vars, IInv, Posed, Composed, Bone
    <3> QED
      BY <3>1, <3>2 DEF IInv
  <2> QED
    BY <2>1, <2>2, <2>3, <2>4 DEF Next
<1> QED
  BY <1>1, <1>2, PTL DEF Spec

\* The variables of the set-up keep their types, the latched records' among them.
THEOREM Typed == Spec => []TypeOK
<1>1. IInv => TypeOK
  <2> SUFFICES ASSUME IInv PROVE TypeOK
    OBVIOUS
  <2>1. ASSUME NEW r \in {rec, copy}
        PROVE  /\ {r.sequence, r.prevsequence, r.gaitsequence} \subseteq 0..NumSeq
               /\ {r.animtime, r.clTime} \subseteq 0..MaxClock
               /\ r.sequencetime \in 0..(MaxClock + 1)
               /\ {r.blending, r.prevblending, r.prevseqblending} \subseteq [0..1 -> 0..255]
               /\ {r.f, r.prevframe} \subseteq FrameOf
    <3>1. r \in Records
      BY DEF IInv, Types
    <3>2. /\ r.sequence \in Seqs /\ r.prevsequence \in Seqs /\ r.gaitsequence \in Seqs
          /\ r.animtime \in Times /\ r.clTime \in Times /\ r.sequencetime \in Stamps
          /\ r.blending \in Pairs /\ r.prevblending \in Pairs /\ r.prevseqblending \in Pairs
          /\ r.f \in FrameOf /\ r.prevframe \in FrameOf
      BY <3>1 DEF Records
    <3> QED
      BY <3>2 DEF Seqs, Times, Stamps, Pairs
  <2> QED
    BY <2>1 DEF TypeOK, IInv, Types, Posed, Links
<1> QED
  BY <1>1, Inductive, PTL

\* The loop that ends CS_ and HL_StudioSetupBones puts the transform of every bone of the
\* chain on one of this call, whatever other calls left in the array: for every skeleton
\* whose bones come after their parents, and every bone asked for.
THEOREM ComposedHolds == Spec => []Composed
<1>1. IInv => Composed
  BY DEF IInv
<1> QED
  BY <1>1, Inductive, PTL

\* The fade of HL_ and CS_StudioSetupBones ends a fifth of a second after the player changed
\* its sequence, however often it is recorded and posed, for every model and clock (in
\* Half-Life among sequences of the model, see InModel).
THEOREM FadesEnd == Spec => []FadeEnds
<1>1. IInv => FadeEnds
  <2> SUFFICES ASSUME IInv, Fading, change.now, InModel PROVE copy.clTime <= change.at + 20
    BY DEF FadeEnds
  <2>1. copy.sequencetime <= change.at + 1 /\ copy.sequencetime + 20 > copy.clTime
    BY DEF IInv, Timed, Fading
  <2>2. change.at \in Int /\ copy.clTime \in Int /\ copy.sequencetime \in Int
    <3>1. copy.clTime \in Times /\ copy.sequencetime \in Stamps
      BY DEF IInv, Types, Records
    <3> QED
      BY <3>1 DEF IInv, Types, Times, Stamps
  <2> QED
    BY <2>1, <2>2
<1> QED
  BY <1>1, Inductive, PTL

-----------------------------------------------------------------------------
(* The poses.                                                              *)

\* A bone is of the torso if it is the spine or hangs from one of the torso.
LEMMA TorsoStep ==
  ASSUME bones \in Skeletons, NEW b \in Bone
  PROVE  Torso(b) <=> \/ bones.name[b] = "spine"
                      \/ bones.parent[b] # None /\ Torso(bones.parent[b])
<1> DEFINE A == Ancestors
           p == bones.parent[b]
           t == A[p]
           s == A[b]
           Spine(x) == bones.name[x] = "spine"
<1>1. Chains(A, NumBones)
  BY AncestorsAre
<1>2. p \in {None} \cup Bone /\ NumBones \in Nat /\ Bone = 1..NumBones
  BY Skeleton
<1> HIDE DEF A
<1>3. s = Append(t, b) /\ t \in Seq(Bone)
  <2>1. b \in 0..NumBones /\ b # None /\ p \in 0..NumBones
    BY <1>2 DEF None
  <2> QED
    BY <1>1, <2>1 DEF Chains
<1>4. p = None => t = <<>>
  BY <1>1, <1>2 DEF Chains, None
<1>5. /\ Torso(b) <=> \E k \in 1..Len(s) : Spine(s[k])
      /\ Torso(p) <=> \E k \in 1..Len(t) : Spine(t[k])
  BY DEF Torso, A
<1> HIDE DEF t, s, Spine
<1>6. /\ Len(t) \in Nat /\ Len(s) = Len(t) + 1 /\ s[Len(s)] = b
      /\ \A k \in 1..Len(t) : s[k] = t[k]
  BY <1>3
<1>7. (\E k \in 1..Len(s) : Spine(s[k])) <=> Spine(b) \/ \E k \in 1..Len(t) : Spine(t[k])
  <2>1. ASSUME NEW k \in 1..Len(s), Spine(s[k])
        PROVE  Spine(b) \/ \E i \in 1..Len(t) : Spine(t[i])
    <3>1. k = Len(s) \/ k \in 1..Len(t)
      BY <1>6
    <3> QED
      BY <3>1, <2>1, <1>6
  <2>2. ASSUME Spine(b) PROVE \E k \in 1..Len(s) : Spine(s[k])
    <3>1. Len(s) \in 1..Len(s)
      BY <1>6
    <3> QED
      BY <3>1, <2>2, <1>6
  <2>3. ASSUME NEW k \in 1..Len(t), Spine(t[k]) PROVE \E i \in 1..Len(s) : Spine(s[i])
    <3>1. k \in 1..Len(s)
      BY <1>6
    <3> QED
      BY <3>1, <2>3, <1>6
  <2> QED
    BY <2>1, <2>2, <2>3
<1>8. p = None => ~ \E k \in 1..Len(t) : Spine(t[k])
  BY <1>4
<1> QED
  BY <1>5, <1>7, <1>8 DEF Spine

\* In the skeleton of a player what goes through the bones in order finds the legs: the
\* gait goes to all bones but the torso.
LEMMA LegsAreOfGait ==
  ASSUME bones \in Skeletons, NEW b0 \in Bone
  PROVE  OfGait(b0) <=> ~ Torso(b0)
<1> DEFINE Bad == {b \in Bone : ~ (OfGait(b) <=> ~ Torso(b))}
<1>1. NumBones \in Nat \ {0} /\ Bone = 1..NumBones
  BY Skeleton
<1>2. SUFFICES ASSUME Bad # {} PROVE FALSE
  OBVIOUS
<1>3. PICK b \in Bad : \A y \in Bad : b <= y
  <2>1. Bad \in SUBSET Nat
    BY <1>1
  <2> HIDE DEF Bad
  <2> QED
    BY <1>2, <2>1, LeastOf
<1>4. b \in Bone /\ ~ (OfGait(b) <=> ~ Torso(b))
  OBVIOUS
<1>5. \A y \in Bone : y < b => (OfGait(y) <=> ~ Torso(y))
  <2> SUFFICES ASSUME NEW y \in Bone, y < b PROVE OfGait(y) <=> ~ Torso(y)
    OBVIOUS
  <2>1. ~ (b <= y)
    BY <1>1, <1>4
  <2>2. y \notin Bad
    BY <1>3, <2>1
  <2> QED
    BY <2>2
<1> HIDE DEF Bad
<1> DEFINE q == bones.parent[b]
<1>6. q \in {None} \cup Bone /\ q < b /\ b \in Int /\ q \in Int
  BY <1>1, <1>4, Skeleton DEF None
<1>7. Torso(b) <=> bones.name[b] = "spine" \/ (q # None /\ Torso(q))
  BY <1>4, TorsoStep
<1>8. CASE \A s \in 1..b : bones.name[s] # "spine"
  <2>1. OfGait(b) /\ bones.name[b] # "spine"
    BY <1>6, <1>8, <1>1, <1>4 DEF OfGait
  <2>2. ASSUME q # None PROVE ~ Torso(q)
    <3>1. q \in Bone /\ q < b
      BY <1>6, <2>2
    <3>2. OfGait(q)
      BY <1>1, <1>6, <1>8, <3>1 DEF OfGait
    <3> QED
      BY <1>5, <3>1, <3>2
  <2> QED
    BY <1>4, <1>7, <2>1, <2>2
<1>9. ASSUME NEW s \in 1..b, bones.name[s] = "spine"
      PROVE  FALSE
  <2> DEFINE p == bones.parent[s]
  <2>1. s \in Bone /\ s \in DOMAIN bones.parent /\ DOMAIN bones.parent = Bone
    BY <1>1, <1>4 DEF Bone
  <2>2. Biped(bones)
    BY BipedAssumption
  <2>3. /\ \A c \in Bone : (bones.name[c] = "spine" => c = s) /\ (bones.name[c] = "pelvis" <=> c = p)
        /\ \A c \in (s + 1)..NumBones :
             bones.parent[c] # p =>
               bones.parent[c] >= s /\ \A d \in (bones.parent[c] + 1)..c : bones.parent[d] # p
    BY <2>1, <2>2, <1>9 DEF Biped, NumBones
  <2>4. p \in {None} \cup Bone /\ p < s /\ s \in Int /\ p \in Int /\ s <= b
    BY <1>1, <1>6, <2>1, Skeleton DEF None
  <2>5. p # None
    BY <2>1, <2>2, <1>9 DEF Biped, None
  <2>6. CASE b = s
    <3>1. Torso(b)
      BY <1>7, <1>9, <2>6
    <3>2. ~ OfGait(b)
      <4>1. ~ \E c \in s..b : Resumes(c)
        BY <2>4, <2>6, <1>9 DEF Resumes
      <4> QED
        BY <4>1, <1>9 DEF OfGait
    <3> QED
      BY <1>4, <3>1, <3>2
  <2>7. CASE b # s /\ q = p
    <3>1. bones.name[b] # "spine"
      BY <1>4, <2>3, <2>7
    <3>2. ~ Torso(b)
      <4>1. SUFFICES ASSUME Torso(p) PROVE FALSE
        BY <1>7, <2>7, <3>1
      <4>2. p \in Bone /\ p < b
        BY <2>4, <2>5, <1>6
      <4>3. OfGait(p)
        <5> SUFFICES ASSUME NEW x \in 1..p, bones.name[x] = "spine" PROVE FALSE
          BY DEF OfGait
        <5>1. x \in Bone /\ x # s
          BY <1>1, <2>4, <4>2
        <5> QED
          BY <2>3, <5>1
      <4> QED
        BY <1>5, <4>1, <4>2, <4>3
    <3>3. OfGait(b)
      <4>1. p \in Bone /\ bones.name[p] = "pelvis"
        BY <2>3, <2>4, <2>5
      <4>2. Resumes(b)
        BY <3>1, <4>1, <2>7, <2>5 DEF Resumes
      <4> QED
        BY <4>2, <1>6 DEF OfGait
    <3> QED
      BY <1>4, <3>2, <3>3
  <2>8. CASE b # s /\ q # p
    <3>1. b \in (s + 1)..NumBones
      BY <1>1, <1>4, <2>4, <2>8
    <3>2. q >= s /\ \A d \in (q + 1)..b : bones.parent[d] # p
      BY <2>3, <2>8, <3>1
    <3>3. q \in Bone /\ q < b /\ q # None
      BY <1>6, <2>4, <2>1, <1>1, <3>2 DEF None
    <3>4. bones.name[b] # "spine"
      BY <1>4, <2>3, <2>8
    <3>5. ASSUME NEW d \in (q + 1)..b PROVE ~ Resumes(d)
      <4>1. d \in Bone
        BY <1>1, <1>4, <3>3
      <4>2. bones.parent[d] # p /\ bones.parent[d] \in {None} \cup Bone
        BY <3>2, <4>1, Skeleton
      <4> QED
        BY <4>2, <2>3 DEF Resumes
    <3>6. OfGait(b) <=> OfGait(q)
      <4>1. ASSUME NEW x \in 1..b, bones.name[x] = "spine" PROVE x = s /\ x \in 1..q
        <5>1. x \in Bone
          BY <1>1, <1>4
        <5>2. x = s
          BY <2>3, <4>1, <5>1
        <5> QED
          BY <5>2, <1>6, <3>2
      <4>2. OfGait(b) <=> \E c \in s..b : Resumes(c)
        BY <1>9, <4>1 DEF OfGait
      <4>3. s \in 1..q /\ \A x \in 1..q : x \in 1..b
        BY <1>6, <3>2, <3>3
      <4>4. OfGait(q) <=> \E c \in s..q : Resumes(c)
        BY <1>9, <4>1, <4>3 DEF OfGait
      <4>5. \A c \in s..b : c \in s..q \/ c \in (q + 1)..b
        BY <1>6, <2>4
      <4>6. \A c \in s..q : c \in s..b
        BY <1>6, <2>4
      <4> QED
        BY <4>2, <4>4, <4>5, <4>6, <3>5
    <3> QED
      BY <1>4, <1>5, <1>7, <3>3, <3>4, <3>6
  <2> QED
    BY <2>6, <2>7, <2>8
<1> QED
  BY <1>8, <1>9

\* The four animations that are mixed are the corners of the square around the blends.
LEMMA SquareOfFour ==
  ASSUME NEW links, NEW b \in links, links \subseteq Bone, NEW sq, NEW frame, NEW bl \in Pairs
  PROVE  MixFour(Untouched, links, sq, FourOf(bl[0], bl[1]), frame, Scale(bl[0]), Scale(bl[1]))[b]
         = Square(sq, frame, 3 * Cell(bl[1]) + Cell(bl[0]), 3, Rest(bl[0]), Rest(bl[1]))
<1> DEFINE s == bl[0]
           t == bl[1]
           four == FourOf(s, t)
           corner == 3 * Cell(t) + Cell(s)
<1>1. s \in 0..255 /\ t \in 0..255 /\ b \in Bone
  BY DEF Pairs
<1> HIDE DEF s, t
<1>2. ASSUME NEW x \in 0..255 PROVE Scale(x) = Rest(x) /\ Cell(x) = IF x <= 127 THEN 0 ELSE 1
  <2>1. CASE x <= 127
    <3>1. Point(x) = 2 * x /\ Cell(x) = 0
      BY <2>1 DEF Point, Cell
    <3>2. Point(x) - 255 * Cell(x) = 2 * x
      BY <3>1
    <3> QED
      BY <2>1, <3>1, <3>2 DEF Scale, Rest
  <2>2. CASE ~ (x <= 127)
    <3>1. Point(x) = 2 * x + 1 /\ Cell(x) = 1
      BY <2>2 DEF Point, Cell
    <3>2. Point(x) - 255 * Cell(x) = 2 * (x - 127)
      BY <3>1
    <3> QED
      BY <2>2, <3>1, <3>2 DEF Scale, Rest
  <2> QED
    BY <2>1, <2>2
<1>3. four = <<corner, corner + 1, corner + 3, corner + 3 + 1>>
  <2>1. /\ Cell(s) = IF s <= 127 THEN 0 ELSE 1
        /\ Cell(t) = IF t <= 127 THEN 0 ELSE 1
    BY <1>1, <1>2
  <2> QED
    BY <2>1 DEF FourOf
<1>4. Scale(s) = Rest(s) /\ Scale(t) = Rest(t)
  BY <1>1, <1>2
<1> HIDE DEF four, corner
<1>5. MixFour(Untouched, links, sq, four, frame, Rest(s), Rest(t))[b]
      = Mix(Mix(Leaf(sq, four[1], frame), Leaf(sq, four[2], frame), Rest(s)),
            Mix(Leaf(sq, four[3], frame), Leaf(sq, four[4], frame), Rest(s)), Rest(t))
  BY <1>1 DEF MixFour, SlerpBones, CalcRotations
<1>6. four[1] = corner /\ four[2] = corner + 1 /\ four[3] = corner + 3 /\ four[4] = corner + 3 + 1
  BY <1>3
<1> QED
  BY <1>4, <1>5, <1>6 DEF Square, s, t, four, corner

\* A sequence as it is posed, in both games.
LEMMA PoseOfSequence ==
  ASSUME NEW links, NEW b \in links, links \subseteq Bone, NEW sq, NEW frame, NEW bl \in Pairs,
         game = "CS"
  PROVE  CS_Sequence(Untouched, links, sq, frame, bl)[b] = Of(sq, frame, bl)
<1>1. b \in Bone
  OBVIOUS
<1>2. CASE NumBlends["CS"][sq] = 9
  BY <1>2, SquareOfFour DEF CS_Sequence, Of
<1>3. CASE NumBlends["CS"][sq] # 9
  BY <1>1, <1>3 DEF CS_Sequence, CalcRotations, Of
<1> QED
  BY <1>2, <1>3

LEMMA HL_PoseOfSequence ==
  ASSUME NEW links, NEW b \in links, links \subseteq Bone, NEW sq, NEW frame, NEW bl,
         game = "HL"
  PROVE  HL_Sequence(Untouched, links, sq, frame, bl[0], bl[1])[b] = Of(sq, frame, bl)
<1>1. b \in Bone
  OBVIOUS
<1>2. NumBlends[game][sq] = NumBlends["HL"][sq] /\ game # "CS"
  OBVIOUS
<1> DEFINE n == NumBlends["HL"][sq]
           four == <<0, 1, 2, 3>>
<1> HIDE DEF n
<1>3. CASE n = 1
  <2>1. HL_Sequence(Untouched, links, sq, frame, bl[0], bl[1])[b] = Leaf(sq, 0, frame)
    BY <1>1, <1>3 DEF HL_Sequence, CalcRotations, n
  <2> QED
    BY <2>1, <1>2, <1>3 DEF Of, n
<1>4. CASE n # 1 /\ n # 4
  <2>1. HL_Sequence(Untouched, links, sq, frame, bl[0], bl[1])[b]
          = Mix(Leaf(sq, 0, frame), Leaf(sq, 1, frame), bl[0])
    BY <1>1, <1>4 DEF HL_Sequence, CalcRotations, SlerpBones, n
  <2> QED
    BY <2>1, <1>2, <1>4 DEF Of, n
<1>5. CASE n = 4
  <2>1. HL_Sequence(Untouched, links, sq, frame, bl[0], bl[1])[b]
          = Mix(Mix(Leaf(sq, 0, frame), Leaf(sq, 1, frame), bl[0]),
                Mix(Leaf(sq, 2, frame), Leaf(sq, 3, frame), bl[0]), bl[1])
    BY <1>1, <1>5 DEF HL_Sequence, MixFour, CalcRotations, SlerpBones, n
  <2>2. Square(sq, frame, 0, 2, bl[0], bl[1])
          = Mix(Mix(Leaf(sq, 0, frame), Leaf(sq, 1, frame), bl[0]),
                Mix(Leaf(sq, 2, frame), Leaf(sq, 3, frame), bl[0]), bl[1])
    BY DEF Square
  <2> QED
    BY <2>1, <2>2, <1>2, <1>5 DEF Of, n
<1> QED
  BY <1>3, <1>4, <1>5

\* What the set-up writes for a bone of the chain is what is expected of it.
LEMMA PosesExactly ==
  ASSUME IInv, NEW links, links \subseteq Bone, NEW b \in links
  PROVE  PoseOf(links)[b] = Expected(b)
<1> DEFINE blends == IF game = "CS" THEN copy.blending
                     ELSE [i \in 0..1 |-> Between(copy.blending[i], copy.prevblending[i])]
           old    == IF game = "CS" THEN copy.prevseqblending
                     ELSE [i \in 0..1 |-> Weight(copy.prevseqblending[i], 255)]
           sq     == Bounded(copy.sequence)
           body   == Of(sq, IF game = "CS" THEN copy.f ELSE sq, blends)
           before == Of(copy.prevsequence, copy.prevframe, old)
<1>1. /\ game \in {"CS", "HL"} /\ bones \in Skeletons /\ b \in Bone
      /\ copy.blending \in Pairs /\ copy.prevblending \in Pairs /\ copy.prevseqblending \in Pairs
  BY DEF IInv, Types, Posed, Records
<1>2. OfGait(b) <=> ~ Torso(b)
  BY <1>1, LegsAreOfGait
<1>3. Current(links)[b] = body
  <2>1. CASE game = "CS"
    BY <1>1, <2>1, PoseOfSequence DEF Current
  <2>2. CASE game = "HL"
    <3>1. /\ blends[0] = Between(copy.blending[0], copy.prevblending[0])
          /\ blends[1] = Between(copy.blending[1], copy.prevblending[1])
      BY <2>2
    <3>2. body = Of(sq, sq, blends)
      BY <2>2
    <3> HIDE DEF blends, sq, body
    <3>3. HL_Sequence(Untouched, links, sq, sq, blends[0], blends[1])[b] = Of(sq, sq, blends)
      BY <2>2, HL_PoseOfSequence
    <3> QED
      BY <2>2, <3>1, <3>2, <3>3 DEF Current, sq
  <2> QED
    BY <1>1, <2>1, <2>2
<1>4. Previous(links)[b] = before
  <2>1. CASE game = "CS"
    BY <1>1, <2>1, PoseOfSequence DEF Previous
  <2>2. CASE game = "HL"
    <3>1. /\ old[0] = Weight(copy.prevseqblending[0], 255)
          /\ old[1] = Weight(copy.prevseqblending[1], 255)
      BY <2>2
    <3> HIDE DEF old
    <3>2. HL_Sequence(Untouched, links, copy.prevsequence, copy.prevframe, old[0], old[1])[b] = before
      BY <2>2, HL_PoseOfSequence
    <3> QED
      BY <2>2, <3>1, <3>2 DEF Previous
  <2> QED
    BY <1>1, <2>1, <2>2
<1>5. Expected(b) = IF CopiesGait /\ ~Torso(b) THEN Leaf(Bounded(copy.gaitsequence), 0, GaitFrame)
                    ELSE IF Fading THEN Mix(body, before, FadeWeight)
                    ELSE body
  BY Zenon DEF Expected
<1> HIDE DEF body, before
<1>6. Faded(links)[b] = IF Fading THEN Mix(body, before, FadeWeight) ELSE body
  BY <1>1, <1>3, <1>4 DEF Faded, SlerpBones
<1>7. Gait(links)[b] = Leaf(Bounded(copy.gaitsequence), 0, GaitFrame)
  BY <1>1 DEF Gait, CalcRotations
<1>8. PoseOf(links)[b] = IF CopiesGait /\ OfGait(b) THEN Gait(links)[b] ELSE Faded(links)[b]
  BY <1>1 DEF PoseOf
<1> QED
  BY <1>2, <1>5, <1>6, <1>7, <1>8

\* CS_ and HL_StudioSetupBones pose every bone of the chain from this player's own records,
\* legs in the gait and torso in the sequence, whatever the static arrays held: for every
\* set of models, of blends and of bones asked for.
THEOREM PoseExactHolds == Spec => PoseExact
<1>1. ASSUME IInv, [Next]_vars
      PROVE  [\A b \in chain' : pose'[b] = Expected(b)]_vars
  <2>1. CASE Idle
    BY <2>1 DEF Idle
  <2>2. ASSUME NEW iBone \in Asked, SetupBones(iBone)
        PROVE  \A b \in chain' : pose'[b] = Expected(b)
    <3> DEFINE links == ToSet(ChainOf(iBone))
    <3>1. chain' = links /\ pose' = PoseOf(links)
      BY <2>2 DEF SetupBones
    <3>2. links \subseteq Bone
      <4>1. Linked(ChainOf(iBone))
        BY <1>1, ChainLinked DEF IInv, Posed
      <4> QED
        BY <4>1 DEF Linked, ToSet
    <3> HIDE DEF links
    <3> QED
      BY <1>1, <3>1, <3>2, PosesExactly
  <2>3. CASE UNCHANGED vars
    BY <2>3
  <2> QED
    BY <1>1, <2>1, <2>2, <2>3 DEF Next
<1> QED
  BY <1>1, Inductive, PTL DEF Spec, PoseExact
=============================================================================
