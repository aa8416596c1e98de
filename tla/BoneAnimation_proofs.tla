------------------------- MODULE BoneAnimation_proofs -------------------------
(***************************************************************************)
(* Proofs of TypeOK, FrameInData, AngleExact and PositionExact, for all    *)
(* sequences whose words are laid out in spans, and all frames and times.  *)
(***************************************************************************)
EXTENDS BoneAnimation, WellFoundedInduction, TLAPS

Sequence == [numframes : Nat \ {0}, looping : BOOLEAN, words : Seq(Int)]

-----------------------------------------------------------------------------
(* The two recursions, from the last word down to the first.               *)

LEMMA LeastOf ==
  ASSUME NEW S \in SUBSET Nat, S # {}
  PROVE  \E x \in S : \A y \in S : x <= y
<1> DEFINE R == OpToRel(<, Nat)
<1>1. PICK x \in S : \A y \in S : ~ (<<y, x>> \in R)
  <2>1. IsWellFoundedOn(R, Nat)
    BY NatLessThanWellFounded
  <2> QED
    BY <2>1, WFMin
<1>2. ASSUME NEW y \in S PROVE <<y, x>> \in R <=> y < x
  <2>1. R = {ss \in Nat \X Nat : ss[1] < ss[2]}
    BY Zenon DEF OpToRel
  <2> QED
    BY <2>1
<1> HIDE DEF R
<1>3. ASSUME NEW y \in S PROVE x <= y
  <2>1. ~ (y < x)
    BY <1>1, <1>2, Zenon
  <2> QED
    BY <2>1
<1> QED
  BY <1>3

LEMMA WordType ==
  ASSUME NEW a \in Sequence, NEW p \in Nat
  PROVE  Word(a, p) \in Int /\ Valid(a, p) \in 0..255 /\ Total(a, p) \in Int
<1>1. Word(a, p) \in Int
  BY AnimationAssumption DEF Word, Sequence
<1> DEFINE w == Word(a, p)
<1> HIDE DEF w
<1>2. w \in Int
  BY <1>1 DEF w
<1>3. w % 256 \in 0..255 /\ w \div 256 \in Int
  BY <1>2
<1>4. Valid(a, p) \in 0..255 /\ Total(a, p) \in Int
  BY <1>3 DEF Valid, Total, w
<1> QED
  BY <1>1, <1>4

LEMMA FollowingType ==
  ASSUME NEW a \in Sequence, NEW p \in Nat
  PROVE  Following(a, p) \in Nat /\ Following(a, p) > p
<1>1. Valid(a, p) \in 0..255
  BY WordType
<1> QED
  BY <1>1 DEF Following

\* One step of the search for a span, and where it stops.
Stops(a, here) == here.head >= Len(a.words) \/ Total(a, here.head) > here.k
Step(a, here) == Within(a, Following(a, here.head), here.k - Total(a, here.head))

LEMMA StepType ==
  ASSUME NEW a \in Sequence, NEW here \in Place, ~ Stops(a, here)
  PROVE  Step(a, here) \in Place /\ Step(a, here).head > here.head
<1> DEFINE p == here.head
           q == Following(a, p)
           k == here.k - Total(a, p)
<1>1. p \in Nat /\ here.k \in Nat
  BY DEF Place
<1>2. q \in Nat /\ q > p /\ Total(a, p) \in Int
  <2>1. q \in Nat /\ q > p
    BY <1>1, FollowingType, Zenon
  <2> QED
    BY <1>1, <2>1, WordType
<1>3. k \in Nat
  BY <1>1, <1>2 DEF Stops
<1> HIDE DEF q, k
<1> QED
  BY <1>2, <1>3 DEF Step, Within, Place, q, k

\* g is the search from the last n words on.
Searches(a, g, n) ==
  \A here \in Place :
    here.head + n >= Len(a.words) =>
      g[here] = IF Stops(a, here) THEN here ELSE g[Step(a, here)]

LEMMA SearchExists == ASSUME NEW a \in Sequence PROVE \E g : Searches(a, g, Len(a.words))
<1> DEFINE L == Len(a.words)
           Bad == {n \in 0..L : ~ \E g : Searches(a, g, n)}
<1>0. L \in Nat
  BY DEF Sequence
<1> HIDE DEF L
<1>1. SUFFICES ASSUME Bad # {} PROVE FALSE
  <2>1. L \in 0..L
    BY <1>0
  <2> QED
    BY <2>1 DEF L
<1>2. PICK n \in Bad : \A m \in Bad : n <= m
  <2>1. Bad \in SUBSET Nat
    BY <1>0
  <2> HIDE DEF Bad
  <2> QED
    BY <1>1, <2>1, LeastOf
<1>3. n \in 0..L /\ ~ \E g : Searches(a, g, n)
  OBVIOUS
<1>4. CASE n = 0
  <2> DEFINE h == [here \in Place |-> here]
  <2>1. ASSUME NEW here \in Place, here.head + 0 >= Len(a.words)
        PROVE  h[here] = IF Stops(a, here) THEN here ELSE h[Step(a, here)]
    <3>1. here.head \in Nat
      BY DEF Place
    <3>2. Stops(a, here)
      BY <1>0, <2>1, <3>1 DEF Stops, L
    <3> QED
      BY <3>2
  <2>2. Searches(a, h, 0)
    BY <2>1 DEF Searches
  <2> QED
    BY <1>3, <1>4, <2>2
<1>5. CASE n # 0
  <2>1. n - 1 \in 0..L /\ ~ (n <= n - 1) /\ n \in Nat
    BY <1>0, <1>3, <1>5
  <2>2. PICK g : Searches(a, g, n - 1)
    <3>1. n - 1 \notin Bad
      BY <1>2, <2>1
    <3> QED
      BY <2>1, <3>1
  <2> HIDE DEF Bad
  <2> DEFINE Near(here) == here.head + (n - 1) >= L
             h == [here \in Place |-> IF Near(here) THEN g[here]
                                      ELSE IF Stops(a, here) THEN here ELSE g[Step(a, here)]]
  <2>3. ASSUME NEW here \in Place, here.head + n >= L, ~ Stops(a, here)
        PROVE  h[Step(a, here)] = g[Step(a, here)]
    <3>1. Step(a, here) \in Place /\ Step(a, here).head > here.head
      BY <2>3, StepType
    <3>2. here.head \in Nat /\ Step(a, here).head \in Nat
      BY <3>1 DEF Place
    <3>3. Near(Step(a, here))
      BY <1>0, <2>1, <2>3, <3>1, <3>2
    <3> HIDE DEF Near
    <3> QED
      BY <3>1, <3>3
  <2>4. ASSUME NEW here \in Place, here.head + n >= L
        PROVE  h[here] = IF Stops(a, here) THEN here ELSE h[Step(a, here)]
    <3>1. CASE Near(here)
      <4>1. h[here] = g[here]
        BY <3>1
      <4>2. g[here] = IF Stops(a, here) THEN here ELSE g[Step(a, here)]
        BY <2>2, <3>1 DEF Searches, L
      <4> QED
        BY <4>1, <4>2, <2>3, <2>4
    <3>2. CASE ~ Near(here)
      <4>1. h[here] = IF Stops(a, here) THEN here ELSE g[Step(a, here)]
        BY <3>2
      <4> QED
        BY <4>1, <2>3, <2>4
    <3> QED
      BY <3>1, <3>2
  <2> HIDE DEF h
  <2>5. Searches(a, h, n)
    BY <2>4 DEF Searches, L
  <2> QED
    BY <1>3, <2>5
<1> QED
  BY <1>4, <1>5

LEMMA SpanIs ==
  ASSUME NEW a \in Sequence, NEW here \in Place
  PROVE  Span(a)[here] = IF Stops(a, here) THEN here ELSE Span(a)[Step(a, here)]
<1> DEFINE F(g) ==
      [x \in Place |->
         IF x.head >= Len(a.words) \/ Total(a, x.head) > x.k THEN x
         ELSE g[Within(a, Following(a, x.head), x.k - Total(a, x.head))]]
<1>1. PICK g : Searches(a, g, Len(a.words))
  BY SearchExists
<1>2. Len(a.words) \in Nat
  BY DEF Sequence
<1> DEFINE G == [x \in Place |-> g[x]]
<1>3. ASSUME NEW x \in Place
      PROVE  G[x] = IF Stops(a, x) THEN x ELSE G[Step(a, x)]
  <2>1. x.head \in Nat
    BY DEF Place
  <2>2. x.head + Len(a.words) >= Len(a.words)
    BY <1>2, <2>1
  <2>3. g[x] = IF Stops(a, x) THEN x ELSE g[Step(a, x)]
    BY <1>1, <2>2 DEF Searches
  <2>4. ~ Stops(a, x) => Step(a, x) \in Place
    BY StepType
  <2> QED
    BY <2>3, <2>4
<1>4. G = F(G)
  <2>1. F(G) = [x \in Place |-> IF Stops(a, x) THEN x ELSE G[Step(a, x)]]
    BY Zenon DEF Stops, Step
  <2>2. G = [x \in Place |-> G[x]]
    OBVIOUS
  <2> HIDE DEF G, F
  <2> QED
    BY <1>3, <2>1, <2>2
<1>5. Span(a) = CHOOSE h : h = F(h)
  BY Zenon DEF Span
<1> HIDE DEF F, G
<1>6. Span(a) = F(Span(a))
  BY <1>4, <1>5, Zenon
<1> DEFINE S == Span(a)
<1> HIDE DEF S
<1>7. S = F(S)
  BY <1>6 DEF S
<1>8. S[here] = IF Stops(a, here) THEN here ELSE S[Step(a, here)]
  BY <1>7, Zenon DEF F, Stops, Step
<1> QED
  BY <1>8 DEF S

\* The values of one span, and g: those of all spans of the last n words.
Values(a, p) == [i \in 1..Total(a, p) |-> Word(a, p + IF i < Valid(a, p) THEN i ELSE Valid(a, p))]
Decodes(a, g, n) ==
  \A p \in Nat :
    p + n >= Len(a.words) =>
      g[p] = IF p >= Len(a.words) THEN <<>> ELSE Values(a, p) \o g[Following(a, p)]

LEMMA DecodingExists == ASSUME NEW a \in Sequence PROVE \E g : Decodes(a, g, Len(a.words))
<1> DEFINE L == Len(a.words)
           Bad == {n \in 0..L : ~ \E g : Decodes(a, g, n)}
<1>0. L \in Nat
  BY DEF Sequence
<1> HIDE DEF L
<1>1. SUFFICES ASSUME Bad # {} PROVE FALSE
  <2>1. L \in 0..L
    BY <1>0
  <2> QED
    BY <2>1 DEF L
<1>2. PICK n \in Bad : \A m \in Bad : n <= m
  <2>1. Bad \in SUBSET Nat
    BY <1>0
  <2> HIDE DEF Bad
  <2> QED
    BY <1>1, <2>1, LeastOf
<1>3. n \in 0..L /\ ~ \E g : Decodes(a, g, n)
  OBVIOUS
<1>4. CASE n = 0
  <2> DEFINE h == [p \in Nat |-> <<>>]
  <2>1. ASSUME NEW p \in Nat, p + 0 >= Len(a.words)
        PROVE  h[p] = IF p >= Len(a.words) THEN <<>> ELSE Values(a, p) \o h[Following(a, p)]
    BY <1>0, <2>1 DEF L
  <2>2. Decodes(a, h, 0)
    BY <2>1 DEF Decodes
  <2> QED
    BY <1>3, <1>4, <2>2
<1>5. CASE n # 0
  <2>1. n - 1 \in 0..L /\ ~ (n <= n - 1) /\ n \in Nat
    BY <1>0, <1>3, <1>5
  <2>2. PICK g : Decodes(a, g, n - 1)
    <3>1. n - 1 \notin Bad
      BY <1>2, <2>1
    <3> QED
      BY <2>1, <3>1
  <2> HIDE DEF Bad
  <2> DEFINE Near(p) == p + (n - 1) >= L
             h == [p \in Nat |-> IF Near(p) THEN g[p]
                                 ELSE IF p >= L THEN <<>> ELSE Values(a, p) \o g[Following(a, p)]]
  <2>3. ASSUME NEW p \in Nat, p + n >= L
        PROVE  h[Following(a, p)] = g[Following(a, p)]
    <3>1. Following(a, p) \in Nat /\ Following(a, p) > p
      BY FollowingType, Zenon
    <3>2. Near(Following(a, p))
      BY <1>0, <2>1, <2>3, <3>1
    <3> HIDE DEF Near
    <3> QED
      BY <3>1, <3>2
  <2>4. ASSUME NEW p \in Nat, p + n >= L
        PROVE  h[p] = IF p >= L THEN <<>> ELSE Values(a, p) \o h[Following(a, p)]
    <3>1. CASE Near(p)
      <4>1. h[p] = g[p]
        BY <3>1
      <4>2. g[p] = IF p >= L THEN <<>> ELSE Values(a, p) \o g[Following(a, p)]
        BY <2>2, <3>1 DEF Decodes, L
      <4> QED
        BY <4>1, <4>2, <2>3, <2>4
    <3>2. CASE ~ Near(p)
      <4>1. h[p] = IF p >= L THEN <<>> ELSE Values(a, p) \o g[Following(a, p)]
        BY <3>2
      <4> QED
        BY <4>1, <2>3, <2>4
    <3> QED
      BY <3>1, <3>2
  <2> HIDE DEF h
  <2>5. Decodes(a, h, n)
    BY <2>4 DEF Decodes, L
  <2> QED
    BY <1>3, <2>5
<1> QED
  BY <1>4, <1>5

LEMMA DecodedIs ==
  ASSUME NEW a \in Sequence, NEW p \in Nat
  PROVE  Decoded(a)[p] = IF p >= Len(a.words) THEN <<>>
                         ELSE Values(a, p) \o Decoded(a)[Following(a, p)]
<1> DEFINE F(g) ==
      [x \in Nat |->
         IF x >= Len(a.words) THEN <<>>
         ELSE [i \in 1..Total(a, x) |-> Word(a, x + IF i < Valid(a, x) THEN i ELSE Valid(a, x))]
                \o g[Following(a, x)]]
<1>1. PICK g : Decodes(a, g, Len(a.words))
  BY DecodingExists
<1>2. Len(a.words) \in Nat
  BY DEF Sequence
<1> DEFINE G == [x \in Nat |-> g[x]]
<1>3. ASSUME NEW x \in Nat
      PROVE  G[x] = IF x >= Len(a.words) THEN <<>> ELSE Values(a, x) \o G[Following(a, x)]
  <2>1. x + Len(a.words) >= Len(a.words)
    BY <1>2
  <2>2. g[x] = IF x >= Len(a.words) THEN <<>> ELSE Values(a, x) \o g[Following(a, x)]
    BY <1>1, <2>1 DEF Decodes
  <2>3. Following(a, x) \in Nat
    BY FollowingType, Zenon
  <2> QED
    BY <2>2, <2>3
<1>4. G = F(G)
  <2>1. F(G) = [x \in Nat |-> IF x >= Len(a.words) THEN <<>> ELSE Values(a, x) \o G[Following(a, x)]]
    BY Zenon DEF Values
  <2>2. G = [x \in Nat |-> G[x]]
    OBVIOUS
  <2> HIDE DEF G, F
  <2> QED
    BY <1>3, <2>1, <2>2
<1>5. Decoded(a) = CHOOSE h : h = F(h)
  BY Zenon DEF Decoded
<1> HIDE DEF F, G
<1>6. Decoded(a) = F(Decoded(a))
  BY <1>4, <1>5, Zenon
<1> DEFINE S == Decoded(a)
<1> HIDE DEF S
<1>7. S = F(S)
  BY <1>6 DEF S
<1>8. S[p] = IF p >= Len(a.words) THEN <<>> ELSE Values(a, p) \o S[Following(a, p)]
  BY <1>7, Zenon DEF F, Values
<1> QED
  BY <1>8 DEF S

LEMMA DecodedType ==
  ASSUME NEW a \in Sequence, NEW p0 \in Nat
  PROVE  Decoded(a)[p0] \in Seq(Int)
<1> DEFINE L == Len(a.words)
           Bad == {n \in Nat : \E p \in Nat : p + n >= L /\ Decoded(a)[p] \notin Seq(Int)}
<1>0. L \in Nat
  BY DEF Sequence
<1> HIDE DEF L
<1>1. CASE Bad = {}
  <2>1. L \notin Bad /\ p0 + L >= L
    <3> HIDE DEF Bad
    <3> QED
      BY <1>0, <1>1
  <2> QED
    BY <1>0, <2>1, Zenon
<1>2. CASE Bad # {}
  <2>1. PICK n \in Bad : \A m \in Bad : n <= m
    <3>1. Bad \in SUBSET Nat
      OBVIOUS
    <3> HIDE DEF Bad
    <3> QED
      BY <1>2, <3>1, LeastOf
  <2>2. n \in Nat
    OBVIOUS
  <2>3. PICK p \in Nat : p + n >= L /\ Decoded(a)[p] \notin Seq(Int)
    OBVIOUS
  <2> HIDE DEF Bad
  <2>4. <<>> \in Seq(Int)
    OBVIOUS
  <2>5. p < L /\ Decoded(a)[p] = Values(a, p) \o Decoded(a)[Following(a, p)]
    <3>1. Decoded(a)[p] = IF p >= L THEN <<>> ELSE Values(a, p) \o Decoded(a)[Following(a, p)]
      BY DecodedIs, Zenon DEF L
    <3>2. ~ (p >= L)
      BY <3>1, <2>3, <2>4, Zenon
    <3> QED
      BY <1>0, <3>1, <3>2
  <2>6. Following(a, p) \in Nat /\ Following(a, p) > p /\ n # 0
    <3>1. Following(a, p) \in Nat /\ Following(a, p) > p
      BY FollowingType, Zenon
    <3> QED
      BY <1>0, <2>2, <2>3, <2>5, <3>1
  <2>7. n - 1 \notin Bad /\ n - 1 \in Nat /\ Following(a, p) + (n - 1) >= L
    <3>1. ~ (n <= n - 1) /\ n - 1 \in Nat
      BY <2>2, <2>6
    <3> QED
      BY <1>0, <2>1, <2>2, <2>3, <2>6, <3>1
  <2>8. Decoded(a)[Following(a, p)] \in Seq(Int)
    BY <2>6, <2>7, Zenon DEF Bad
  <2>9. Values(a, p) \in Seq(Int)
    <3>1. ASSUME NEW i \in 1..Total(a, p)
          PROVE  Word(a, p + IF i < Valid(a, p) THEN i ELSE Valid(a, p)) \in Int
      <4> DEFINE j == IF i < Valid(a, p) THEN i ELSE Valid(a, p)
      <4>2. Valid(a, p) \in 0..255 /\ Total(a, p) \in Int
        BY WordType, Zenon
      <4>3. j \in Nat
        BY <4>2
      <4> HIDE DEF j
      <4>1. p + j \in Nat
        BY <4>3
      <4> USE DEF j
      <4> QED
        BY <4>1, WordType
    <3>2. Values(a, p) \in [1..Total(a, p) -> Int] /\ Total(a, p) \in Int
      BY <3>1, WordType DEF Values
    <3>3. CASE Total(a, p) \in Nat
      BY <3>2, <3>3
    <3>4. CASE Total(a, p) < 0
      <4>1. Values(a, p) \in [1..0 -> Int]
        BY <3>2, <3>4
      <4> QED
        BY <4>1
    <3> QED
      BY <3>2, <3>3, <3>4
  <2> QED
    BY <2>3, <2>5, <2>8, <2>9
<1> QED
  BY <1>1, <1>2

-----------------------------------------------------------------------------
(* What is found in words that are laid out in spans.                      *)

\* The value of frame k of the span at p.
Held(a, p, k) == Word(a, p + IF k + 1 < Valid(a, p) THEN k + 1 ELSE Valid(a, p))

\* at is frame k of the m frames from a head on, whose values are d: in a span, which holds
\* the value; and so does it the next one, or the span behind it holds that first.
Reads(a, at, d, k, m) ==
  /\ at \in Place
  /\ Valid(a, at.head) \in 1..Total(a, at.head)
  /\ at.k < Total(a, at.head)
  /\ d[k + 1] = Held(a, at.head, at.k)
  /\ k + 1 < m =>
       d[k + 2] = IF at.k + 1 < Total(a, at.head) THEN Held(a, at.head, at.k + 1)
                  ELSE Word(a, at.head + Valid(a, at.head) + 2)

Found(a, p, m) ==
  /\ Decoded(a)[p] \in Seq(Int) /\ Len(Decoded(a)[p]) = m
  /\ \A k \in 0..(m - 1) : Reads(a, Span(a)[[head |-> p, k |-> k]], Decoded(a)[p], k, m)

LEMMA ConcatIs ==
  ASSUME NEW u \in Seq(Int), NEW v \in Seq(Int)
  PROVE  /\ u \o v \in Seq(Int) /\ Len(u \o v) = Len(u) + Len(v)
         /\ \A i \in 1..Len(u) : (u \o v)[i] = u[i]
         /\ \A i \in 1..Len(v) : (u \o v)[Len(u) + i] = v[i]
  OBVIOUS

LEMMA ValuesAre ==
  ASSUME NEW a \in Sequence, NEW p \in Nat, Valid(a, p) \in 1..Total(a, p)
  PROVE  /\ Values(a, p) \in Seq(Int) /\ Len(Values(a, p)) = Total(a, p)
         /\ \A k \in 0..(Total(a, p) - 1) : Values(a, p)[k + 1] = Held(a, p, k)
<1>1. Total(a, p) \in Nat
  BY WordType
<1>2. ASSUME NEW i \in 1..Total(a, p)
      PROVE  Word(a, p + IF i < Valid(a, p) THEN i ELSE Valid(a, p)) \in Int
  <2>1. (p + IF i < Valid(a, p) THEN i ELSE Valid(a, p)) \in Nat
    OBVIOUS
  <2> QED
    BY <2>1, WordType
<1>3. Values(a, p) \in [1..Total(a, p) -> Int]
  BY <1>2 DEF Values
<1>4. Values(a, p) \in Seq(Int) /\ Len(Values(a, p)) = Total(a, p)
  BY <1>1, <1>3
<1>5. ASSUME NEW k \in 0..(Total(a, p) - 1) PROVE Values(a, p)[k + 1] = Held(a, p, k)
  <2>1. k + 1 \in 1..Total(a, p)
    BY <1>1
  <2> QED
    BY <2>1 DEF Values, Held
<1> QED
  BY <1>4, <1>5

\* One span in front of what is found from the next one on, or of nothing.
LEMMA FoundFrom ==
  ASSUME NEW a \in Sequence, NEW p \in Nat, p < Len(a.words), NEW m \in Nat,
         Valid(a, p) \in 1..Total(a, p),
         \/ m = 0 /\ Following(a, p) >= Len(a.words)
         \/ /\ m > 0 /\ Valid(a, Following(a, p)) \in 1..Total(a, Following(a, p))
            /\ Found(a, Following(a, p), m) /\ Following(a, p) < Len(a.words)
  PROVE  Found(a, p, Total(a, p) + m)
<1> DEFINE q == Following(a, p)
           total == Total(a, p)
           valid == Valid(a, p)
           here == Values(a, p)
           rest == Decoded(a)[q]
           d == Decoded(a)[p]
<1>1. /\ q \in Nat /\ q = p + valid + 1 /\ Len(a.words) \in Nat
      /\ total \in Nat /\ valid \in Nat /\ 1 <= valid /\ valid <= total
  <2>1. Total(a, p) \in Int /\ Valid(a, p) \in Int
    BY WordType
  <2>2. Len(a.words) \in Nat
    BY DEF Sequence
  <2> QED
    BY <2>1, <2>2 DEF Following
<1>8. \/ m = 0 /\ q >= Len(a.words)
      \/ m > 0 /\ Valid(a, q) \in 1..Total(a, q) /\ Found(a, q, m) /\ q < Len(a.words)
  OBVIOUS
<1>2. d = here \o rest
  <2>1. d = IF p >= Len(a.words) THEN <<>> ELSE here \o rest
    BY DecodedIs, Zenon
  <2> HIDE DEF d, here, rest
  <2> QED
    BY <1>1, <2>1
<1>3. here \in Seq(Int) /\ Len(here) = total /\ \A k \in 0..(total - 1) : here[k + 1] = Held(a, p, k)
  BY ValuesAre
<1>4. rest \in Seq(Int) /\ Len(rest) = m
  <2>1. CASE m = 0
    <3>1. rest = IF q >= Len(a.words) THEN <<>> ELSE Values(a, q) \o Decoded(a)[Following(a, q)]
      BY <1>1, DecodedIs, Zenon
    <3>2. q >= Len(a.words)
      BY <1>8, <2>1
    <3> HIDE DEF rest
    <3> QED
      BY <2>1, <3>1, <3>2
  <2>2. CASE m > 0
    BY <1>8, <2>2 DEF Found
  <2> QED
    BY <2>1, <2>2
<1>9. /\ Total(a, p) = total /\ Valid(a, p) = valid /\ Following(a, p) = q
      /\ Decoded(a)[q] = rest
  OBVIOUS
<1> HIDE DEF q, total, valid, here, rest, d
<1>5. /\ d \in Seq(Int) /\ Len(d) = total + m
      /\ \A i \in 1..total : d[i] = here[i]
      /\ \A i \in 1..m : d[total + i] = rest[i]
  BY <1>2, <1>3, <1>4, ConcatIs, Zenon
<1>6. ASSUME m > 0 PROVE rest[1] = Word(a, p + valid + 2)
  <2>1. Valid(a, q) \in 1..Total(a, q) /\ Total(a, q) \in Int /\ Valid(a, q) \in Int
    BY <1>1, <1>6, <1>8, WordType
  <2>2. Decoded(a)[q] = Values(a, q) \o Decoded(a)[Following(a, q)] /\ q < Len(a.words)
    <3>1. q < Len(a.words)
      BY <1>6, <1>8
    <3>2. Decoded(a)[q] = IF q >= Len(a.words) THEN <<>> ELSE Values(a, q) \o Decoded(a)[Following(a, q)]
      BY <1>1, DecodedIs, Zenon
    <3>3. ~ (q >= Len(a.words))
      BY <1>1, <3>1
    <3> QED
      BY <3>1, <3>2, <3>3, Zenon
  <2>3. Values(a, q) \in Seq(Int) /\ Len(Values(a, q)) = Total(a, q) /\ Values(a, q)[1] = Held(a, q, 0)
    <3>1. 0 \in 0..(Total(a, q) - 1) /\ 0 + 1 = 1
      BY <2>1
    <3>2. Values(a, q)[0 + 1] = Held(a, q, 0)
      BY <1>1, <2>1, <3>1, ValuesAre
    <3> QED
      BY <1>1, <2>1, <3>2, ValuesAre
  <2>4. rest[1] = Held(a, q, 0)
    <3> DEFINE u == Values(a, q)
               v == Decoded(a)[Following(a, q)]
    <3>1. u \in Seq(Int) /\ Len(u) > 0 /\ rest = u \o v /\ rest \in Seq(Int)
      BY <1>4, <1>9, <2>1, <2>2, <2>3
    <3>2. v \in Seq(Int)
      <4>1. Following(a, q) \in Nat
        BY <1>1, FollowingType, Zenon
      <4> QED
        BY <4>1, DecodedType, Zenon
    <3> HIDE DEF u, v
    <3>3. rest[1] = u[1]
      BY <3>1, <3>2
    <3> QED
      BY <3>3, <2>3 DEF u
  <2>5. Held(a, q, 0) = Word(a, q + 1)
    <3>1. (IF 0 + 1 < Valid(a, q) THEN 0 + 1 ELSE Valid(a, q)) = 1
      BY <2>1
    <3> QED
      BY <3>1 DEF Held
  <2>6. q + 1 = p + valid + 2
    BY <1>1
  <2> QED
    BY <2>4, <2>5, <2>6
<1>7. ASSUME NEW k \in 0..(total + m - 1)
      PROVE  Reads(a, Span(a)[[head |-> p, k |-> k]], d, k, total + m)
  <2> DEFINE at == [head |-> p, k |-> k]
  <2>1. at \in Place /\ at.head = p /\ at.k = k /\ k \in Nat
    BY <1>1 DEF Place
  <2>2. CASE k < total
    <3>1. Span(a)[at] = at
      <4>1. Span(a)[at] = IF Stops(a, at) THEN at ELSE Span(a)[Step(a, at)]
        BY <2>1, SpanIs, Zenon
      <4>2. Stops(a, at)
        BY <1>1, <1>9, <2>1, <2>2 DEF Stops
      <4> QED
        BY <4>1, <4>2, Zenon
    <3>2. d[k + 1] = Held(a, p, k)
      <4>1. k + 1 \in 1..total /\ k \in 0..(total - 1)
        BY <1>1, <2>1, <2>2
      <4> QED
        BY <1>3, <1>5, <4>1
    <3>3. ASSUME k + 1 < total + m
          PROVE  d[k + 2] = IF k + 1 < total THEN Held(a, p, k + 1) ELSE Word(a, p + valid + 2)
      <4>1. CASE k + 1 < total
        <5>1. k + 2 \in 1..total /\ k + 1 \in 0..(total - 1) /\ (k + 1) + 1 = k + 2
          BY <1>1, <2>1, <4>1
        <5>2. d[k + 2] = here[k + 2] /\ here[(k + 1) + 1] = Held(a, p, k + 1)
          BY <1>3, <1>5, <5>1
        <5> QED
          BY <4>1, <5>1, <5>2
      <4>2. CASE ~ (k + 1 < total)
        <5>1. m > 0 /\ 1 \in 1..m /\ k + 2 = total + 1
          BY <1>1, <2>1, <2>2, <3>3, <4>2
        <5> QED
          BY <4>2, <5>1, <1>5, <1>6
      <4> QED
        BY <4>1, <4>2
    <3>4. Reads(a, at, d, k, total + m)
      <4> HIDE DEF at
      <4> QED
        BY <1>1, <1>9, <3>2, <3>3, <2>1, <2>2 DEF Reads
    <3> QED
      BY <3>1, <3>4, Zenon
  <2>3. CASE ~ (k < total)
    <3> DEFINE j == k - total
               next == [head |-> q, k |-> j]
    <3>1. j \in 0..(m - 1) /\ m > 0 /\ k + 1 = total + (j + 1) /\ k + 2 = total + (j + 2)
          /\ j + 1 \in 1..m
      BY <1>1, <2>1, <2>3
    <3>2. Step(a, at) = next
      <4>1. ~ (Total(a, q) < Valid(a, q))
        BY <1>1, <1>8, <3>1, WordType
      <4> QED
        BY <1>9, <2>1, <4>1 DEF Step, Within
    <3>3. Span(a)[at] = Span(a)[next]
      <4>1. ~ Stops(a, at)
        BY <1>1, <1>9, <2>1, <2>3 DEF Stops
      <4> QED
        BY <2>1, <3>2, <4>1, SpanIs, Zenon
    <3>4. Reads(a, Span(a)[next], rest, j, m)
      <4>1. Found(a, q, m)
        BY <1>8, <3>1
      <4> HIDE DEF j
      <4> QED
        BY <1>9, <3>1, <4>1 DEF Found
    <3>5. d[k + 1] = rest[j + 1]
      <4>1. d[total + (j + 1)] = rest[j + 1]
        BY <1>5, <3>1, Zenon
      <4> QED
        BY <3>1, <4>1, Zenon
    <3>6. (k + 1 < total + m <=> j + 1 < m) /\ (k + 1 < total + m => d[k + 2] = rest[j + 2])
      <4>1. k + 1 < total + m <=> j + 1 < m
        BY <1>1, <2>1
      <4>2. ASSUME j + 1 < m PROVE d[k + 2] = rest[j + 2]
        <5>1. j + 2 \in 1..m
          BY <3>1, <4>2
        <5>2. d[total + (j + 2)] = rest[j + 2]
          BY <1>5, <5>1, Zenon
        <5> QED
          BY <3>1, <5>2, Zenon
      <4> QED
        BY <4>1, <4>2
    <3>7. Reads(a, Span(a)[at], d, k, total + m)
      <4> DEFINE x == Span(a)[at]
                 y == j + 1
                 z == j + 2
      <4>1. Reads(a, x, rest, j, m) /\ d[k + 1] = rest[y]
            /\ (k + 1 < total + m <=> y < m) /\ (k + 1 < total + m => d[k + 2] = rest[z])
        BY <3>3, <3>4, <3>5, <3>6, Zenon
      <4> DEFINE follows == IF x.k + 1 < Total(a, x.head) THEN Held(a, x.head, x.k + 1)
                            ELSE Word(a, x.head + Valid(a, x.head) + 2)
      <4>2. /\ x \in Place /\ Valid(a, x.head) \in 1..Total(a, x.head)
            /\ x.k < Total(a, x.head) /\ rest[y] = Held(a, x.head, x.k)
            /\ j + 1 < m => rest[z] = follows
        BY <4>1, Zenon DEF Reads
      <4> HIDE DEF x, y, z, follows
      <4>3. d[k + 1] = Held(a, x.head, x.k) /\ (k + 1 < total + m => d[k + 2] = follows)
        BY <4>1, <4>2, Zenon DEF y
      <4> QED
        BY <4>2, <4>3, Zenon DEF Reads, x, follows
    <3> QED
      BY <3>7
  <2> QED
    BY <2>2, <2>3
<1> QED
  <2>1. total + m - 1 = (total + m) - 1
    BY <1>1
  <2> QED
    BY <1>5, <1>7, <2>1, Zenon DEF Found, d, total

LEMMA AllFound ==
  ASSUME NEW a \in Sequence, NEW heads \in SUBSET (0..(Len(a.words) - 1)), Heads(a, heads),
         NEW start \in [heads -> 0..(a.numframes - 1)], Starts(a, heads, start)
  PROVE  Found(a, 0, a.numframes)
<1> DEFINE L == Len(a.words)
           n == a.numframes
           Bad == {p \in heads : ~ Found(a, p, n - start[p])}
           Backs == {L - p : p \in Bad}
<1>0. L \in Nat /\ n \in Nat /\ heads \subseteq Nat
  BY DEF Sequence
<1>1. \A p \in heads : start[p] \in 0..(n - 1) /\ p \in 0..(L - 1)
  OBVIOUS
<1> HIDE DEF L, n
<1>2. CASE Bad = {}
  <2>1. 0 \in heads /\ start[0] = 0
    BY DEF Heads, Starts
  <2>2. n - start[0] = n
    BY <1>0, <2>1
  <2> QED
    BY <1>2, <2>1, <2>2 DEF n
<1>3. CASE Bad # {}
  <2>1. PICK p \in Bad : \A y \in Bad : y <= p
    <3>1. Backs \in SUBSET Nat /\ Backs # {}
      BY <1>0, <1>1, <1>3
    <3> HIDE DEF Backs
    <3>2. PICK x \in Backs : \A y \in Backs : x <= y
      BY <3>1, LeastOf
    <3>3. PICK p \in Bad : x = L - p
      BY DEF Backs
    <3>4. ASSUME NEW y \in Bad PROVE y <= p
      <4>1. x <= L - y
        BY <3>2 DEF Backs
      <4>2. y \in Int /\ p \in Int
        BY <1>0
      <4> QED
        BY <1>0, <3>3, <4>1, <4>2
    <3> QED
      BY <3>4
  <2>2. p \in heads /\ ~ Found(a, p, n - start[p])
    OBVIOUS
  <2> HIDE DEF Bad
  <2> DEFINE q == Following(a, p)
             total == Total(a, p)
  <2>3. /\ Valid(a, p) \in 1..total /\ q \in heads \cup {L}
        /\ start[p] + total = IF q \in heads THEN start[q] ELSE n
    BY <2>2 DEF Heads, Starts, L, n
  <2>4. p \in Nat /\ p < L /\ q \in Nat /\ q > p /\ total \in Nat /\ start[p] \in Nat
    <3>1. p \in Nat /\ p < L /\ start[p] \in Nat
      BY <1>0, <1>1, <2>2
    <3>2. q \in Nat /\ q > p
      BY <3>1, FollowingType, Zenon
    <3>3. total \in Int /\ Valid(a, p) \in 0..255
      BY <3>1, WordType, Zenon
    <3> QED
      BY <2>3, <3>1, <3>2, <3>3
  <2>5. CASE q \in heads
    <3>1. q \notin Bad
      BY <2>1, <2>4
    <3>2. Found(a, q, n - start[q])
      BY <2>5, <3>1 DEF Bad
    <3>3. n - start[q] \in Nat /\ n - start[q] > 0 /\ q < L
      BY <1>0, <1>1, <2>4, <2>5
    <3>4. Valid(a, q) \in 1..Total(a, q)
      BY <2>5 DEF Heads
    <3>5. total + (n - start[q]) = n - start[p]
      <4>1. start[q] = start[p] + total /\ start[q] \in Int
        <5>1. start[q] \in 0..(n - 1)
          BY <1>1, <2>5
        <5> QED
          BY <2>3, <2>5, <5>1
      <4> QED
        BY <1>0, <2>4, <4>1
    <3> DEFINE m == n - start[q]
    <3> HIDE DEF m
    <3>6. Found(a, p, total + m)
      BY <2>3, <2>4, <3>2, <3>3, <3>4, FoundFrom DEF m, L
    <3> QED
      BY <2>2, <3>5, <3>6 DEF m
  <2>6. CASE q \notin heads
    <3>1. q = L /\ total = n - start[p]
      BY <1>0, <2>3, <2>4, <2>6
    <3>2. Found(a, p, total + 0)
      BY <2>3, <2>4, <3>1, FoundFrom DEF L
    <3> QED
      BY <2>2, <2>4, <3>1, <3>2
  <2> QED
    BY <2>5, <2>6
<1> QED
  BY <1>2, <1>3

-----------------------------------------------------------------------------
(* What a pose takes from the sequence.                                    *)

\* The pose r of sequence a takes what its uncompressed values say.
Exact(a, r) ==
  LET value == Decoded(a)[0]
      at    == SpanOf(a, r.frame)
      waits == Total(a, at.head) = Valid(a, at.head) /\ at.k + 1 = Total(a, at.head)
  IN /\ r.frame \in 0..(a.numframes - 1) /\ r.s \in 0..(One - 1)
     /\ r.s > 0 => r.frame + 1 <= a.numframes - 1
     /\ r.read \in BOOLEAN
     /\ r.read => /\ r.first = value[r.frame + 1]
                  /\ r.s > 0 => r.second = value[r.frame + 1 + 1]
                  /\ r.at = IF r.s = 0 \/ waits THEN value[r.frame + 1] * One
                            ELSE value[r.frame + 1] * (One - r.s) + value[r.frame + 1 + 1] * r.s

LEMMA FramesFound ==
  ASSUME NEW a \in Animations, NEW frame \in 0..(a.numframes - 1)
  PROVE  /\ a \in Sequence /\ Decoded(a)[0] \in Seq(Int) /\ Len(Decoded(a)[0]) = a.numframes
         /\ Reads(a, SpanOf(a, frame), Decoded(a)[0], frame, a.numframes)
<1>1. a \in Sequence
  BY AnimationAssumption DEF Sequence
<1>2. PICK heads \in SUBSET (0..(Len(a.words) - 1)) :
        Heads(a, heads) /\ \E start \in [heads -> 0..(a.numframes - 1)] : Starts(a, heads, start)
  BY LayoutAssumption
<1>3. PICK start \in [heads -> 0..(a.numframes - 1)] : Starts(a, heads, start)
  BY <1>2
<1>4. Found(a, 0, a.numframes)
  BY <1>1, <1>2, <1>3, AllFound
<1>5. Within(a, 0, frame) = [head |-> 0, k |-> frame]
  <2>1. Valid(a, 0) \in 1..Total(a, 0) /\ Total(a, 0) \in Int /\ Valid(a, 0) \in Int
    BY <1>1, <1>2, WordType DEF Heads
  <2> QED
    BY <2>1 DEF Within
<1>6. Reads(a, Span(a)[[head |-> 0, k |-> frame]], Decoded(a)[0], frame, a.numframes)
  BY <1>4 DEF Found
<1> QED
  BY <1>1, <1>4, <1>5, <1>6, Zenon DEF Found, SpanOf

\* What is read at a frame, s of the way to the next one, is in the values d.
Answers(a, at, d, frame, s) ==
  /\ First(a, at) = d[frame + 1]
  /\ s > 0 => Second(a, at) = d[frame + 2]
  /\ Position(a, at, s) =
       IF s = 0 \/ (Total(a, at.head) = Valid(a, at.head) /\ at.k + 1 = Total(a, at.head))
       THEN d[frame + 1] * One
       ELSE d[frame + 1] * (One - s) + d[frame + 2] * s

\* Of frame at.k of a span, its value v, and w, that of the frame after it.
LEMMA ReadsAre ==
  ASSUME NEW a \in Sequence, NEW at, NEW d \in Seq(Int), NEW m \in Nat, Len(d) = m,
         NEW frame \in 0..(m - 1), NEW s \in 0..(One - 1),
         s > 0 => frame + 1 <= m - 1,
         Reads(a, at, d, frame, m)
  PROVE  Answers(a, at, d, frame, s)
<1> DEFINE p == at.head
           k == at.k
           total == Total(a, p)
           valid == Valid(a, p)
           v == d[frame + 1]
           w == d[frame + 2]
           after == Word(a, p + valid + 2)
<1>1. p \in Nat /\ k \in Nat /\ valid \in 1..total /\ k < total
  BY DEF Reads, Place
<1>2. total \in Nat /\ valid \in Nat /\ 1 <= valid /\ valid <= total
  <2>1. total \in Int /\ valid \in 0..255
    BY <1>1, WordType
  <2> QED
    BY <1>1, <2>1
<1>3. /\ v = Word(a, p + IF k + 1 < valid THEN k + 1 ELSE valid)
      /\ frame + 1 < m => w = IF k + 1 < total
                              THEN Word(a, p + IF k + 2 < valid THEN k + 2 ELSE valid) ELSE after
  <2>1. (k + 1) + 1 = k + 2
    BY <1>1
  <2> QED
    BY <2>1 DEF Reads, Held
<1>4. v \in Int /\ (s > 0 => w \in Int /\ frame + 1 < m)
  BY DEF One
<1>5. One = 1000 /\ s \in Int /\ s >= 0 /\ One - s \in Int
  BY DEF One
<1> HIDE DEF p, k, total, valid, v, w, after
<1>6. /\ p + k + 1 = p + (k + 1) /\ p + k + 2 = p + (k + 2)
  BY <1>1
<1>7. /\ valid > k + 1 => v = Word(a, p + k + 1)
      /\ valid > k /\ ~ (valid > k + 1) => v = Word(a, p + k + 1) /\ v = Word(a, p + valid)
      /\ ~ (valid > k) => v = Word(a, p + valid)
  <2>1. CASE valid > k + 1
    BY <1>1, <1>2, <1>3, <1>6, <2>1
  <2>2. CASE valid = k + 1
    BY <1>1, <1>2, <1>3, <1>6, <2>2
  <2>3. CASE valid < k + 1
    BY <1>1, <1>2, <1>3, <1>6, <2>3
  <2> QED
    BY <1>1, <1>2, <2>1, <2>2, <2>3
<1>8. ASSUME s > 0
      PROVE  /\ valid > k + 1 => w = Word(a, p + k + 2)
             /\ ~ (valid > k + 1) /\ total > k + 1 => w = v
             /\ ~ (total > k + 1) => w = after /\ ~ (valid > k + 1)
  <2>1. w = IF k + 1 < total THEN Word(a, p + IF k + 2 < valid THEN k + 2 ELSE valid) ELSE after
    BY <1>3, <1>4, <1>8
  <2>2. CASE valid > k + 1
    <3>1. (IF k + 2 < valid THEN k + 2 ELSE valid) = k + 2 /\ k + 1 < total
      BY <1>1, <1>2, <2>2
    <3> QED
      BY <1>1, <1>2, <1>6, <2>1, <2>2, <3>1
  <2>3. CASE ~ (valid > k + 1)
    <3>1. /\ (IF k + 2 < valid THEN k + 2 ELSE valid) = valid
          /\ (IF k + 1 < valid THEN k + 1 ELSE valid) = valid
      BY <1>1, <1>2, <2>3
    <3>2. v = Word(a, p + valid)
      BY <1>3, <3>1
    <3> QED
      BY <1>1, <1>2, <2>1, <2>3, <3>1, <3>2
  <2> QED
    BY <2>2, <2>3
<1>9. First(a, at) = v
  <2>1. First(a, at) = Word(a, p + IF valid > k THEN k + 1 ELSE valid)
    BY DEF First, p, k, valid
  <2>2. CASE valid > k
    BY <1>1, <1>2, <1>6, <1>7, <2>1, <2>2
  <2>3. CASE ~ (valid > k)
    BY <1>1, <1>2, <1>7, <2>1, <2>3
  <2> QED
    BY <2>2, <2>3
<1>10. s > 0 => Second(a, at) = w
  <2>1. Second(a, at) = IF valid > k + 1 THEN Word(a, p + k + 2)
                        ELSE IF total > k + 1 THEN First(a, at) ELSE after
    BY DEF Second, p, k, valid, total, after
  <2> QED
    BY <1>8, <1>9, <2>1
<1>11. v * (One - s) + v * s = v * One
  BY <1>4, <1>5
<1> DEFINE stays == s = 0 \/ (total = valid /\ k + 1 = total)
           wanted == IF stays THEN v * One ELSE v * (One - s) + w * s
<1>12. Position(a, at, s) = wanted
  <2>1. Position(a, at, s) =
          IF valid > k
            THEN IF valid > k + 1 THEN Word(a, p + k + 1) * (One - s) + s * Word(a, p + k + 2)
                 ELSE Word(a, p + k + 1) * One
            ELSE IF total <= k + 1 THEN Word(a, p + valid) * (One - s) + s * after
                 ELSE Word(a, p + valid) * One
    BY Zenon DEF Position, p, k, valid, total, after
  <2>2. CASE valid > k + 1
    <3> DEFINE x == Word(a, p + k + 2)
    <3>1. x \in Int
      <4>1. p + k + 2 \in Nat
        BY <1>1
      <4> QED
        BY <4>1, WordType, Zenon
    <3>2. Position(a, at, s) = v * (One - s) + s * x
      <4>1. valid > k
        BY <1>1, <1>2, <2>2
      <4> QED
        BY <1>7, <2>1, <2>2, <4>1, Zenon
    <3> HIDE DEF x
    <3>3. CASE s = 0
      BY <1>4, <1>5, <3>1, <3>2, <3>3
    <3>4. CASE s > 0
      <4>1. x = w /\ ~ stays
        BY <1>1, <1>2, <1>8, <2>2, <3>4 DEF x
      <4>2. s * w = w * s
        BY <1>4, <1>5, <3>4
      <4> QED
        BY <3>2, <4>1, <4>2
    <3> QED
      BY <1>5, <3>3, <3>4
  <2>3. CASE valid = k + 1
    <3>1. Position(a, at, s) = v * One
      <4>1. valid > k /\ ~ (valid > k + 1)
        BY <1>1, <1>2, <2>3
      <4> QED
        BY <1>7, <2>1, <4>1, Zenon
    <3>2. ASSUME ~ stays PROVE v = w
      <4>1. s > 0 /\ ~ (valid > k + 1) /\ total > k + 1
        BY <1>1, <1>2, <1>5, <2>3, <3>2
      <4> QED
        BY <1>8, <4>1
    <3> QED
      BY <1>11, <3>1, <3>2, Zenon
  <2>4. CASE ~ (valid > k) /\ total <= k + 1
    <3>1. Position(a, at, s) = v * (One - s) + s * after
      BY <1>7, <2>1, <2>4, Zenon
    <3>2. after \in Int
      <4>1. p + valid + 2 \in Nat
        BY <1>1, <1>2
      <4> QED
        BY <4>1, WordType, Zenon DEF after
    <3>3. CASE s = 0
      BY <1>4, <1>5, <3>1, <3>2, <3>3
    <3>4. CASE s > 0
      <4>1. after = w /\ ~ stays
        BY <1>1, <1>2, <1>8, <2>4, <3>4
      <4>2. s * w = w * s
        BY <1>4, <1>5, <3>4
      <4> QED
        BY <3>1, <4>1, <4>2
    <3> QED
      BY <1>5, <3>3, <3>4
  <2>5. CASE ~ (valid > k) /\ ~ (total <= k + 1)
    <3>1. Position(a, at, s) = v * One
      BY <1>7, <2>1, <2>5, Zenon
    <3>2. ASSUME ~ stays PROVE v = w
      <4>1. s > 0 /\ ~ (valid > k + 1) /\ total > k + 1
        BY <1>1, <1>2, <1>5, <2>5, <3>2
      <4> QED
        BY <1>8, <4>1
    <3> QED
      BY <1>11, <3>1, <3>2, Zenon
  <2> QED
    BY <1>1, <1>2, <2>2, <2>3, <2>4, <2>5
<1> QED
  BY <1>9, <1>10, <1>12, Zenon DEF Answers, p, k, total, valid, v, w

LEMMA PosedExactly ==
  ASSUME NEW a \in Animations, NEW g \in Nat
  PROVE  Exact(a, CalcRotations(a, g))
<1> DEFINE n == a.numframes
           h == InSequence(a, g)
           frame == h \div One
           s == h % One
           at == SpanOf(a, frame)
           d == Decoded(a)[0]
           r == CalcRotations(a, g)
<1>1. n \in Nat \ {0}
  BY AnimationAssumption
<1> HIDE DEF n
<1>2. h \in 0..((n - 1) * 1000)
  BY <1>1 DEF InSequence, One, n
<1> HIDE DEF h
<1>3. frame \in 0..(n - 1) /\ s \in 0..(One - 1) /\ (s > 0 => frame + 1 <= n - 1)
  BY <1>1, <1>2 DEF One
<1>4. /\ r.frame = frame /\ r.s = s /\ r.first = First(a, at) /\ r.second = Second(a, at)
      /\ r.at = Position(a, at, s) /\ r.read = TRUE
  BY Zenon DEF CalcRotations, h
<1> HIDE DEF frame, s, r
<1>5. a \in Sequence /\ d \in Seq(Int) /\ Len(d) = n /\ Reads(a, at, d, frame, n)
  BY <1>3, FramesFound, Zenon DEF n
<1>6. frame + 1 + 1 = frame + 2
  BY <1>3
<1>7. Answers(a, at, d, frame, s)
  <2>1. /\ n \in Nat /\ frame \in 0..(n - 1) /\ s \in 0..(One - 1)
        /\ s > 0 => frame + 1 <= n - 1
    BY <1>1, <1>3
  <2>2. d \in Seq(Int) /\ Len(d) = n /\ Reads(a, at, d, frame, n) /\ a \in Sequence
    BY <1>5
  <2> HIDE DEF at, d
  <2> QED
    BY <2>1, <2>2, ReadsAre, Zenon
<1>8. SpanOf(a, r.frame) = at
  BY <1>4, Zenon
<1> QED
  BY <1>3, <1>4, <1>6, <1>7, <1>8, Zenon DEF Exact, Answers, n, r

-----------------------------------------------------------------------------
(* The steps.                                                              *)

IInv == anim \in Animations /\ f \in Nat /\ Exact(anim, shown)

LEMMA NothingExact == ASSUME NEW a \in Animations PROVE Exact(a, Nothing)
<1>1. a.numframes \in Nat \ {0}
  BY AnimationAssumption
<1> QED
  BY <1>1 DEF Exact, Nothing, One

LEMMA FrameEstimated ==
  ASSUME NEW n \in Nat \ {0}, NEW looping, NEW frame \in Frames, NEW elapsed \in Elapsed, NEW fps \in Fps
  PROVE  EstimateFrame(n, looping, frame, elapsed, fps) \in Nat
<1> DEFINE g == Advanced(n, frame, elapsed, fps)
           x == frame * (n - 1)
           y == elapsed * 10
           z == y * fps
           e == (n - 1) * 1000
<1>1. frame \in Nat /\ elapsed \in Int /\ fps \in Nat /\ n - 1 \in Nat
  BY AnimationAssumption
<1>2. x \in Nat
  BY <1>1
<1>3. elapsed >= 0 => z \in Nat
  <2>1. elapsed >= 0 => y \in Nat
    BY <1>1
  <2> HIDE DEF y
  <2> QED
    BY <1>1, <2>1
<1>4. g = (IF n <= 1 THEN 0 ELSE (x * 1000) \div 256) + (IF elapsed < 0 THEN 0 ELSE z)
  BY DEF Advanced, One
<1> HIDE DEF g, x, z
<1>5. (x * 1000) \div 256 \in Nat
  BY <1>2
<1>6. g \in Nat
  BY <1>1, <1>3, <1>4, <1>5
<1>7. n > 1 => e > 0 /\ e \in Nat
  BY <1>1
<1>8. n > 1 => g % e \in Nat
  <2> HIDE DEF e
  <2> QED
    BY <1>6, <1>7
<1>9. EstimateFrame(n, looping, frame, elapsed, fps) =
        IF looping THEN IF n > 1 THEN g % e ELSE g
        ELSE IF (IF g >= e - 1 THEN e - 1 ELSE g) < 0 THEN 0 ELSE IF g >= e - 1 THEN e - 1 ELSE g
  BY DEF EstimateFrame, One, g
<1>10. e \in Int
  BY <1>1
<1> HIDE DEF e
<1> QED
  BY <1>6, <1>8, <1>9, <1>10

LEMMA Inductive == Spec => []IInv
<1>1. Init => IInv
  BY NothingExact DEF Init, IInv
<1>2. IInv /\ [Next]_vars => IInv'
  <2> SUFFICES ASSUME IInv, [Next]_vars PROVE IInv'
    OBVIOUS
  <2>0. anim \in Animations /\ f \in Nat /\ anim.numframes \in Nat \ {0}
    BY AnimationAssumption DEF IInv
  <2>1. ASSUME NEW n \in Nat \ {0}, NEW looping, ProcessAnimParams(n, looping) PROVE IInv'
    <3>1. anim' = anim /\ shown' = Nothing /\ f' \in Nat
      BY <2>1, FrameEstimated DEF ProcessAnimParams
    <3> QED
      BY <2>0, <3>1, NothingExact DEF IInv
  <2>2. CASE Pose
    <3>1. anim' = anim /\ f' = f /\ shown' = CalcRotations(anim, f)
      BY <2>2 DEF Pose
    <3>2. Exact(anim, CalcRotations(anim, f))
      BY <2>0, PosedExactly
    <3> QED
      BY <2>0, <3>1, <3>2 DEF IInv
  <2>3. CASE PoseGait
    <3>1. PICK quarter \in 0..(4 * anim.numframes - 1) : shown' = CalcRotations(anim, quarter * 250)
      BY <2>3 DEF PoseGait
    <3>2. anim' = anim /\ f' = f
      BY <2>3 DEF PoseGait
    <3>3. quarter * 250 \in Nat
      BY <2>0
    <3>4. Exact(anim, CalcRotations(anim, quarter * 250))
      BY <2>0, <3>3, PosedExactly
    <3> QED
      BY <2>0, <3>1, <3>2, <3>4 DEF IInv
  <2>4. CASE UNCHANGED vars
    BY <2>4 DEF vars, IInv
  <2>5. ASSUME NEW n \in Others, NEW looping \in BOOLEAN, ProcessAnimParams(n, looping) PROVE IInv'
    <3>1. n \in Nat \ {0}
      BY AnimationAssumption
    <3> QED
      BY <2>1, <2>5, <3>1
  <2> QED
    BY <2>0, <2>1, <2>2, <2>3, <2>4, <2>5 DEF Next
<1> QED
  BY <1>1, <1>2, PTL DEF Spec

\* The frame of a record is never before the sequence's first, and the fraction of a pose
\* is less than a frame, whatever the times of the record.
THEOREM Typed == Spec => []TypeOK
<1>1. IInv => TypeOK
  <2> SUFFICES ASSUME IInv PROVE TypeOK
    OBVIOUS
  <2>1. DOMAIN anim = {"numframes", "looping", "words"}
    BY AnimationAssumption DEF IInv
  <2>2. anim.numframes \in Nat \ {0}
    BY AnimationAssumption DEF IInv
  <2>3. shown.frame \in 0..(anim.numframes - 1) /\ shown.s \in 0..(One - 1) /\ shown.read \in BOOLEAN
    BY Zenon DEF IInv, Exact
  <2> QED
    BY <2>1, <2>2, <2>3 DEF IInv, TypeOK
<1> QED
  BY <1>1, Inductive, PTL

\* StudioCalcRotations brings every frame into the sequence that is posed, whichever
\* sequence and time it was estimated for.
THEOREM FramesInData == Spec => []FrameInData
<1>1. IInv => FrameInData
  BY Zenon DEF IInv, Exact, FrameInData
<1> QED
  BY <1>1, Inductive, PTL

\* StudioCalcBoneQuaterion reads the angles of the frame and of the next one out of every
\* sequence that is laid out in spans, of any number of frames and values.
THEOREM AnglesExact == Spec => []AngleExact
<1>1. IInv => AngleExact
  BY Zenon DEF IInv, Exact, AngleExact, Value
<1> QED
  BY <1>1, Inductive, PTL

\* StudioCalcBonePosition mixes the positions of the frame and of the next one, and waits
\* only at the end of a span in which nothing is repeated, in every such sequence.
THEOREM PositionsExact == Spec => []PositionExact
<1>1. IInv => PositionExact
  BY Zenon DEF IInv, Exact, PositionExact, Value, Waits
<1> QED
  BY <1>1, Inductive, PTL
=============================================================================
