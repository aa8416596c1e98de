------------------------- MODULE Interpolation_proofs -------------------------
(***************************************************************************)
(* Proofs about Interpolation, for rings of any size of at least four, any *)
(* clock and any interpolation times: which two records are found, which   *)
(* moment of the player's past is shown, and which yaw.                    *)
(***************************************************************************)
EXTENDS Interpolation, WellFoundedInduction, TLAPS

-----------------------------------------------------------------------------
(* The look-up.                                                            *)

\* A set of natural numbers has a least one.
LEMMA LeastOf ==
  ASSUME NEW S \in SUBSET Nat, S # {}
  PROVE  Min(S) \in S /\ \A y \in S : Min(S) <= y
<1> DEFINE R == OpToRel(<, Nat)
<1>1. PICK x \in S : \A y \in S : ~ (<<y, x>> \in R)
  <2>1. IsWellFoundedOn(R, Nat)
    BY NatLessThanWellFounded
  <2> QED
    BY <2>1, WFMin
<1>2. ASSUME NEW y \in S PROVE <<y, x>> \in R <=> y < x
  <2>1. R = {ss \in Nat \X Nat : ss[1] < ss[2]}
    BY Zenon DEF OpToRel
  <2> QED
    BY <2>1
<1> HIDE DEF R
<1>3. ASSUME NEW y \in S PROVE x <= y
  <2>1. ~ (y < x)
    BY <1>1, <1>2, Zenon
  <2>2. x \in Nat /\ y \in Nat
    OBVIOUS
  <2> QED
    BY <2>1, <2>2
<1> QED
  BY <1>3 DEF Min

\* Every number has its slot.
LEMMA SlotFits == ASSUME NEW q \in Int PROVE SlotOf(q) \in Slot
<1>1. Backup \in Nat \ {0}
  BY InterpolationAssumption
<1> QED
  BY <1>1 DEF SlotOf, Slot

LEMMA InRing ==
  ASSUME NEW r \in [Slot -> Record], NEW n \in Nat, NEW i \in Int
  PROVE  Nth(r, n, i) \in Record
<1>1. n + 1 - i \in Int
  OBVIOUS
<1> QED
  BY <1>1, SlotFits DEF Nth

\* Where the loop stops, it stops for the first time.
LEMMA FirstStop ==
  ASSUME NEW r \in [Slot -> Record], NEW n \in Nat, NEW t \in Int, Stops(r, n, t) # {}
  PROVE  /\ Min(Stops(r, n, t)) \in Stops(r, n, t)
         /\ Min(Stops(r, n, t)) \in 1..(Backup - 2)
         /\ \A i \in Stops(r, n, t) : Min(Stops(r, n, t)) <= i
<1>1. Backup \in Nat
  BY InterpolationAssumption
<1>2. Stops(r, n, t) \in SUBSET Nat /\ Stops(r, n, t) \subseteq 1..(Backup - 2)
  BY <1>1 DEF Stops
<1> QED
  BY <1>2, LeastOf

\* Between two times the fraction is exact.
LEMMA FractionInside ==
  ASSUME NEW t0 \in Nat, NEW t1 \in Nat, NEW t \in Int, t1 < t, t <= t0
  PROVE  Fraction(t0, t1, t) = <<t - t1, t0 - t1>>
  BY DEF Fraction, Bound

\* Beyond a newer one it is none.
LEMMA FractionBeyond ==
  ASSUME NEW t0 \in Nat, NEW t1 \in Nat, NEW t \in Int, t1 < t, t0 < t1
  PROVE  Fraction(t0, t1, t) = <<0, 1>>
  BY DEF Fraction, Bound

\* It is always a ratio of naturals.
LEMMA FractionFits ==
  ASSUME NEW t0 \in Nat, NEW t1 \in Nat, NEW t \in Int
  PROVE  Fraction(t0, t1, t)[1] \in Nat /\ Fraction(t0, t1, t)[2] \in Nat \ {0}
<1>1. CASE t0 = 0 \/ t0 = t1
  BY <1>1 DEF Fraction
<1>2. CASE ~(t0 = 0 \/ t0 = t1)
  <2> DEFINE p == t - t1
             q == t0 - t1
  <2>1. p \in Int /\ q \in Int /\ q # 0 /\ Fraction(t0, t1, t) = Bound(p, q)
    BY <1>2 DEF Fraction
  <2> HIDE DEF p, q
  <2>2. Bound(p, q)[1] \in Nat /\ Bound(p, q)[2] \in Nat \ {0}
    BY <2>1 DEF Bound
  <2> QED
    BY <2>1, <2>2
<1> QED
  BY <1>1, <1>2

-----------------------------------------------------------------------------
(* What CL_PureOrigin computes.                                            *)

\* The position, of the records found.
LEMMA OriginFits ==
  ASSUME NEW r \in [Slot -> Record], NEW n \in Nat, NEW t \in Int
  PROVE  LET p == PureOrigin(r, n, t) IN
         /\ p.older \in Record /\ p.newer \in Record
         /\ p.num \in Nat /\ p.den \in Nat \ {0}
<1>1. Newer(r, n, t) \in Record /\ Older(r, n, t) \in Record
  <2>1. CASE Found(r, n, t)
    <3> DEFINE m == Min(Stops(r, n, t))
    <3>1. m \in Int
      BY <2>1, FirstStop DEF Found
    <3>2. Nth(r, n, m) \in Record /\ Nth(r, n, m - 1) \in Record
      BY <3>1, InRing
    <3> QED
      BY <2>1, <3>2 DEF Newer, Older
  <2>2. CASE ~Found(r, n, t)
    BY <2>2, InRing DEF Newer, Older
  <2> QED
    BY <2>1, <2>2
<1>2. Newer(r, n, t).at \in Nat /\ Older(r, n, t).at \in Nat
  BY <1>1, InterpolationAssumption DEF Record
<1> QED
  BY <1>1, <1>2, FractionFits DEF PureOrigin

\* A time that was found lies behind the older record, and, unless that is the newest
\* of all, not behind the newer one; the fraction is exact then.
LEMMA OriginFound ==
  ASSUME NEW r \in [Slot -> Record], NEW n \in Nat, NEW t \in Int, Found(r, n, t)
  PROVE  LET p == PureOrigin(r, n, t)
             m == Min(Stops(r, n, t))
         IN
         /\ m \in 1..(Backup - 2)
         /\ p.older = Nth(r, n, m) /\ p.newer = Nth(r, n, m - 1)
         /\ p.older.at \in Nat /\ p.newer.at \in Nat /\ p.older.at # 0 /\ p.older.at < t
         /\ m # 1 => /\ p.newer.at >= t
                     /\ p.num = t - p.older.at /\ p.den = p.newer.at - p.older.at
<1> DEFINE m == Min(Stops(r, n, t))
           o == Nth(r, n, m)
           w == Nth(r, n, m - 1)
           p == PureOrigin(r, n, t)
<1>1. m \in Stops(r, n, t) /\ m \in 1..(Backup - 2) /\ \A i \in Stops(r, n, t) : m <= i
  BY FirstStop DEF Found
<1>2. Backup \in Nat /\ m \in Int
  BY <1>1, InterpolationAssumption
<1>3. /\ p.older = o /\ p.newer = w
      /\ p.num = Fraction(w.at, o.at, t)[1] /\ p.den = Fraction(w.at, o.at, t)[2]
  BY DEF PureOrigin, Older, Newer
<1>4. o \in Record /\ w \in Record
  BY <1>2, InRing
<1>5. o.at \in Nat /\ w.at \in Nat
  BY <1>4, InterpolationAssumption DEF Record
<1>6. o.at # 0 /\ o.at < t
  BY <1>1 DEF Found, Stops
<1>7. ASSUME m # 1 PROVE w.at >= t
  <2>1. m - 1 \in 1..(Backup - 2) /\ ~ (m <= m - 1)
    BY <1>1, <1>2, <1>7
  <2>2. m - 1 \notin Stops(r, n, t)
    BY <1>1, <2>1
  <2>3. ~ (w.at < t)
    BY <2>1, <2>2 DEF Stops
  <2> QED
    BY <1>5, <2>3
<1>8. ASSUME m # 1 PROVE p.num = t - o.at /\ p.den = w.at - o.at
  <2>1. Fraction(w.at, o.at, t) = <<t - o.at, w.at - o.at>>
    BY <1>5, <1>6, <1>7, <1>8, FractionInside
  <2> QED
    BY <1>3, <2>1
<1> HIDE DEF m, o, w, p
<1>9. /\ m \in 1..(Backup - 2)
      /\ p.older = o /\ p.newer = w
      /\ p.older.at \in Nat /\ p.newer.at \in Nat /\ p.older.at # 0 /\ p.older.at < t
      /\ m # 1 => /\ p.newer.at >= t
                  /\ p.num = t - p.older.at /\ p.den = p.newer.at - p.older.at
  BY <1>1, <1>3, <1>5, <1>6, <1>7, <1>8
<1> QED
  BY <1>9 DEF m, o, w, p

-----------------------------------------------------------------------------
(* The inductive invariant.                                                *)

\* A slot is empty, or holds a record that was made at some time for a packet so far of
\* that slot.
Filled ==
  \A s \in Slot :
    ring[s] # Zero => /\ ring[s].num \in 1..seq /\ ring[s].at # 0
                      /\ SlotOf(ring[s].num) = s

\* What is shown was looked up in the ring as it is, with the newest record in it, for
\* the present less the viewer's interpolation time.
Computed ==
  shown # Nothing =>
    /\ shown.time \in Int /\ shown.time = clock - lerp
    /\ seq # 0 /\ ring[SlotOf(seq)].num = seq
    /\ shown = PureOrigin(ring, seq, shown.time)

\* A client's row, cleared on a new level, holds no record later than the player's time.
NoneLater == row = "client" => \A s \in Slot : ring[s].at <= anim

\* What is shown was looked up right after a record of the player's time was written.
AtPresent == shown # Nothing => ring[SlotOf(seq)].at = anim

IInv == TypeOK /\ Filled /\ Computed /\ NoneLater /\ AtPresent

LEMMA InitInv == Init => IInv
<1> SUFFICES ASSUME Init PROVE IInv
  OBVIOUS
<1>1. Zero \in Record
  BY InterpolationAssumption DEF Zero, Record
<1>2. TypeOK
  BY <1>1, InterpolationAssumption DEF Init, TypeOK, Nothing
<1>3. Filled /\ Computed /\ NoneLater /\ AtPresent
  BY DEF Init, Filled, Computed, NoneLater, AtPresent, Zero
<1> QED
  BY <1>2, <1>3 DEF IInv

LEMMA AdvanceFits ==
  ASSUME TypeOK, Advance
  PROVE  clock' \in 1..MaxClock /\ anim' \in 1..clock' /\ lerp' \in Lerp /\ anim <= anim'
<1>1. PICK d \in Tick : clock + d <= MaxClock /\ clock' = clock + d
  BY DEF Advance
<1>2. clock \in 1..MaxClock /\ anim \in 1..clock /\ d \in Nat \ {0} /\ MaxClock \in Nat
  BY InterpolationAssumption DEF TypeOK
<1>3. clock' \in 1..MaxClock /\ anim' \in 1..clock' /\ anim <= anim'
  BY <1>1, <1>2 DEF Advance
<1> QED
  BY <1>3, InterpolationAssumption DEF Advance

LEMMA RecordKeeps ==
  ASSUME IInv, ProcessAnimParams
  PROVE  IInv'
<1> DEFINE new == [num |-> seq', at |-> anim']
<1>1. /\ seq \in Nat /\ seq < MaxSeq /\ seq' = seq + 1
      /\ ring' = [ring EXCEPT ![SlotOf(seq')] = new]
      /\ shown' = PureOrigin(ring', seq', clock' - lerp') /\ row' = row
  BY InterpolationAssumption DEF ProcessAnimParams, IInv, TypeOK
<1>2. clock' \in 1..MaxClock /\ anim' \in 1..clock' /\ lerp' \in Lerp
  BY AdvanceFits DEF ProcessAnimParams, IInv
<1>3. /\ MaxSeq \in Nat /\ MaxClock \in Nat /\ Backup \in Nat \ {0} /\ lerp' \in Nat
      /\ ring \in [Slot -> Record]
  <2>1. Lerp \subseteq Nat /\ MaxSeq \in Nat /\ MaxClock \in Nat /\ Backup \in Nat \ {0}
    BY InterpolationAssumption
  <2>2. ring \in [Slot -> Record]
    BY DEF IInv, TypeOK
  <2> QED
    BY <1>2, <2>1, <2>2
<1>4. seq' \in 1..MaxSeq /\ anim' \in 1..MaxClock /\ clock' - lerp' \in Int
  BY <1>1, <1>2, <1>3
<1>5. new \in Record /\ SlotOf(seq') \in Slot
  <2>1. seq' \in 0..MaxSeq /\ anim' \in 0..MaxClock
    BY <1>3, <1>4
  <2>2. seq' \in Int
    BY <1>3, <1>4
  <2> QED
    BY <2>1, <2>2, SlotFits DEF Record
<1>6. ring' \in [Slot -> Record] /\ ring'[SlotOf(seq')] = new
  BY <1>1, <1>3, <1>5
<1>7. TypeOK'
  <2>1. seq' \in Nat
    BY <1>4
  <2>2. /\ shown'.older \in Record /\ shown'.newer \in Record
        /\ shown'.num \in Nat /\ shown'.den \in Nat \ {0}
    BY <1>1, <1>4, <1>6, <2>1, OriginFits
  <2> QED
    BY <1>1, <1>2, <1>3, <1>4, <1>6, <2>2 DEF TypeOK, IInv, Record
<1>8. Filled'
  <2> SUFFICES ASSUME NEW s \in Slot, ring'[s] # Zero
               PROVE  /\ ring'[s].num \in 1..seq' /\ ring'[s].at # 0
                      /\ SlotOf(ring'[s].num) = s
    BY DEF Filled
  <2>1. CASE s = SlotOf(seq')
    BY <1>4, <1>6, <2>1
  <2>2. CASE s # SlotOf(seq')
    BY <1>1, <1>3, <2>2 DEF IInv, Filled
  <2> QED
    BY <2>1, <2>2
<1>9. Computed'
  <2>1. shown'.time = clock' - lerp'
    BY <1>1 DEF PureOrigin
  <2> QED
    BY <1>1, <1>4, <1>6, <2>1 DEF Computed
<1>10. NoneLater'
  <2> SUFFICES ASSUME row = "client", NEW s \in Slot PROVE ring'[s].at <= anim'
    BY <1>1 DEF NoneLater
  <2>1. ring[s].at <= anim /\ anim <= anim' /\ anim \in Nat /\ anim' \in Nat
    BY <1>2, AdvanceFits DEF ProcessAnimParams, IInv, TypeOK, NoneLater
  <2>2. ring[s].at \in Nat
    BY <1>3, InterpolationAssumption DEF Record
  <2>3. CASE s = SlotOf(seq')
    BY <1>6, <2>1, <2>3
  <2>4. CASE s # SlotOf(seq')
    BY <1>1, <1>3, <2>1, <2>2, <2>4
  <2> QED
    BY <2>3, <2>4
<1>11. AtPresent'
  BY <1>6 DEF AtPresent
<1> QED
  BY <1>7, <1>8, <1>9, <1>10, <1>11 DEF IInv

\* Other steps show nothing.
LEMMA AbsentKeeps ==
  ASSUME IInv, Absent
  PROVE  IInv'
<1>1. /\ seq \in Nat /\ seq < MaxSeq /\ seq' = seq + 1 /\ MaxSeq \in Nat
      /\ shown' = Nothing /\ row' = row /\ ring' = ring
  BY InterpolationAssumption DEF Absent, IInv, TypeOK
<1>2. clock' \in 1..MaxClock /\ anim' \in 1..clock' /\ lerp' \in Lerp
  BY AdvanceFits DEF Absent, IInv
<1>3. Zero \in Record
  BY InterpolationAssumption DEF Zero, Record
<1>4. TypeOK'
  BY <1>1, <1>2, <1>3 DEF IInv, TypeOK, Nothing
<1>5. Filled'
  <2> SUFFICES ASSUME NEW s \in Slot, ring[s] # Zero
               PROVE  /\ ring[s].num \in 1..seq' /\ ring[s].at # 0
                      /\ SlotOf(ring[s].num) = s
    BY <1>1 DEF Filled
  <2>1. ring[s].num \in 1..seq /\ ring[s].at # 0 /\ SlotOf(ring[s].num) = s
    BY DEF IInv, Filled
  <2> QED
    BY <1>1, <2>1
<1>6. NoneLater'
  <2> SUFFICES ASSUME row = "client", NEW s \in Slot PROVE ring[s].at <= anim'
    BY <1>1 DEF NoneLater
  <2>1. ring[s].at <= anim /\ anim <= anim' /\ anim \in Nat /\ anim' \in Nat
    BY <1>2, AdvanceFits DEF Absent, IInv, TypeOK, NoneLater
  <2>2. ring[s].at \in Nat
    BY InterpolationAssumption DEF IInv, TypeOK, Record
  <2> QED
    BY <2>1, <2>2
<1> QED
  BY <1>1, <1>4, <1>5, <1>6 DEF IInv, Computed, AtPresent

LEMMA NewLevelKeeps ==
  ASSUME IInv, NewLevel
  PROVE  IInv'
<1>1. /\ seq' = seq /\ shown' = Nothing /\ row' = row /\ lerp' = lerp
      /\ clock' = 1 /\ anim' = 1
      /\ ring' = IF row = "server" THEN ring ELSE [s \in Slot |-> Zero]
  BY DEF NewLevel
<1>2. Zero \in Record /\ 1 \in 1..MaxClock
  BY InterpolationAssumption DEF Zero, Record
<1>3. TypeOK'
  BY <1>1, <1>2 DEF IInv, TypeOK, Nothing
<1>4. Filled'
  BY <1>1 DEF IInv, Filled
<1>5. NoneLater'
  BY <1>1 DEF NoneLater, Zero
<1> QED
  BY <1>1, <1>3, <1>4, <1>5 DEF IInv, Computed, AtPresent

\* The invariant holds throughout.
THEOREM Inductive == Spec => []IInv
<1>1. IInv /\ [Next]_vars => IInv'
  <2> SUFFICES ASSUME IInv, [Next]_vars PROVE IInv'
    OBVIOUS
  <2>1. CASE UNCHANGED vars
    BY <2>1 DEF vars, IInv, TypeOK, Filled, Computed, NoneLater, AtPresent
  <2> QED
    BY <2>1, RecordKeeps, AbsentKeeps, NewLevelKeeps DEF Next
<1> QED
  BY InitInv, <1>1, PTL DEF Spec

\* Types, and with them that no index leaves the ring and no fraction divides by zero.
THEOREM TypeCorrect == Spec => []TypeOK
  BY Inductive, PTL DEF IInv

-----------------------------------------------------------------------------
(* The right pair.                                                         *)

\* Some facts of every state in which something is shown.
LEMMA ShownFacts ==
  ASSUME IInv, shown # Nothing
  PROVE  /\ ring \in [Slot -> Record] /\ seq \in Nat \ {0} /\ shown.time \in Int
         /\ shown = PureOrigin(ring, seq, shown.time)
         /\ ring[SlotOf(seq)].num = seq
         /\ shown.found = Found(ring, seq, shown.time)
<1>1. /\ ring \in [Slot -> Record] /\ seq \in Nat /\ seq # 0 /\ shown.time \in Int
      /\ shown = PureOrigin(ring, seq, shown.time)
      /\ ring[SlotOf(seq)].num = seq
  BY InterpolationAssumption DEF IInv, TypeOK, Computed
<1>2. PureOrigin(ring, seq, shown.time).found = Found(ring, seq, shown.time)
  BY DEF PureOrigin
<1> QED
  BY <1>1, <1>2

\* No extrapolation of a time that was found, but in the server's row beyond a newest record
\* that is paired with a later one of the level before (CL_FindInterpolationUpdates,
\* CL_PureOrigin, and the rows that PutInServer clears).
THEOREM InsideHolds == Spec => []Inside
<1>1. IInv => Inside
  <2> SUFFICES ASSUME IInv, shown.found
               PROVE  \/ shown.num <= shown.den
                      \/ row = "server" /\ shown.older.num = seq /\ At(seq) < OldestSlot.at
    BY DEF Inside
  <2>1. shown # Nothing
    BY DEF Nothing
  <2> DEFINE t == shown.time
             m == Min(Stops(ring, seq, t))
             o == shown.older.at
             w == shown.newer.at
  <2>2. /\ ring \in [Slot -> Record] /\ seq \in Nat \ {0} /\ t \in Int
        /\ shown = PureOrigin(ring, seq, t)
        /\ ring[SlotOf(seq)].num = seq /\ Found(ring, seq, t)
    BY <2>1, ShownFacts
  <2> HIDE DEF t
  <2>3. /\ m \in 1..(Backup - 2)
        /\ shown.older = Nth(ring, seq, m) /\ shown.newer = Nth(ring, seq, m - 1)
        /\ o \in Nat /\ w \in Nat /\ o < t
        /\ m # 1 => /\ w >= t
                    /\ shown.num = t - o
                    /\ shown.den = w - o
    BY <2>2, OriginFound
  <2>4. CASE m = 1
    <3>1. seq + 1 - 1 = seq /\ seq + 1 - 0 = seq + 1 /\ 1 - 1 = 0
      BY <2>2
    <3>2. /\ shown.older = ring[SlotOf(seq)] /\ shown.newer = OldestSlot
          /\ shown.older.num = seq /\ o = At(seq) /\ w = OldestSlot.at
      BY <2>2, <2>3, <2>4, <3>1 DEF Nth, OldestSlot, At
    <3>3. CASE row = "server" /\ o < w
      BY <3>2, <3>3
    <3>4. CASE ~(row = "server" /\ o < w)
      <4>1. w <= o
        <5>1. CASE row = "server"
          BY <2>3, <3>4, <5>1
        <5>2. CASE row # "server"
          <6>1. row = "client"
            BY <5>2 DEF IInv, TypeOK
          <6>2. SlotOf(seq + 1) \in Slot
            <7>1. seq + 1 \in Int
              BY <2>2
            <7> QED
              BY <7>1, SlotFits
          <6>3. w <= anim
            BY <3>2, <6>1, <6>2 DEF IInv, NoneLater, OldestSlot
          <6> QED
            BY <2>1, <3>2, <6>3 DEF IInv, AtPresent, At
        <5> QED
          BY <5>1, <5>2
      <4>2. shown.num = Fraction(w, o, t)[1] /\ shown.den = Fraction(w, o, t)[2]
        BY <2>2, Zenon DEF PureOrigin
      <4> HIDE DEF o, w
      <4>3. CASE w = 0 \/ w = o
        BY <4>2, <4>3 DEF Fraction
      <4>4. CASE w # 0 /\ w # o
        <5>1. w < o
          BY <2>3, <4>1, <4>4
        <5>2. Fraction(w, o, t) = <<0, 1>>
          BY <2>2, <2>3, <5>1, FractionBeyond
        <5> QED
          BY <4>2, <5>2
      <4> QED
        BY <4>3, <4>4
    <3> QED
      BY <3>3, <3>4
  <2>5. CASE m # 1
    BY <2>2, <2>3, <2>5
  <2> QED
    BY <2>4, <2>5
<1> QED
  BY <1>1, Inductive, PTL

\* The newest record alone, when the time lies behind it.
THEOREM NewestAloneHolds == Spec => []NewestAlone
<1>1. IInv => NewestAlone
  <2> SUFFICES ASSUME IInv, shown # Nothing, At(seq) < shown.time, OldestSlot.at < At(seq)
               PROVE  shown.older.num = seq /\ shown.num = 0
    BY DEF NewestAlone
  <2> DEFINE t == shown.time
             S == Stops(ring, seq, t)
             old == OldestSlot
  <2>1. /\ ring \in [Slot -> Record] /\ seq \in Nat \ {0} /\ t \in Int
        /\ shown = PureOrigin(ring, seq, t)
        /\ ring[SlotOf(seq)].num = seq
    BY ShownFacts
  <2>2. Nth(ring, seq, 1) = ring[SlotOf(seq)] /\ Nth(ring, seq, 0) = old
    <3>1. seq + 1 - 1 = seq /\ seq + 1 - 0 = seq + 1
      BY <2>1
    <3> QED
      BY <3>1 DEF Nth, OldestSlot
  <2>3. /\ Nth(ring, seq, 1) \in Record /\ Nth(ring, seq, 0) \in Record
    BY <2>1, InRing
  <2>4. At(seq) \in Nat /\ old.at \in Nat
    BY <2>2, <2>3, InterpolationAssumption DEF Record, At
  <2>5. old.at < At(seq) /\ At(seq) < t /\ At(seq) # 0
    BY <2>4
  <2> HIDE DEF t, old
  <2>6. 1 \in S
    <3>1. 1 \in 1..(Backup - 2)
      BY InterpolationAssumption
    <3> QED
      BY <2>2, <2>5, <3>1 DEF Stops, At
  <2>7. Min(S) = 1
    <3>1. Min(S) \in 1..(Backup - 2) /\ Min(S) <= 1
      BY <2>1, <2>6, FirstStop
    <3>2. Backup \in Nat
      BY InterpolationAssumption
    <3> QED
      BY <3>1, <3>2
  <2>8. Found(ring, seq, t)
    BY <2>2, <2>5, <2>6, <2>7 DEF Found, At
  <2>9. Older(ring, seq, t) = ring[SlotOf(seq)] /\ Newer(ring, seq, t) = old
    <3>1. 1 - 1 = 0
      OBVIOUS
    <3> QED
      BY <2>2, <2>7, <2>8, <3>1 DEF Older, Newer
  <2>10. Fraction(old.at, At(seq), t) = <<0, 1>>
    BY <2>1, <2>4, <2>5, FractionBeyond
  <2> QED
    BY <2>1, <2>9, <2>10 DEF PureOrigin, At
<1> QED
  BY <1>1, Inductive, PTL

\* The pair around the wanted time.
THEOREM BracketedHolds == Spec => []Bracketed
<1>1. IInv => Bracketed
  <2> DEFINE t == shown.time
             S == Stops(ring, seq, t)
             m == Min(S)
             n == seq + 1 - m
  <2> SUFFICES ASSUME IInv, shown # Nothing, Steady, Before(t) # {}, At(seq) >= t
               PROVE  LET b == Max(Before(t)) IN
                      /\ shown.older.num = b /\ shown.newer.num = b + 1
                      /\ shown.num * (At(b + 1) - At(b)) = shown.den * (t - At(b))
                      /\ shown.num > 0 /\ shown.num <= shown.den
    BY DEF Bracketed
  <2>1. /\ ring \in [Slot -> Record] /\ seq \in Nat \ {0} /\ t \in Int
        /\ shown = PureOrigin(ring, seq, t)
        /\ Backup \in Nat /\ Backup >= 4
    BY ShownFacts, InterpolationAssumption
  <2> HIDE DEF t
  <2>2. ASSUME NEW q \in Recent
        PROVE  /\ q \in 1..seq /\ q > seq - Backup
               /\ ring[SlotOf(q)].num = q /\ At(q) \in Nat \ {0}
               /\ Nth(ring, seq, seq + 1 - q) = ring[SlotOf(q)]
    <3>1. q \in 1..seq /\ q > seq - Backup /\ ring[SlotOf(q)].num = q
      BY DEF Recent, Steady
    <3>2. seq + 1 - (seq + 1 - q) = q /\ q \in Int /\ q # 0
      BY <2>1, <3>1
    <3>3. SlotOf(q) \in Slot
      BY <3>2, SlotFits
    <3>4. ring[SlotOf(q)] # Zero /\ ring[SlotOf(q)] \in Record
      BY <2>1, <3>1, <3>2, <3>3 DEF Zero
    <3>5. At(q) \in Nat \ {0}
      BY <3>3, <3>4, InterpolationAssumption DEF At, Record, IInv, Filled
    <3> QED
      BY <3>1, <3>2, <3>5 DEF Nth
  <2>3. ASSUME NEW q \in Before(t)
        PROVE  q \in Recent /\ q \in 1..seq /\ seq + 1 - q \in S
    <3>1. q \in Recent /\ q > seq + 2 - Backup /\ At(q) < t
      BY DEF Before
    <3>2. seq + 1 - q \in 1..(Backup - 2)
      BY <2>1, <2>2, <3>1
    <3>3. Nth(ring, seq, seq + 1 - q).at < t
      BY <2>2, <3>1 DEF At
    <3> QED
      BY <2>2, <3>1, <3>2, <3>3 DEF Stops
  <2>4. m \in S /\ m \in 1..(Backup - 2) /\ \A i \in S : m <= i
    BY <2>1, <2>3, FirstStop
  <2> HIDE DEF m
  <2>5. \A q \in Before(t) : q <= n
    BY <2>1, <2>3, <2>4
  <2>6. n \in Recent /\ n > seq + 2 - Backup
    <3>1. n \in Int /\ n <= seq /\ n > seq + 2 - Backup
      BY <2>1, <2>4
    <3>2. PICK q \in Before(t) : q \in 1..seq /\ q <= n
      BY <2>3, <2>5
    <3> QED
      BY <2>1, <3>1, <3>2 DEF Recent
  <2>7. Nth(ring, seq, m) = ring[SlotOf(n)]
    <3>1. seq + 1 - n = m
      BY <2>1, <2>4
    <3> QED
      BY <2>2, <2>6, <3>1
  <2>8. At(n) < t
    BY <2>2, <2>4, <2>6, <2>7 DEF Stops, At
  <2>9. n \in Before(t)
    BY <2>6, <2>8 DEF Before
  <2>10. Max(Before(t)) = n
    <3>1. \A q \in Before(t) : q \in Int
      BY <2>3
    <3>2. n \in Before(t) /\ \A q \in Before(t) : n >= q
      BY <2>1, <2>4, <2>5, <2>9, <3>1
    <3>3. /\ Max(Before(t)) \in Before(t)
          /\ \A q \in Before(t) : Max(Before(t)) >= q
      BY <3>2 DEF Max
    <3> QED
      BY <3>1, <3>2, <3>3
  <2>11. n # seq /\ m # 1
    <3>1. n # seq
      BY <2>1, <2>2, <2>6, <2>8
    <3> QED
      BY <2>1, <3>1
  <2>12. n + 1 \in Recent /\ Nth(ring, seq, m - 1) = ring[SlotOf(n + 1)]
    <3>1. n + 1 \in Recent
      BY <2>1, <2>2, <2>6, <2>11 DEF Recent
    <3>2. seq + 1 - (n + 1) = m - 1
      BY <2>1, <2>4
    <3> QED
      BY <2>2, <3>1, <3>2
  <2>13. Found(ring, seq, t)
    BY <2>2, <2>4, <2>6, <2>7 DEF Found, At, m
  <2>14. /\ shown.older = ring[SlotOf(n)] /\ shown.newer = ring[SlotOf(n + 1)]
         /\ At(n + 1) >= t
         /\ shown.num = t - At(n) /\ shown.den = At(n + 1) - At(n)
    BY <2>1, <2>7, <2>11, <2>12, <2>13, OriginFound DEF m, At
  <2>15. At(n) \in Nat /\ At(n + 1) \in Nat /\ ring[SlotOf(n)].num = n
         /\ ring[SlotOf(n + 1)].num = n + 1
    BY <2>2, <2>6, <2>12
  <2> HIDE DEF n
  <2> QED
    BY <2>1, <2>8, <2>10, <2>14, <2>15
<1> QED
  BY <1>1, Inductive, PTL

-----------------------------------------------------------------------------
(* The yaw.                                                                *)

\* A whole number of turns more or less.
LEMMA TurnsOff ==
  ASSUME NEW P \in Nat \ {0}, NEW r \in 0..(P - 1), NEW k \in -3..3
  PROVE  (r + k * P) % P = r
<1>1. CASE k = 0
  BY <1>1
<1>2. CASE k = 1
  BY <1>2
<1>3. CASE k = 2
  BY <1>3
<1>4. CASE k = 3
  BY <1>4
<1>5. CASE k = -1
  BY <1>5
<1>6. CASE k = -2
  BY <1>6
<1>7. CASE k = -3
  BY <1>7
<1> QED
  BY <1>1, <1>2, <1>3, <1>4, <1>5, <1>6, <1>7

\* The way between two angles that are e apart, give or take whole turns.
LEMMA WayIs ==
  ASSUME NEW x \in Int, NEW y \in Int, NEW den \in Nat \ {0}, NEW e \in Int, NEW k \in -2..2,
         y - x = e + k * (360 * den), -180 * den <= e, e <= 180 * den
  PROVE  Way(x, y, den) = IF e < 0 THEN -e ELSE e
<1> DEFINE P == 360 * den
           d == (y - x) % P
<1>1. P \in Nat \ {0} /\ -P <= 2 * e /\ 2 * e <= P
  OBVIOUS
<1>2. Way(x, y, den) = IF d > 180 * den THEN 360 * den - d ELSE d
  BY DEF Way
<1>3. CASE e >= 0
  <2>1. e \in 0..(P - 1)
    BY <1>1, <1>3
  <2>2. d = e
    <3> HIDE DEF P
    <3>1. (e + k * P) % P = e
      BY <1>1, <2>1, TurnsOff
    <3> QED
      BY <3>1 DEF P
  <2> QED
    BY <1>2, <1>3, <2>2
<1>4. CASE e < 0
  <2>1. e + P \in 0..(P - 1) /\ k - 1 \in -3..3
    BY <1>1, <1>4
  <2>2. d = e + P
    <3> HIDE DEF P
    <3>1. ((e + P) + (k - 1) * P) % P = e + P
      BY <1>1, <2>1, TurnsOff
    <3>2. (e + P) + (k - 1) * P = e + k * P
      BY <1>1
    <3> QED
      BY <3>1, <3>2 DEF P
  <2> QED
    BY <1>2, <1>4, <2>2
<1> QED
  BY <1>3, <1>4

\* An angle less than a turn and a half away from none comes back within half a turn, by
\* at most one turn.
LEMMA Normalized ==
  ASSUME NEW den \in Nat \ {0}, NEW a \in Int, -540 * den <= a, a <= 540 * den
  PROVE  \E k \in -1..1 : /\ NormalizeAngles(a, den) = a + k * (360 * den)
                          /\ NormalizeAngles(a, den) \in (-180 * den)..(180 * den)
<1> DEFINE P == 180 * den
<1>1. P \in Nat \ {0} /\ -3 * P <= a /\ a <= 3 * P
  OBVIOUS
<1>2. /\ 360 * den = 2 * P
      /\ -180 * den = -P
  OBVIOUS
<1>3. NormalizeAngles(a, den) = IF a > P THEN a - 2 * P ELSE IF a < -P THEN a + 2 * P ELSE a
  BY <1>2 DEF NormalizeAngles
<1> HIDE DEF P
<1>4. \E k \in -1..1 : /\ NormalizeAngles(a, den) = a + k * (2 * P)
                       /\ NormalizeAngles(a, den) \in (-P)..P
  <2>1. CASE a > P
    <3>1. NormalizeAngles(a, den) = a + (-1) * (2 * P) /\ NormalizeAngles(a, den) \in (-P)..P
      BY <1>1, <1>3, <2>1
    <3> QED
      BY <3>1
  <2>2. CASE a < -P
    <3>1. ~(a > P)
      BY <1>1, <2>2
    <3>2. NormalizeAngles(a, den) = a + 1 * (2 * P) /\ NormalizeAngles(a, den) \in (-P)..P
      BY <1>1, <1>3, <2>2, <3>1
    <3> QED
      BY <3>2
  <2>3. CASE ~(a > P) /\ ~(a < -P)
    <3>1. NormalizeAngles(a, den) = a + 0 * (2 * P) /\ NormalizeAngles(a, den) \in (-P)..P
      BY <1>1, <1>3, <2>3
    <3> QED
      BY <3>1
  <2> QED
    BY <2>1, <2>2, <2>3
<1> QED
  BY <1>2, <1>4 DEF P

\* A yaw is an angle of half a turn at most.
LEMMA YawFits ==
  ASSUME NEW rec \in Record
  PROVE  Yaw(rec) \in -180..180
<1>1. rec.at * Turn \in Int
  BY InterpolationAssumption DEF Record
<1>2. \A a \in Int : BitAngle(a) \in -180..180
  BY DEF BitAngle, NormalizeAngles
<1> QED
  BY <1>1, <1>2 DEF Yaw

\* A fraction is never more than six fifths.
LEMMA FractionAtMost ==
  ASSUME NEW t0 \in Nat, NEW t1 \in Nat, NEW t \in Int
  PROVE  5 * Fraction(t0, t1, t)[1] <= 6 * Fraction(t0, t1, t)[2]
<1>1. CASE t0 = 0 \/ t0 = t1
  BY <1>1 DEF Fraction
<1>2. CASE ~(t0 = 0 \/ t0 = t1)
  <2> DEFINE p == t - t1
             q == t0 - t1
  <2>1. p \in Int /\ q \in Int /\ q # 0 /\ Fraction(t0, t1, t) = Bound(p, q)
    BY <1>2 DEF Fraction
  <2> HIDE DEF p, q
  <2>2. 5 * Bound(p, q)[1] <= 6 * Bound(p, q)[2]
    BY <2>1 DEF Bound
  <2> QED
    BY <2>1, <2>2
<1> QED
  BY <1>1, <1>2

\* Turning from a towards b by a fraction keeps to the shorter way.
LEMMA TurnIs ==
  ASSUME NEW a \in -180..180, NEW b \in -180..180, NEW num \in Nat, NEW den \in Nat \ {0},
         5 * num <= 6 * den
  PROVE  LET yaw == InterpolateAngles(a, b, num, den) IN
         /\ yaw \in (-180 * den)..(180 * den)
         /\ num <= den => Way(a * den, yaw, den) + Way(yaw, b * den, den) =
                            Way(a * den, b * den, den)
<1> DEFINE d   == NormalizeAngles(b - a, 1)
           raw == a * den + d * num
           yaw == InterpolateAngles(a, b, num, den)
<1>1. NormalizeAngles(a, 1) = a /\ NormalizeAngles(b, 1) = b
  BY DEF NormalizeAngles
<1>2. yaw = NormalizeAngles(raw, den)
  BY <1>1 DEF InterpolateAngles
<1>3. PICK k \in -1..1 : d = (b - a) + k * 360 /\ d \in -180..180
  <2> DEFINE x == b - a
             one == 1
  <2>1. /\ one \in Nat \ {0} /\ x \in Int /\ -540 * one <= x /\ x <= 540 * one
        /\ 360 * one = 360 /\ -180 * one = -180 /\ 180 * one = 180
    OBVIOUS
  <2> HIDE DEF x, one
  <2>2. \E k \in -1..1 : /\ NormalizeAngles(x, one) = x + k * (360 * one)
                         /\ NormalizeAngles(x, one) \in (-180 * one)..(180 * one)
    BY <2>1, Normalized
  <2>3. \E k \in -1..1 : NormalizeAngles(x, one) = x + k * 360
                         /\ NormalizeAngles(x, one) \in -180..180
    BY <2>1, <2>2
  <2> QED
    BY <2>3 DEF x, one
<1> HIDE DEF d
<1>4. /\ d * num \in Int /\ a * den \in Int /\ b * den \in Int /\ d * den \in Int
      /\ -180 * num <= d * num /\ d * num <= 180 * num
      /\ -180 * den <= a * den /\ a * den <= 180 * den
      /\ -180 * den <= d * den /\ d * den <= 180 * den
  BY <1>3
<1>5. raw \in Int /\ -540 * den <= raw /\ raw <= 540 * den
  BY <1>4
<1>6. PICK j \in -1..1 : yaw = raw + j * (360 * den) /\ yaw \in (-180 * den)..(180 * den)
  BY <1>2, <1>5, Normalized
<1> HIDE DEF yaw
<1>7. ASSUME num <= den
      PROVE  Way(a * den, yaw, den) + Way(yaw, b * den, den) = Way(a * den, b * den, den)
  <2> DEFINE abs(e) == IF e < 0 THEN -e ELSE e
             rest == den - num
  <2>1. /\ yaw \in Int /\ rest \in Nat
        /\ yaw - a * den = d * num + j * (360 * den)
    BY <1>4, <1>6, <1>7
  <2>2. b * den - a * den = d * den + (-k) * (360 * den)
    <3>1. b - a = d - k * 360
      BY <1>3
    <3>2. b * den - a * den = (b - a) * den
      OBVIOUS
    <3>3. (d - k * 360) * den = d * den - (k * 360) * den
      BY <1>3
    <3>4. d * den - (k * 360) * den = d * den + (-k) * (360 * den)
      BY <1>3
    <3> QED
      BY <3>1, <3>2, <3>3, <3>4
  <2>3. d * den = d * num + d * rest /\ d * rest \in Int
    BY <1>3, <2>1
  <2>4. b * den - yaw = d * rest + (-k - j) * (360 * den)
    <3>1. (-k - j) * (360 * den) = (-k) * (360 * den) - j * (360 * den)
      BY <1>3, <1>6
    <3> QED
      BY <1>4, <2>1, <2>2, <2>3, <3>1
  <2>5. /\ -180 * den <= d * num /\ d * num <= 180 * den
        /\ -180 * den <= d * rest /\ d * rest <= 180 * den
    <3>1. -180 * num <= d * num /\ d * num <= 180 * num
      BY <1>4
    <3>2. -180 * rest <= d * rest /\ d * rest <= 180 * rest
      <4> HIDE DEF rest
      <4> QED
        BY <1>3, <2>1
    <3> QED
      BY <1>4, <1>7, <2>1, <2>3, <3>1, <3>2
  <2>6. j \in -2..2 /\ -k \in -2..2 /\ -k - j \in -2..2
    BY <1>3, <1>6
  <2> HIDE DEF rest
  <2>7. Way(a * den, yaw, den) = abs(d * num)
    <3> DEFINE x == a * den
               e == d * num
    <3>1. /\ x \in Int /\ yaw \in Int /\ e \in Int /\ j \in -2..2
          /\ yaw - x = e + j * (360 * den) /\ -180 * den <= e /\ e <= 180 * den
      BY <1>4, <2>1, <2>5, <2>6
    <3> HIDE DEF x, e
    <3>2. Way(x, yaw, den) = IF e < 0 THEN -e ELSE e
      BY <3>1, WayIs, Zenon
    <3> QED
      BY <3>2 DEF x, e
  <2>8. Way(yaw, b * den, den) = abs(d * rest)
    <3> DEFINE x == b * den
               e == d * rest
               i == -k - j
    <3>1. /\ x \in Int /\ yaw \in Int /\ e \in Int /\ i \in -2..2
          /\ x - yaw = e + i * (360 * den) /\ -180 * den <= e /\ e <= 180 * den
      BY <1>4, <2>1, <2>3, <2>4, <2>5, <2>6
    <3> HIDE DEF x, e, i
    <3>2. Way(yaw, x, den) = IF e < 0 THEN -e ELSE e
      BY <3>1, WayIs, Zenon
    <3> QED
      BY <3>2 DEF x, e
  <2>9. Way(a * den, b * den, den) = abs(d * den)
    <3> DEFINE x == a * den
               y == b * den
               e == d * den
               i == -k
    <3>1. /\ x \in Int /\ y \in Int /\ e \in Int /\ i \in -2..2
          /\ y - x = e + i * (360 * den) /\ -180 * den <= e /\ e <= 180 * den
      BY <1>4, <2>2, <2>6
    <3> HIDE DEF x, y, e, i
    <3>2. Way(x, y, den) = IF e < 0 THEN -e ELSE e
      BY <3>1, WayIs, Zenon
    <3> QED
      BY <3>2 DEF x, y, e
  <2>10. abs(d * num) + abs(d * rest) = abs(d * den)
    <3>1. CASE d >= 0
      <4>1. d * num >= 0 /\ d * rest >= 0 /\ d * den >= 0
        BY <1>3, <2>1, <3>1
      <4> QED
        BY <1>4, <2>3, <4>1
    <3>2. CASE d < 0
      <4>1. d * num <= 0 /\ d * rest <= 0 /\ d * den <= 0
        BY <1>3, <2>1, <3>2
      <4> QED
        BY <1>4, <2>3, <4>1
    <3> QED
      BY <1>3, <3>1, <3>2
  <2> QED
    BY <2>7, <2>8, <2>9, <2>10
<1> QED
  BY <1>6, <1>7 DEF yaw

\* The yaw shown is on the shorter way from the newer record to the older, and in range
\* even where the fraction is beyond it (InterpolateAngles, NormalizeAngles).
THEOREM TurnsShortHolds == Spec => []TurnsShort
<1>1. IInv => TurnsShort
  <2> SUFFICES ASSUME IInv, shown # Nothing
               PROVE  LET a == Yaw(shown.from) * shown.den
                          b == Yaw(shown.to) * shown.den
                      IN
                      /\ shown.num <= shown.den =>
                           Way(a, shown.yaw, shown.den) + Way(shown.yaw, b, shown.den) =
                             Way(a, b, shown.den)
                      /\ shown.yaw \in (-180 * shown.den)..(180 * shown.den)
    BY DEF TurnsShort
  <2> DEFINE t    == shown.time
             ph0  == Newer(ring, seq, t)
             ph1  == Older(ring, seq, t)
             frac == Fraction(ph0.at, ph1.at, t)
  <2>1. /\ ring \in [Slot -> Record] /\ seq \in Nat /\ t \in Int
        /\ shown = PureOrigin(ring, seq, t)
    BY ShownFacts
  <2>2. /\ shown.older = ph1 /\ shown.newer = ph0 /\ shown.to = ph1
        /\ shown.num = frac[1] /\ shown.den = frac[2]
        /\ shown.from = IF ph0.at = 0 THEN ph1 ELSE ph0
        /\ shown.yaw = IF ph0.at = 0 THEN Yaw(ph1)
                       ELSE InterpolateAngles(Yaw(ph0), Yaw(ph1), frac[1], frac[2])
    <3> HIDE DEF t
    <3> QED
      BY <2>1 DEF PureOrigin
  <2>3. ph0 \in Record /\ ph1 \in Record
    BY <2>2 DEF IInv, TypeOK
  <2> HIDE DEF t, ph0, ph1
  <2>4. ph0.at \in Nat /\ ph1.at \in Nat
    BY <2>3, InterpolationAssumption DEF Record
  <2>5. Yaw(ph0) \in -180..180 /\ Yaw(ph1) \in -180..180
    BY <2>3, YawFits
  <2>6. frac[1] \in Nat /\ frac[2] \in Nat \ {0} /\ 5 * frac[1] <= 6 * frac[2]
    BY <2>1, <2>4, FractionFits, FractionAtMost
  <2>7. CASE ph0.at = 0
    <3>1. frac = <<0, 1>>
      BY <2>7 DEF Fraction
    <3>2. shown.from = ph1 /\ shown.to = ph1 /\ shown.yaw = Yaw(ph1) /\ shown.den = 1
      BY <2>2, <2>7, <3>1
    <3>3. Way(Yaw(ph1) * 1, Yaw(ph1), 1) = 0 /\ Way(Yaw(ph1), Yaw(ph1) * 1, 1) = 0
          /\ Way(Yaw(ph1) * 1, Yaw(ph1) * 1, 1) = 0
      BY <2>5 DEF Way
    <3> QED
      BY <2>5, <3>2, <3>3
  <2>8. CASE ph0.at # 0
    <3>1. shown.from = ph0 /\ shown.to = ph1 /\ shown.num = frac[1] /\ shown.den = frac[2]
          /\ shown.yaw = InterpolateAngles(Yaw(ph0), Yaw(ph1), frac[1], frac[2])
      BY <2>2, <2>8
    <3> DEFINE a0  == Yaw(ph0)
               b0  == Yaw(ph1)
               num == frac[1]
               den == frac[2]
               yaw == InterpolateAngles(a0, b0, num, den)
    <3>2. /\ a0 \in -180..180 /\ b0 \in -180..180 /\ num \in Nat /\ den \in Nat \ {0}
          /\ 5 * num <= 6 * den
      BY <2>5, <2>6
    <3>3. /\ Yaw(shown.from) = a0 /\ Yaw(shown.to) = b0
          /\ shown.num = num /\ shown.den = den /\ shown.yaw = yaw
      BY <3>1
    <3> HIDE DEF a0, b0, num, den
    <3>4. /\ yaw \in (-180 * den)..(180 * den)
          /\ num <= den => Way(a0 * den, yaw, den) + Way(yaw, b0 * den, den) =
                             Way(a0 * den, b0 * den, den)
      BY <3>2, TurnIs, ZenonT(60)
    <3> HIDE DEF yaw
    <3> QED
      BY <3>3, <3>4
  <2> QED
    BY <2>7, <2>8
<1> QED
  BY <1>1, Inductive, PTL

-----------------------------------------------------------------------------
(* Never back.                                                             *)

\* Two numbers less than a whole ring apart have the same slot only if they are equal.
LEMMA SlotsApart ==
  ASSUME NEW a \in Int, NEW b \in Int, SlotOf(a) = SlotOf(b), a <= b, b < a + Backup
  PROVE  a = b
<1> DEFINE x == a \div Backup
           y == b \div Backup
<1>0. Backup \in Nat /\ Backup > 0
  BY InterpolationAssumption
<1>1. /\ a = x * Backup + (a % Backup) /\ x \in Int
      /\ b = y * Backup + (b % Backup) /\ y \in Int
      /\ a % Backup = b % Backup /\ a % Backup \in 0..(Backup - 1)
  BY <1>0 DEF SlotOf
<1> HIDE DEF x, y
<1>2. b - a = (y - x) * Backup
  BY <1>0, <1>1
<1>3. CASE y - x >= 1
  BY <1>0, <1>1, <1>2, <1>3
<1>4. CASE y - x <= -1
  BY <1>0, <1>1, <1>2, <1>4
<1> QED
  BY <1>0, <1>1, <1>2, <1>3, <1>4

\* A whole ring later the slot is the same.
LEMMA SlotAround == ASSUME NEW q \in Int PROVE SlotOf(q + Backup) = SlotOf(q)
<1> DEFINE x == q \div Backup
           y == (q + Backup) \div Backup
           r == q % Backup
           u == (q + Backup) % Backup
<1>0. Backup \in Nat /\ Backup > 0
  BY InterpolationAssumption
<1>1. /\ q = x * Backup + r /\ x \in Int /\ r \in 0..(Backup - 1)
      /\ q + Backup = y * Backup + u /\ y \in Int /\ u \in 0..(Backup - 1)
  BY <1>0
<1>2. SlotOf(q) = r /\ SlotOf(q + Backup) = u
  BY DEF SlotOf
<1> HIDE DEF x, y, r, u
<1>3. u - r = (x - y + 1) * Backup
  BY <1>0, <1>1
<1>4. CASE x - y + 1 >= 1
  BY <1>0, <1>1, <1>3, <1>4
<1>5. CASE x - y + 1 <= -1
  BY <1>0, <1>1, <1>3, <1>5
<1> QED
  BY <1>0, <1>1, <1>2, <1>3, <1>4, <1>5

\* In a steady ring no slot holds a later time than the newest record, and that one has a
\* time.
LEMMA NewestLatest ==
  ASSUME IInv, Steady, seq # 0
  PROVE  /\ At(seq) \in Nat \ {0}
         /\ \A q \in Int : q > seq - Backup /\ q <= seq => At(q) \in Nat /\ At(q) <= At(seq)
         /\ OldestSlot.at \in Nat /\ OldestSlot.at <= At(seq)
<1>0. /\ Backup \in Nat /\ Backup >= 4 /\ seq \in Nat /\ seq # 0
      /\ ring \in [Slot -> Record]
      /\ \A rec \in Record : rec.at \in Nat /\ rec.num \in Nat
  BY InterpolationAssumption DEF IInv, TypeOK, Record
<1>1. seq \in Recent /\ ring[SlotOf(seq)].num = seq
  BY <1>0 DEF Recent, Steady
<1>2. At(seq) \in Nat \ {0}
  <2>1. SlotOf(seq) \in Slot
    BY <1>0, SlotFits
  <2>2. ring[SlotOf(seq)] # Zero
    BY <1>0, <1>1 DEF Zero
  <2> QED
    BY <1>0, <2>1, <2>2 DEF IInv, Filled, At
<1>3. ASSUME NEW q \in Int, q > seq - Backup, q <= seq
      PROVE  At(q) \in Nat /\ At(q) <= At(seq)
  <2>1. SlotOf(q) \in Slot
    BY SlotFits
  <2>2. At(q) \in Nat
    BY <1>0, <2>1 DEF At
  <2>3. CASE q = seq
    BY <1>2, <2>3
  <2>4. CASE q # seq /\ q >= 1
    <3>1. q \in Recent /\ q < seq
      BY <1>0, <1>3, <2>4 DEF Recent
    <3>2. At(q) <= At(seq)
      BY <1>1, <3>1 DEF Steady, At
    <3> QED
      BY <2>2, <3>2
  <2>5. CASE q < 1
    <3>1. ring[SlotOf(q)] = Zero
      <4> SUFFICES ASSUME ring[SlotOf(q)] # Zero PROVE FALSE
        OBVIOUS
      <4> DEFINE n == ring[SlotOf(q)].num
      <4>1. n \in 1..seq /\ SlotOf(n) = SlotOf(q)
        BY <2>1 DEF IInv, Filled
      <4>2. n \in Int /\ q <= n /\ n < q + Backup
        BY <1>0, <1>3, <2>5, <4>1
      <4> HIDE DEF n
      <4>3. q = n
        BY <4>1, <4>2, SlotsApart
      <4> QED
        BY <1>0, <2>5, <4>1, <4>3
    <3> QED
      BY <1>2, <2>2, <3>1 DEF At, Zero
  <2> QED
    BY <1>0, <2>3, <2>4, <2>5
<1>4. OldestSlot.at = At(seq + 1 - Backup)
  <2>1. SlotOf(seq + 1) = SlotOf(seq + 1 - Backup)
    <3> DEFINE a == seq + 1 - Backup
    <3>1. a \in Int /\ a + Backup = seq + 1
      BY <1>0
    <3> HIDE DEF a
    <3>2. SlotOf(a + Backup) = SlotOf(a)
      BY <3>1, SlotAround
    <3> QED
      BY <3>1, <3>2 DEF a
  <2> QED
    BY <2>1 DEF OldestSlot, At
<1>5. OldestSlot.at \in Nat /\ OldestSlot.at <= At(seq)
  <2>1. seq + 1 - Backup \in Int /\ seq + 1 - Backup > seq - Backup /\ seq + 1 - Backup <= seq
    BY <1>0
  <2> QED
    BY <1>3, <1>4, <2>1
<1> QED
  BY <1>2, <1>3, <1>5

\* A time that was found in a steady ring is shown as it is, or, if the newest record is
\* older, as that one.
LEMMA MomentFound ==
  ASSUME IInv, Steady, shown # Nothing, shown.found
  PROVE  /\ shown.time \in Int /\ At(seq) \in Nat
         /\ \/ Moment(shown) = shown.den * shown.time /\ shown.time <= At(seq)
            \/ Moment(shown) = shown.den * At(seq) /\ At(seq) <= shown.time
<1> DEFINE t == shown.time
           m == Min(Stops(ring, seq, t))
           o == shown.older.at
           w == shown.newer.at
<1>1. /\ ring \in [Slot -> Record] /\ seq \in Nat \ {0} /\ t \in Int
      /\ shown = PureOrigin(ring, seq, t) /\ Found(ring, seq, t)
      /\ Backup \in Nat /\ Backup >= 4
      /\ shown.num \in Nat /\ shown.den \in Nat \ {0}
  BY ShownFacts, InterpolationAssumption DEF IInv, TypeOK
<1> HIDE DEF t
<1>2. /\ m \in 1..(Backup - 2)
      /\ shown.older = Nth(ring, seq, m) /\ shown.newer = Nth(ring, seq, m - 1)
      /\ o \in Nat /\ w \in Nat /\ o # 0 /\ o < t
      /\ m # 1 => /\ w >= t /\ shown.num = t - o /\ shown.den = w - o
  BY <1>1, OriginFound
<1>3. /\ At(seq) \in Nat \ {0}
      /\ \A q \in Int : q > seq - Backup /\ q <= seq => At(q) \in Nat /\ At(q) <= At(seq)
      /\ OldestSlot.at \in Nat /\ OldestSlot.at <= At(seq)
  BY <1>1, NewestLatest
<1> HIDE DEF m
<1>4. CASE m # 1
  <2>1. w <= At(seq)
    <3> DEFINE q == seq + 1 - (m - 1)
    <3>1. q \in Int /\ q > seq - Backup /\ q <= seq
      BY <1>1, <1>2, <1>4
    <3>2. w = At(q)
      BY <1>2 DEF Nth, At
    <3> HIDE DEF q
    <3> QED
      BY <1>3, <3>1, <3>2
  <2>2. Moment(shown) = o * ((w - o) - (t - o)) + w * (t - o)
    BY <1>2, <1>4 DEF Moment
  <2> HIDE DEF o, w
  <2>3. o * ((w - o) - (t - o)) + w * (t - o) = (w - o) * t
    BY <1>1, <1>2
  <2> QED
    BY <1>1, <1>2, <1>3, <1>4, <2>1, <2>2, <2>3 DEF t, w, o
<1>5. CASE m = 1
  <2>1. Nth(ring, seq, 1) = ring[SlotOf(seq)] /\ Nth(ring, seq, 0) = OldestSlot
    <3>1. seq + 1 - 1 = seq /\ seq + 1 - 0 = seq + 1
      BY <1>1
    <3> QED
      BY <3>1 DEF Nth, OldestSlot
  <2>2. o = At(seq) /\ w = OldestSlot.at
    BY <1>2, <1>5, <2>1 DEF At
  <2>3. shown.num = Fraction(w, o, t)[1] /\ shown.den = Fraction(w, o, t)[2]
    BY <1>1, Zenon DEF PureOrigin
  <2> HIDE DEF o, w
  <2>4. \/ shown.num = 0 /\ shown.den = 1
        \/ shown.num = 1 /\ shown.den = 1 /\ w = o
    <3>1. CASE w = 0
      BY <2>3, <3>1 DEF Fraction
    <3>2. CASE w # 0 /\ w = o
      BY <2>3, <3>2 DEF Fraction
    <3>3. CASE w # 0 /\ w # o
      <4>1. w < o
        BY <1>2, <1>3, <2>2, <3>3
      <4>2. Fraction(w, o, t) = <<0, 1>>
        BY <1>1, <1>2, <4>1, FractionBeyond
      <4> QED
        BY <2>3, <4>2
    <3> QED
      BY <3>1, <3>2, <3>3
  <2>5. Moment(shown) = o * (shown.den - shown.num) + w * shown.num
    BY DEF Moment, o, w
  <2>6. Moment(shown) = shown.den * o
    BY <1>2, <2>4, <2>5
  <2> QED
    BY <1>1, <1>2, <1>3, <2>2, <2>6 DEF t
<1> QED
  BY <1>4, <1>5

\* A time before both records: the fraction leads beyond the second of them, or exactly to
\* the time, or is cut off; what is shown is not further back than the time asked for.
LEMMA FractionBehind ==
  ASSUME NEW w \in Nat, NEW o \in Nat, NEW t \in Int, w # 0, w < o
  PROVE  LET num == Fraction(w, o, t)[1]
             den == Fraction(w, o, t)[2]
         IN \/ num = 0 /\ den = 1
            \/ o * (den - num) + w * num >= den * t
<1> DEFINE num == Fraction(w, o, t)[1]
           den == Fraction(w, o, t)[2]
           p   == o - t
           q   == o - w
<1>1. w # o /\ w - o < 0 /\ -(t - o) = p /\ -(w - o) = q /\ p \in Int /\ q \in Int
  OBVIOUS
<1>2. Fraction(w, o, t) =
        IF p < 0 THEN <<0, 1>> ELSE IF 5 * p < 6 * q THEN <<p, q>> ELSE <<6, 5>>
  BY <1>1 DEF Fraction, Bound
<1>3. CASE p < 0
  BY <1>2, <1>3
<1>4. CASE ~(p < 0) /\ 5 * p < 6 * q
  <2>1. num = p /\ den = q
    BY <1>2, <1>4
  <2>2. o * (q - p) + w * p = q * t
    <3>1. q - p = t - w
      OBVIOUS
    <3>2. o * (t - w) + w * (o - t) = (o - w) * t
      OBVIOUS
    <3> QED
      BY <3>1, <3>2
  <2>3. q * t \in Int
    OBVIOUS
  <2> QED
    BY <2>1, <2>2, <2>3
<1>5. CASE ~(p < 0) /\ ~(5 * p < 6 * q)
  <2>1. num = 6 /\ den = 5
    BY <1>2, <1>5
  <2>2. o * (5 - 6) + w * 6 >= 5 * t
    BY <1>5
  <2> QED
    BY <2>1, <2>2
<1> QED
  BY <1>3, <1>4, <1>5

\* In a steady ring nothing is shown that is further back than both the time asked for and
\* the newest record, found or not.
LEMMA MomentAny ==
  ASSUME IInv, Steady, shown # Nothing
  PROVE  /\ shown.time \in Int /\ At(seq) \in Nat
         /\ Moment(shown) \in Int
         /\ Moment(shown) >= shown.den * shown.time \/ Moment(shown) >= shown.den * At(seq)
<1> DEFINE t == shown.time
           o == shown.older.at
           w == shown.newer.at
<1>1. /\ ring \in [Slot -> Record] /\ seq \in Nat \ {0} /\ t \in Int
      /\ shown = PureOrigin(ring, seq, t)
      /\ shown.found = Found(ring, seq, t)
      /\ shown.num \in Nat /\ shown.den \in Nat \ {0}
      /\ shown.older \in Record /\ shown.newer \in Record
  BY ShownFacts DEF IInv, TypeOK
<1> HIDE DEF t
<1>2. o \in Nat /\ w \in Nat
  BY <1>1, InterpolationAssumption DEF Record
<1>3. /\ At(seq) \in Nat \ {0} /\ OldestSlot.at \in Nat /\ OldestSlot.at <= At(seq)
  BY <1>1, NewestLatest
<1>4. Moment(shown) = o * (shown.den - shown.num) + w * shown.num
  BY DEF Moment
<1>5. Moment(shown) \in Int
  <2> HIDE DEF o, w
  <2> QED
    BY <1>1, <1>2, <1>4
<1>6. CASE shown.found
  <2>1. \/ Moment(shown) = shown.den * shown.time
        \/ Moment(shown) = shown.den * At(seq)
    BY <1>6, MomentFound
  <2> QED
    BY <1>1, <1>3, <1>5, <2>1 DEF t
<1>7. CASE ~shown.found
  <2>1. o = At(seq) /\ w = OldestSlot.at
    <3>1. seq + 1 - 1 = seq /\ seq + 1 - 0 = seq + 1
      BY <1>1
    <3>2. Nth(ring, seq, 1) = ring[SlotOf(seq)] /\ Nth(ring, seq, 0) = OldestSlot
      BY <3>1 DEF Nth, OldestSlot
    <3>3. shown.older = Older(ring, seq, t) /\ shown.newer = Newer(ring, seq, t)
      BY <1>1, Zenon DEF PureOrigin
    <3> QED
      BY <1>1, <1>7, <3>2, <3>3 DEF Older, Newer, At
  <2>2. shown.num = Fraction(w, o, t)[1] /\ shown.den = Fraction(w, o, t)[2]
    BY <1>1, Zenon DEF PureOrigin
  <2> HIDE DEF o, w
  <2>3. \/ Moment(shown) = shown.den * o
        \/ Moment(shown) >= shown.den * t
    <3>1. CASE w = 0
      <4>1. shown.num = 0 /\ shown.den = 1
        BY <2>2, <3>1 DEF Fraction
      <4> QED
        BY <1>2, <1>4, <4>1
    <3>2. CASE w # 0 /\ w = o
      <4>1. shown.num = 1 /\ shown.den = 1
        BY <2>2, <3>2 DEF Fraction
      <4> QED
        BY <1>2, <1>4, <3>2, <4>1
    <3>3. CASE w # 0 /\ w # o
      <4>1. w < o
        BY <1>2, <1>3, <2>1, <3>3
      <4>2. \/ shown.num = 0 /\ shown.den = 1
            \/ o * (shown.den - shown.num) + w * shown.num >= shown.den * t
        BY <1>1, <1>2, <2>2, <3>3, <4>1, FractionBehind
      <4>3. CASE shown.num = 0 /\ shown.den = 1
        BY <1>2, <1>4, <4>3
      <4> QED
        BY <1>4, <4>2, <4>3
    <3> QED
      BY <3>1, <3>2, <3>3
  <2> QED
    BY <1>1, <1>3, <1>5, <2>1, <2>3 DEF t
<1> QED
  BY <1>1, <1>3, <1>5, <1>6, <1>7 DEF t

\* A time that was not found in a steady ring: nothing later than the newest record is shown.
LEMMA MomentMissed ==
  ASSUME IInv, Steady, shown # Nothing, ~shown.found
  PROVE  Moment(shown) <= shown.den * At(seq)
<1> DEFINE t == shown.time
           o == shown.older.at
           w == shown.newer.at
           num == shown.num
           den == shown.den
<1>1. /\ seq \in Nat \ {0} /\ t \in Int
      /\ shown = PureOrigin(ring, seq, t)
      /\ shown.found = Found(ring, seq, t)
      /\ num \in Nat /\ den \in Nat \ {0}
  BY ShownFacts DEF IInv, TypeOK
<1> HIDE DEF t
<1>2. /\ At(seq) \in Nat \ {0} /\ OldestSlot.at \in Nat /\ OldestSlot.at <= At(seq)
  BY <1>1, NewestLatest
<1>3. o = At(seq) /\ w = OldestSlot.at
  <2>1. seq + 1 - 1 = seq /\ seq + 1 - 0 = seq + 1
    BY <1>1
  <2>2. Nth(ring, seq, 1) = ring[SlotOf(seq)] /\ Nth(ring, seq, 0) = OldestSlot
    BY <2>1 DEF Nth, OldestSlot
  <2>3. shown.older = Older(ring, seq, t) /\ shown.newer = Newer(ring, seq, t)
    BY <1>1, Zenon DEF PureOrigin
  <2> QED
    BY <1>1, <2>2, <2>3 DEF Older, Newer, At
<1>4. Moment(shown) = o * (den - num) + w * num
  BY DEF Moment
<1> HIDE DEF o, w, num, den
<1>5. o * (den - num) + w * num = den * o - (o - w) * num
  BY <1>1, <1>2, <1>3
<1>6. (o - w) * num >= 0
  <2>1. o - w \in Nat
    BY <1>2, <1>3
  <2> QED
    BY <1>1, <2>1
<1> QED
  BY <1>1, <1>2, <1>3, <1>4, <1>5, <1>6 DEF den

\* A moment m that is den times x at most, and a later one that is den times y at least.
LEMMA Compared ==
  ASSUME NEW m0 \in Int, NEW m1 \in Int, NEW d0 \in Nat, NEW d1 \in Nat,
         NEW x \in Int, NEW y \in Int, m0 <= d0 * x, m1 >= d1 * y, x <= y
  PROVE  m1 * d0 >= m0 * d1
<1>1. m0 * d1 <= (d0 * x) * d1
  OBVIOUS
<1>2. (d1 * y) * d0 <= m1 * d0
  OBVIOUS
<1>3. (d0 * d1) * x <= (d0 * d1) * y
  <2>1. d0 * d1 \in Nat
    OBVIOUS
  <2> QED
    BY <2>1
<1>4. (d0 * x) * d1 = (d0 * d1) * x /\ (d1 * y) * d0 = (d0 * d1) * y
  OBVIOUS
<1> QED
  BY <1>1, <1>2, <1>3, <1>4

\* Packet after packet a viewer sees a player no further back in its own past than before, or
\* than it asks for now, if the time it asked for before was not found
\* (CL_FindInterpolationUpdates and CL_PureOrigin on a ring that has lost nothing).
THEOREM NeverBackHolds == Spec => NeverBack
<1>1. IInv /\ Steady /\ shown # Nothing =>
        /\ shown.time \in Int /\ At(seq) \in Nat
        /\ Moment(shown) \in Int
        /\ Moment(shown) >= shown.den * shown.time \/ Moment(shown) >= shown.den * At(seq)
  BY MomentAny
<1>2. /\ IInv /\ Steady /\ shown # Nothing =>
           /\ shown.time \in Int /\ At(seq) \in Nat
           /\ Moment(shown) \in Int
           /\ Moment(shown) >= shown.den * shown.time \/ Moment(shown) >= shown.den * At(seq)
      /\ (IInv /\ Steady /\ shown # Nothing =>
           /\ shown.time \in Int /\ At(seq) \in Nat
           /\ Moment(shown) \in Int
           /\ Moment(shown) >= shown.den * shown.time \/ Moment(shown) >= shown.den * At(seq))'
      /\ IInv /\ IInv' /\ [Next]_vars
      =>
      [shown # Nothing /\ shown' # Nothing /\ lerp' = lerp /\ Steady /\ Steady'
       => \/ Moment(shown') * shown.den >= Moment(shown) * shown'.den
          \/ ~shown.found /\ Moment(shown') >= shown'.time * shown'.den]_vars
  <2> SUFFICES
        ASSUME (/\ shown.time \in Int /\ At(seq) \in Nat
                /\ Moment(shown) \in Int
                /\ Moment(shown) >= shown.den * shown.time \/ Moment(shown) >= shown.den * At(seq))',
               IInv, IInv', Next, shown # Nothing, shown' # Nothing, lerp' = lerp,
               Steady, Steady'
        PROVE  \/ Moment(shown') * shown.den >= Moment(shown) * shown'.den
               \/ ~shown.found /\ Moment(shown') >= shown'.time * shown'.den
    OBVIOUS
  <2>1. ProcessAnimParams
    BY DEF Next, Absent, NewLevel
  <2>2. /\ shown.time \in Int /\ At(seq) \in Nat /\ Moment(shown) \in Int
    BY MomentAny
  <2>3. shown.den \in Nat /\ shown'.den \in Nat
    BY DEF IInv, TypeOK
  <2>4. shown.time <= shown'.time
    <3>1. shown.time = clock - lerp /\ shown'.time = clock' - lerp'
      BY DEF IInv, Computed
    <3>2. PICK d \in Tick : clock' = clock + d
      BY <2>1 DEF ProcessAnimParams, Advance
    <3>3. clock \in Int /\ lerp \in Int /\ d \in Nat
      BY InterpolationAssumption DEF IInv, TypeOK
    <3> QED
      BY <3>1, <3>2, <3>3
  <2>5. At(seq) <= At(seq)'
    <3>1. /\ seq \in Nat /\ seq # 0 /\ seq' = seq + 1 /\ Backup \in Nat /\ Backup >= 4
          /\ ring' = [ring EXCEPT ![SlotOf(seq')] = [num |-> seq', at |-> anim']]
          /\ ring \in [Slot -> Record]
      BY <2>1, ShownFacts, InterpolationAssumption DEF ProcessAnimParams
    <3>2. SlotOf(seq) \in Slot /\ SlotOf(seq') \in Slot /\ SlotOf(seq) # SlotOf(seq')
      <4>1. seq \in Int /\ seq' \in Int /\ seq <= seq' /\ seq' < seq + Backup /\ seq # seq'
        BY <3>1
      <4> QED
        BY <4>1, SlotFits, SlotsApart
    <3>3. ring'[SlotOf(seq)] = ring[SlotOf(seq)]
      BY <3>1, <3>2
    <3>4. seq \in Recent' /\ seq' \in Recent' /\ seq < seq'
      BY <3>1 DEF Recent
    <3>5. ring'[SlotOf(seq)].at <= ring'[SlotOf(seq')].at
      BY <3>4 DEF Steady
    <3> QED
      BY <3>3, <3>5 DEF At
  <2> DEFINE m0 == Moment(shown)
             m1 == Moment(shown')
             d0 == shown.den
             d1 == shown'.den
             t1 == shown'.time
             a0 == At(seq)
             a1 == At(seq)'
  <2>6. /\ m0 \in Int /\ m1 \in Int /\ d0 \in Nat /\ d1 \in Nat
        /\ t1 \in Int /\ a0 \in Int /\ a1 \in Int /\ a0 <= a1
        /\ m1 >= d1 * t1 \/ m1 >= d1 * a1
    BY <2>2, <2>3, <2>5
  <2>7. CASE shown.found
    <3> DEFINE x == IF shown.time <= a0 THEN shown.time ELSE a0
    <3>1. \/ m0 = d0 * shown.time /\ shown.time <= a0
          \/ m0 = d0 * a0 /\ a0 <= shown.time
      BY <2>7, MomentFound
    <3>2. x \in Int /\ m0 = d0 * x /\ x <= shown.time /\ x <= a0 /\ d0 * x \in Int
      BY <2>2, <2>3, <3>1
    <3>3. x <= t1 /\ x <= a1
      BY <2>2, <2>4, <2>6, <3>2
    <3> HIDE DEF x, m0, m1, d0, d1, t1, a0, a1
    <3>4. m0 <= d0 * x
      BY <2>6, <3>2
    <3>5. m1 * d0 >= m0 * d1
      BY <2>6, <3>2, <3>3, <3>4, Compared
    <3> QED
      BY <3>5 DEF m0, m1, d0, d1
  <2>8. CASE ~shown.found
    <3>1. m0 <= d0 * a0
      BY <2>8, MomentMissed
    <3> HIDE DEF m0, m1, d0, d1, t1, a0, a1
    <3>2. CASE m1 >= d1 * t1
      <4>1. m1 >= t1 * d1
        BY <2>6, <3>2
      <4> QED
        BY <2>8, <4>1 DEF m1, d1, t1
    <3>3. CASE m1 >= d1 * a1
      <4>1. m1 * d0 >= m0 * d1
        <5>1. m1 >= d1 * a0
          BY <2>6, <3>3
        <5>2. a0 <= a0
          BY <2>6
        <5> QED
          BY <2>6, <3>1, <5>1, <5>2, Compared
      <4> QED
        BY <4>1 DEF m0, m1, d0, d1
    <3> QED
      BY <2>6, <3>2, <3>3
  <2> QED
    BY <2>7, <2>8
<1> QED
  BY <1>1, <1>2, Inductive, PTL DEF Spec, NeverBack
=============================================================================
