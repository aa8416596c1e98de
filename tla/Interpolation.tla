---------------------------- MODULE Interpolation ----------------------------
(***************************************************************************)
(* Where a player is shown: CL_FindInterpolationUpdates and CL_PureOrigin  *)
(* of src/main.cpp, on the ring of one player in one view (the server's or *)
(* a client's), as ProcessAnimParams fills it packet after packet.         *)
(*                                                                         *)
(* Times are whole ticks of BitTime8 (hundredths of a second).  A position *)
(* is not computed: it is the pair of records it lies between and the      *)
(* fraction of the way from the older to the newer.  Of the angles, which  *)
(* are turned by the same fraction, but from the newer to the older        *)
(* (InterpolateAngles is given ph0 first), the yaw is computed, in whole   *)
(* degrees, of a player who turns by Turn with every tick.                 *)
(***************************************************************************)
EXTENDS Integers, FiniteSetsExt

CONSTANTS
  Backup,      \* SV_UPDATE_BACKUP
  Lerp,        \* values of lastcmd.lerp_msec, in ticks
  Tick,        \* how far the clock may advance from packet to packet
  Turn,        \* degrees by which the player turns in a tick
  MaxSeq,      \* bound: last packet
  MaxClock     \* bound: last tick

ASSUME InterpolationAssumption ==
  /\ Backup \in Nat /\ Backup >= 4
  /\ Lerp \subseteq Nat /\ 0 \in Lerp
  /\ Tick \subseteq Nat \ {0}
  /\ Turn \in Int
  /\ MaxSeq \in Nat /\ MaxClock \in Nat \ {0}

Slot == 0..(Backup - 1)
SlotOf(seq) == seq % Backup

\* A record: the packet it was made for, and its animtime; 0 and 0 when zeroed.
Record == [num : 0..MaxSeq, at : 0..MaxClock]
Zero   == [num |-> 0, at |-> 0]

VARIABLES
  row,         \* whose view: "server" (host 0) or "client"
  seq,         \* ServerFrameId, or netchan.outgoing_sequence of the packet made last
  clock,       \* gpGlobals->time
  anim,        \* the player's animtime: when it last ran a command
  lerp,        \* lastcmd.lerp_msec
  ring,        \* player_params_history[host].hist[..][target]
  shown        \* what CL_PureOrigin computed last, or Nothing: older, newer, num / den of the
               \* position; from, to and yaw / den of the angles

vars == <<row, seq, clock, anim, lerp, ring, shown>>

\* The zeroed record's place.
Nothing == [older |-> Zero, newer |-> Zero, num |-> 0, den |-> 1, found |-> FALSE, time |-> 0,
            from |-> Zero, to |-> Zero, yaw |-> 0]

\* NormalizeAngles, of an angle times den.
NormalizeAngles(a, den) ==
  IF a > 180 * den THEN a - 360 * den ELSE IF a < -180 * den THEN a + 360 * den ELSE a

\* angles[1] of a record: BitAngle brings it to -180..180 (and to 16 bits of a turn).
BitAngle(a) == NormalizeAngles(a % 360, 1)
Yaw(record) == BitAngle(record.at * Turn)

-----------------------------------------------------------------------------
(* The look-up, in the ring r, of time t.  X_Y is X with a slip Y.         *)

\* The i-th record from the newest of the ring whose newest number is n, as the loop of
\* CL_FindInterpolationUpdates meets it: it is called with n + 1.
Nth_FromCurrent(r, n, i) == r[SlotOf(n - i)]
Nth(r, n, i) == r[SlotOf(n + 1 - i)]

\* The loop runs over i in 1..SV_UPDATE_BACKUP - 2, stops at an empty record or at one
\* older than t, and in the latter case has found t.
Stops(r, n, t) ==
  {i \in 1..(Backup - 2) : Nth(r, n, i).at = 0 \/ Nth(r, n, i).at < t}
Found(r, n, t) ==
  Stops(r, n, t) # {} /\ Nth(r, n, Min(Stops(r, n, t))).at # 0

\* ph0 and ph1.
Newer_Same(r, n, t) ==
  IF Found(r, n, t) THEN Nth(r, n, Min(Stops(r, n, t))) ELSE Nth(r, n, 0)
Newer(r, n, t) ==
  IF Found(r, n, t) THEN Nth(r, n, Min(Stops(r, n, t)) - 1) ELSE Nth(r, n, 0)
Older_Swapped(r, n, t) ==
  IF Found(r, n, t) THEN Nth(r, n, Min(Stops(r, n, t))) ELSE Nth(r, n, 0)
Older(r, n, t) ==
  IF Found(r, n, t) THEN Nth(r, n, Min(Stops(r, n, t))) ELSE Nth(r, n, 1)

\* bound(0, p / q, 1.2), as numerator and denominator.
Bound_Above(p, q) ==
  LET num == IF q < 0 THEN -p ELSE p
      den == IF q < 0 THEN -q ELSE q
  IN IF 5 * num < 6 * den THEN <<num, den>> ELSE <<6, 5>>
Bound(p, q) ==
  LET num == IF q < 0 THEN -p ELSE p
      den == IF q < 0 THEN -q ELSE q
  IN IF num < 0 THEN <<0, 1>> ELSE IF 5 * num < 6 * den THEN <<num, den>> ELSE <<6, 5>>

\* The fraction of the way from ph1 to ph0; without a time in ph0, ph1 alone.
Fraction_Reversed(t0, t1, t) ==
  IF t0 = 0 THEN <<0, 1>> ELSE IF t0 = t1 THEN <<1, 1>> ELSE Bound(t - t0, t1 - t0)
Fraction(t0, t1, t) ==
  IF t0 = 0 THEN <<0, 1>> ELSE IF t0 = t1 THEN <<1, 1>> ELSE Bound(t - t1, t0 - t1)

\* InterpolateAngles by num / den, times den.
InterpolateAngles_Long(start, end, num, den) ==
  LET ang1 == NormalizeAngles(start, 1)
      d    == NormalizeAngles(end, 1) - ang1
  IN NormalizeAngles(ang1 * den + d * num, den)
InterpolateAngles(start, end, num, den) ==
  LET ang1 == NormalizeAngles(start, 1)
      d    == NormalizeAngles(NormalizeAngles(end, 1) - ang1, 1)
  IN NormalizeAngles(ang1 * den + d * num, den)

PureOrigin(r, n, t) ==
  LET ph0  == Newer(r, n, t)
      ph1  == Older(r, n, t)
      frac == Fraction(ph0.at, ph1.at, t)
      yaw  == IF ph0.at = 0 THEN Yaw(ph1)
              ELSE InterpolateAngles(Yaw(ph0), Yaw(ph1), frac[1], frac[2])
  IN [older |-> ph1, newer |-> ph0, num |-> frac[1], den |-> frac[2],
      found |-> Found(r, n, t), time |-> t,
      from |-> IF ph0.at = 0 THEN ph1 ELSE ph0, to |-> ph1, yaw |-> yaw]

-----------------------------------------------------------------------------
Init ==
  /\ row \in {"server", "client"}
  /\ seq = 0
  /\ clock = 1
  /\ anim = 1
  /\ lerp = 0
  /\ ring = [s \in Slot |-> Zero]
  /\ shown = Nothing

\* The clock advances; the player may have run a command, its viewer may have changed
\* its interpolation time.
Advance ==
  /\ \E d \in Tick : clock + d <= MaxClock /\ clock' = clock + d
  /\ anim' \in {anim, clock'}
  /\ lerp' \in IF row = "server" THEN {0} ELSE Lerp

\* ProcessAnimParams: the record is written, then the position is looked up in a ring
\* that already holds it.
ProcessAnimParams ==
  /\ seq < MaxSeq
  /\ seq' = seq + 1
  /\ Advance
  /\ ring' = [ring EXCEPT ![SlotOf(seq')] = [num |-> seq', at |-> anim']]
  /\ shown' = PureOrigin(ring', seq', clock' - lerp')
  /\ UNCHANGED row

\* A packet for which the player is not in the game: its slot is left as it is.
Absent ==
  /\ seq < MaxSeq
  /\ seq' = seq + 1
  /\ Advance
  /\ shown' = Nothing
  /\ UNCHANGED <<row, ring>>

\* A new level: the clock starts anew; clients enter the game again and PutInServer
\* clears their rows, but nothing clears the server's.
NewLevel_Uncleared ==
  /\ clock > 1
  /\ clock' = 1 /\ anim' = 1
  /\ shown' = Nothing
  /\ UNCHANGED <<row, seq, lerp, ring>>
NewLevel ==
  /\ clock > 1
  /\ clock' = 1 /\ anim' = 1
  /\ ring' = IF row = "server" THEN ring ELSE [s \in Slot |-> Zero]
  /\ shown' = Nothing
  /\ UNCHANGED <<row, seq, lerp>>

Next == ProcessAnimParams \/ Absent \/ NewLevel

Spec == Init /\ [][Next]_vars

-----------------------------------------------------------------------------
(* Properties.                                                             *)

\* Types of the variables.
TypeOK ==
  /\ row \in {"server", "client"}
  /\ seq \in 0..MaxSeq
  /\ clock \in 1..MaxClock
  /\ anim \in 1..clock
  /\ lerp \in Lerp
  /\ ring \in [Slot -> Record]
  /\ shown.older \in Record /\ shown.newer \in Record
  /\ shown.num \in Nat /\ shown.den \in Nat \ {0}

\* The ring holds the last Backup packets: the player was in all of them, and its
\* animtime never went back (no new level in between).
Recent == {n \in 1..seq : n > seq - Backup}
Steady ==
  /\ \A n \in Recent : ring[SlotOf(n)].num = n
  /\ \A m, n \in Recent : m < n => ring[SlotOf(m)].at <= ring[SlotOf(n)].at
At(n) == ring[SlotOf(n)].at

\* The reference: the last packet whose record is older than t, among those the loop sees.
Before(t) == {n \in Recent : n > seq + 2 - Backup /\ At(n) < t}

\* A time that lies within the remembered packets is interpolated between the two
\* neighbouring packets around it, and by a fraction of at most 1.
Bracketed ==
  shown # Nothing /\ Steady /\ Before(shown.time) # {} /\ At(seq) >= shown.time =>
    LET n == Max(Before(shown.time)) IN
    /\ shown.older.num = n /\ shown.newer.num = n + 1
    /\ shown.num * (At(n + 1) - At(n)) = shown.den * (shown.time - At(n))
    /\ shown.num > 0 /\ shown.num <= shown.den

\* The position a viewer is shown: the newest record alone when the time is later than
\* that record's (the pair is then the newest and the oldest slot of the ring), unless
\* the player's animtime has stood still for a whole round of the ring.
OldestSlot == ring[SlotOf(seq + 1)]
NewestAlone ==
  shown # Nothing /\ Steady /\ At(seq) < shown.time /\ OldestSlot.at < At(seq) =>
    shown.older.num = seq /\ shown.num = 0

\* Whatever gaps and leftovers a ring has, a time that was found is never shown beyond its
\* two records in a client's view.  In the server's, whose row no new level clears, it can
\* be, by a fifth at most: when the newest record is older than the time asked for and the
\* slot it is paired with holds a later record, one of the level before.
Inside ==
  shown.found =>
    \/ shown.num <= shown.den
    \/ row = "server" /\ shown.older.num = seq /\ At(seq) < OldestSlot.at

\* The yaw shown lies between those of the two records, on the shorter way round, and is
\* in range even where it goes beyond the second one.
Way(a, b, den) == LET d == (b - a) % (360 * den) IN IF d > 180 * den THEN 360 * den - d ELSE d
TurnsShort ==
  shown # Nothing =>
    LET a == Yaw(shown.from) * shown.den
        b == Yaw(shown.to) * shown.den
    IN
    /\ shown.num <= shown.den =>
         Way(a, shown.yaw, shown.den) + Way(shown.yaw, b, shown.den) = Way(a, b, shown.den)
    /\ shown.yaw \in (-180 * shown.den)..(180 * shown.den)

\* The moment of the player's past that is shown, times the denominator.
Moment(p) == p.older.at * (p.den - p.num) + p.newer.at * p.num

\* From packet to packet, a viewer with a steady interpolation time is shown a player no
\* further back in its own past than before, unless the time asked for before was not found.
\* Then (a player who has just entered, or a time older than the ring) the newest record
\* was shown, and the player does go back, but to no earlier moment than is asked for now.
NeverBack ==
  [][shown # Nothing /\ shown' # Nothing /\ lerp' = lerp /\ Steady /\ Steady'
       => \/ Moment(shown') * shown.den >= Moment(shown) * shown'.den
          \/ ~shown.found /\ Moment(shown') >= shown'.time * shown'.den]_vars
=============================================================================
