------------------------ MODULE PluginLifecycle_proofs ------------------------
(***************************************************************************)
(* Proofs about PluginLifecycle and PatternScan.                           *)
(*                                                                         *)
(* For an engine that asks for the blending interface at most once, as     *)
(* engines do: whatever engine, module, version, game directory and game   *)
(* library there are, a pose that goes through the plugin finds its way    *)
(* back, and an unload leaves nothing behind.                              *)
(*                                                                         *)
(* However often it asks: the types, and that the scan of an HLDS finds    *)
(* the operands in their first places and faults in no module, where the   *)
(* plugin looks into the module that the engine has.                       *)
(***************************************************************************)
EXTENDS PluginLifecycle, FiniteSetTheorems, WellFoundedInduction, TLAPS

\* What the theorems assume of the engine.
OneRequest == MaxRequest \in {0, 1}

-----------------------------------------------------------------------------
(* The inductive invariant.                                                *)

Own == [t \in Tables |-> t]

\* Types, of what the other parts need.
Types ==
  /\ version \in {"current", "other"}
  /\ plugin \in {"new", "attached", "refused", "unloaded", "crashed"}
  /\ hook \in HookState /\ dlsymHook \in HookState
  /\ found \in {"none", "game", "ours"}
  /\ current \in Tables /\ saved \in Tables \cup {"null"}
  /\ exports \in BOOLEAN /\ orig \in BOOLEAN /\ asked \in BOOLEAN
  /\ requests \in Nat

\* Nothing is hooked before the plugin is attached, and then for the right game; there is
\* one hook, either on the game's function or on dlsym.
Hooked ==
  /\ plugin \in {"new", "refused"} => hook = "null" /\ dlsymHook = "null" /\ ~asked
  /\ hook # "null" \/ dlsymHook # "null" => gameType = GameOf(dir)
  /\ hook # "null" => dlsymHook = "null"

\* The engine has the plugin's function only from the hooked dlsym, which is lifted then.
Handed == found = "ours" => dlsymHook = "removed"

\* The engine has asked once, or never; dlsym is not hooked any more once it has.
Asked ==
  IF asked THEN requests # 0 /\ dlsymHook # "installed" ELSE table = Own

\* What an unload finds, for the version the plugin is made for, and for another one.
Replaced ==
  asked =>
    IF version = "current"
      THEN /\ saved = current
           /\ table = Own \/ table = [Own EXCEPT ![current] = OurFunction(GameOf(dir))]
      ELSE saved \in Tables /\ table \in [Tables -> Tables]

\* Afterwards.
Unloaded ==
  plugin = "unloaded" =>
    asked /\ hook # "installed" /\ (version = "current" => table = Own)

IInv == Types /\ Hooked /\ Handed /\ Asked /\ Replaced /\ Unloaded

-----------------------------------------------------------------------------
LEMMA InitInv == Init => IInv
<1> SUFFICES ASSUME Init PROVE IInv
  OBVIOUS
<1>1. Types
  BY LifecycleAssumption DEF Init, Types, Tables, HookState
<1>2. Hooked /\ Handed /\ Asked /\ Replaced /\ Unloaded
  BY DEF Init, Hooked, Handed, Asked, Replaced, Unloaded, Own
<1> QED
  BY <1>1, <1>2 DEF IInv

\* Attaching.
LEMMA AttachKeeps ==
  ASSUME IInv, NEW made \in BOOLEAN, OnMetaAttach(made)
  PROVE  IInv'
<1>1. /\ plugin = "new"
      /\ hook = "null" /\ dlsymHook = "null" /\ ~asked /\ found # "ours"
  BY DEF IInv, Hooked, Handed, OnMetaAttach
<1>2. UNCHANGED <<hosts, found, current, table, saved, asked, requests>>
  BY DEF OnMetaAttach
<1>3. \/ /\ plugin' = "attached" /\ gameType' = GameOf(dir)
         /\ orig' = exports
         /\ hook' = IF exports /\ made THEN "installed" ELSE hook
         /\ dlsymHook' = IF ~exports /\ made THEN "installed" ELSE dlsymHook
      \/ /\ plugin' \in {"crashed", "refused"}
         /\ UNCHANGED <<orig, hook, dlsymHook>>
  BY DEF OnMetaAttach
<1>4. Types'
  BY <1>2, <1>3 DEF IInv, Types, HookState, hosts
<1>5. Hooked' /\ Handed'
  BY <1>1, <1>2, <1>3 DEF Hooked, Handed, hosts, GameOf
<1>6. Asked' /\ Replaced' /\ Unloaded'
  BY <1>1, <1>2, <1>3 DEF IInv, Asked, Replaced, Unloaded, Own
<1> QED
  BY <1>4, <1>5, <1>6 DEF IInv

\* A look-up.
LEMMA DlsymKeeps ==
  ASSUME IInv, NEW name, Dlsym(name)
  PROVE  IInv'
<1>1. UNCHANGED <<hosts, gameType, orig, hook, current, table, saved, asked, requests>>
  BY DEF Dlsym
<1>2. \/ plugin' = "crashed" /\ UNCHANGED <<dlsymHook, found>>
      \/ UNCHANGED <<plugin, dlsymHook, found>>
      \/ UNCHANGED <<plugin, dlsymHook>> /\ dlsymHook # "installed" /\ found' \in {"game", "none"}
      \/ UNCHANGED plugin /\ dlsymHook = "installed" /\ dlsymHook' = "removed" /\ found' = "ours"
  BY DEF Dlsym, Install, Remove, IInv, Types
<1>3. Types'
  BY <1>1, <1>2 DEF IInv, Types, HookState, hosts
<1>4. Hooked' /\ Handed'
  BY <1>1, <1>2 DEF IInv, Types, Hooked, Handed, HookState, hosts, GameOf
<1>5. Asked' /\ Replaced' /\ Unloaded'
  BY <1>1, <1>2 DEF IInv, Asked, Replaced, Unloaded, Own, hosts, OurFunction, GameOf
<1> QED
  BY <1>3, <1>4, <1>5 DEF IInv

\* The engine asks, and is answered by the game or by the plugin.
LEMMA RequestKeeps ==
  ASSUME OneRequest, IInv, Request
  PROVE  IInv'
<1>1. /\ plugin # "crashed" /\ found # "none" /\ requests = 0 /\ requests' = 1
      /\ UNCHANGED <<hosts, gameType, orig, dlsymHook, found>>
  BY DEF OneRequest, Request, IInv, Types
<1>2. ~asked /\ table = Own
  BY <1>1 DEF IInv, Asked
<1>3. plugin # "unloaded"
  BY <1>2 DEF IInv, Unloaded
<1>4. CASE found = "ours" \/ hook = "installed"
  <2>1. /\ Server_GetBlendingInterface /\ UNCHANGED plugin
        /\ plugin = "attached" /\ gameType = GameOf(dir) /\ dlsymHook # "installed"
    BY <1>1, <1>3, <1>4 DEF Request, IInv, Types, Hooked, Handed
  <2>2. /\ PointedTo \in Tables /\ Own[PointedTo] = PointedTo
        /\ "engine" \in Tables
    BY DEF PointedTo, IInv, Types, Own, Tables
  <2>3. /\ asked' /\ asked' \in BOOLEAN /\ saved' = PointedTo
        /\ hook' = IF hook = "null" THEN "null" ELSE "installed"
    BY <1>2, <2>1, <2>2 DEF Server_GetBlendingInterface, Install, Remove
  <2>4. IF version = "current"
          THEN /\ table' = [Own EXCEPT ![PointedTo] = OurFunction(GameOf(dir))]
               /\ current' = PointedTo
          ELSE current' = "engine" /\ table' = Own
    BY <1>2, <2>1 DEF Server_GetBlendingInterface
  <2>5. Types'
    BY <1>1, <2>1, <2>2, <2>3, <2>4 DEF IInv, Types, HookState, hosts
  <2>6. Hooked' /\ Handed'
    BY <1>1, <2>1, <2>3 DEF IInv, Hooked, Handed, hosts, GameOf
  <2>7. OurFunction(GameOf(dir))' = OurFunction(GameOf(dir))
    BY <1>1 DEF hosts, OurFunction, GameOf
  <2>8. Own \in [Tables -> Tables] /\ Own' = Own
    BY DEF Own
  <2>9. Asked' /\ Replaced' /\ Unloaded'
    BY <1>1, <2>1, <2>2, <2>3, <2>4, <2>7, <2>8 DEF Asked, Replaced, Unloaded, hosts
  <2> QED
    BY <2>5, <2>6, <2>9 DEF IInv
<1>5. CASE ~(found = "ours" \/ hook = "installed")
  <2>1. /\ UNCHANGED <<plugin, hook, table, saved, asked>>
        /\ current' \in {"game", "engine"}
    BY <1>5 DEF Request
  <2>2. Types'
    BY <1>1, <2>1 DEF IInv, Types, HookState, hosts, Tables
  <2>3. Hooked' /\ Handed'
    BY <1>1, <2>1 DEF IInv, Hooked, Handed, hosts, GameOf
  <2>4. Asked' /\ Replaced' /\ Unloaded'
    BY <1>1, <1>2, <1>3, <2>1 DEF Asked, Replaced, Unloaded, Own
  <2> QED
    BY <2>2, <2>3, <2>4 DEF IInv
<1> QED
  BY <1>4, <1>5

\* The plugin is unloaded.
LEMMA DetachKeeps ==
  ASSUME IInv, OnMetaDetach
  PROVE  IInv'
<1>1. /\ plugin = "attached"
      /\ hook' = Remove(hook) /\ hook' \in HookState /\ hook' # "installed"
      /\ hook = "null" => hook' = "null"
      /\ UNCHANGED <<hosts, gameType, orig, dlsymHook, found, current, saved, asked, requests>>
  BY DEF OnMetaDetach, Remove, HookState
<1>2. \/ asked /\ table' = [table EXCEPT ![current] = saved] /\ plugin' = "unloaded"
      \/ ~asked /\ table' = table /\ plugin' = "crashed"
  BY DEF OnMetaDetach, Restored
<1>3. Types'
  BY <1>1, <1>2 DEF IInv, Types, hosts
<1>4. Hooked' /\ Handed'
  BY <1>1, <1>2 DEF IInv, Hooked, Handed, hosts, GameOf
<1>5. CASE asked /\ version = "current"
  <2>1. saved = current /\ current \in Tables /\ Own' = Own
    BY <1>5 DEF IInv, Replaced, Types, Own
  <2>2. table' = Own
    BY <1>2, <1>5, <2>1 DEF IInv, Replaced, Own
  <2> QED
    BY <1>1, <1>2, <1>3, <1>4, <1>5, <2>1, <2>2
    DEF IInv, Asked, Replaced, Unloaded, hosts
<1>6. CASE asked /\ version # "current"
  <2>1. saved \in Tables /\ table' \in [Tables -> Tables]
    BY <1>2, <1>6 DEF IInv, Replaced, Types
  <2> QED
    BY <1>1, <1>2, <1>3, <1>4, <1>6, <2>1 DEF IInv, Asked, Replaced, Unloaded, hosts
<1>7. CASE ~asked
  BY <1>1, <1>2, <1>3, <1>4, <1>7 DEF IInv, Asked, Replaced, Unloaded, Own
<1> QED
  BY <1>5, <1>6, <1>7

\* The invariant holds throughout.
THEOREM Inductive ==
  ASSUME OneRequest
  PROVE  Spec => []IInv
<1>1. IInv /\ [Next]_vars => IInv'
  <2> SUFFICES ASSUME IInv, [Next]_vars PROVE IInv'
    OBVIOUS
  <2>1. CASE UNCHANGED vars
    BY <2>1 DEF vars, hosts, IInv, Types, Hooked, Handed, Asked, Replaced, Unloaded, Own,
                OurFunction, GameOf
  <2>2. CASE Next
    BY <2>2, AttachKeeps, DlsymKeeps, RequestKeeps, DetachKeeps DEF Next
  <2> QED
    BY <2>1, <2>2
<1> QED
  BY InitInv, <1>1, PTL DEF Spec

\* A pose that goes through the plugin finds the function that would have posed without
\* it (the fallback of both set-ups, orig_interface), and is of the right game.
THEOREM FallbackHolds ==
  ASSUME OneRequest
  PROVE  Spec => []Fallback
<1>1. IInv => Fallback
  <2> SUFFICES ASSUME IInv, table[current] \in Ours
               PROVE  saved = current /\ table[current] = OurFunction(GameOf(dir))
    BY DEF Fallback
  <2>1. /\ current \in Tables /\ Own[current] = current /\ current \notin Ours
        /\ \A t \in Tables : t \notin Ours
    BY DEF IInv, Types, Own, Tables, Ours
  <2>2. asked
    BY <2>1 DEF IInv, Asked
  <2>3. version = "current"
    BY <2>1, <2>2 DEF IInv, Replaced
  <2>4. saved = current /\ table = [Own EXCEPT ![current] = OurFunction(GameOf(dir))]
    BY <2>1, <2>2, <2>3 DEF IInv, Replaced
  <2> QED
    BY <2>1, <2>4 DEF Own
<1> QED
  BY <1>1, Inductive, PTL

\* Once unloaded the plugin leaves nothing behind that leads into it.
THEOREM CleanUnloads ==
  ASSUME OneRequest
  PROVE  Spec => []CleanUnload
<1>1. IInv => CleanUnload
  <2> SUFFICES ASSUME IInv, plugin = "unloaded"
               PROVE  /\ \A t \in Tables : table[t] \notin Ours
                      /\ version = "current" => table = Own
                      /\ hook # "installed" /\ dlsymHook # "installed"
    BY DEF CleanUnload, Own
  <2>1. /\ asked /\ hook # "installed" /\ dlsymHook # "installed"
        /\ version = "current" => table = Own
    BY DEF IInv, Unloaded, Asked
  <2>2. table \in [Tables -> Tables]
    BY <2>1 DEF IInv, Replaced, Own
  <2>3. \A t \in Tables : t \notin Ours
    BY DEF Tables, Ours
  <2> QED
    BY <2>1, <2>2, <2>3
<1> QED
  BY <1>1, Inductive, PTL

-----------------------------------------------------------------------------
(* Words and operands.                                                     *)

\* Every set of naturals has a least element.
LEMMA LeastOf ==
  ASSUME NEW S \in SUBSET Nat, S # {}
  PROVE  Min(S) \in S /\ \A y \in S : Min(S) <= y
<1> DEFINE R == OpToRel(<, Nat)
<1>1. PICK x \in S : \A y \in S : ~ (<<y, x>> \in R)
  <2>1. IsWellFoundedOn(R, Nat)
    BY NatLessThanWellFounded
  <2> QED
    BY <2>1, WFMin
<1>2. ASSUME NEW y \in S PROVE <<y, x>> \in R <=> y < x
  <2>1. R = {ss \in Nat \X Nat : ss[1] < ss[2]}
    BY Zenon DEF OpToRel
  <2> QED
    BY <2>1
<1> HIDE DEF R
<1>3. ASSUME NEW y \in S PROVE x <= y
  <2>1. ~ (y < x)
    BY <1>1, <1>2, Zenon
  <2>2. x \in Nat /\ y \in Nat
    OBVIOUS
  <2> QED
    BY <2>1, <2>2
<1> QED
  BY <1>3 DEF Min

\* A least element is the Min.
LEMMA MinIs ==
  ASSUME NEW S \in SUBSET Int, NEW x \in S, \A y \in S : x <= y
  PROVE  Min(S) = x
<1>1. Min(S) \in S /\ \A y \in S : Min(S) <= y
  BY DEF Min
<1>2. Min(S) <= x /\ x <= Min(S) /\ x \in Int /\ Min(S) \in Int
  BY <1>1
<1> QED
  BY <1>2

\* What the bytes of a word count for from byte o on.
Counts(bytes, g, n) ==
  /\ g \in [(WordSize + 1 - n)..(WordSize + 1) -> Nat]
  /\ \A o \in (WordSize + 1 - n)..(WordSize + 1) :
       g[o] = IF o > WordSize THEN 0 ELSE 256 * g[o + 1] + bytes[o]

\* The recursion of Number reaches the first byte of the word.
LEMMA CountsExist ==
  ASSUME NEW bytes \in [1..WordSize -> Nat]
  PROVE  \E g : Counts(bytes, g, WordSize)
<1> DEFINE Bad == {n \in 0..WordSize : ~ \E g : Counts(bytes, g, n)}
<1>0. WordSize \in Nat /\ WordSize > 0
  BY ScanAssumption
<1>1. CASE Bad = {}
  <2>1. WordSize \notin Bad
    BY <1>1
  <2> QED
    BY <1>0, <2>1
<1>2. CASE Bad # {}
  <2>1. PICK n \in Bad : \A m \in Bad : n <= m
    <3>1. Bad \in SUBSET Nat
      BY <1>0
    <3> HIDE DEF Bad
    <3> QED
      BY <3>1, <1>2, LeastOf
  <2>2. n \in 0..WordSize /\ ~ \E g : Counts(bytes, g, n)
    OBVIOUS
  <2>3. CASE n = 0
    <3> DEFINE h == [o \in (WordSize + 1)..(WordSize + 1) |-> 0]
    <3>1. Counts(bytes, h, 0)
      BY <1>0 DEF Counts
    <3> QED
      BY <2>2, <2>3, <3>1
  <2>4. CASE n # 0
    <3>1. n - 1 \in 0..WordSize /\ ~ (n <= n - 1)
      BY <1>0, <2>2, <2>4
    <3>2. PICK g : Counts(bytes, g, n - 1)
      <4>1. n - 1 \notin Bad
        BY <2>1, <3>1
      <4> QED
        BY <3>1, <4>1
    <3> DEFINE a == WordSize + 1 - n
               h == [o \in a..(WordSize + 1) |->
                       IF o = a THEN 256 * g[a + 1] + bytes[a] ELSE g[o]]
    <3> HIDE DEF Bad
    <3>3. a \in 1..WordSize /\ a + 1 = WordSize + 1 - (n - 1) /\ n \in Nat
      BY <1>0, <2>2, <2>4
    <3>4. g \in [(a + 1)..(WordSize + 1) -> Nat]
      BY <3>2, <3>3 DEF Counts
    <3> HIDE DEF a
    <3>5. 256 * g[a + 1] + bytes[a] \in Nat
      BY <1>0, <3>3, <3>4
    <3>6. h \in [a..(WordSize + 1) -> Nat]
      <4> SUFFICES ASSUME NEW o \in a..(WordSize + 1)
                   PROVE  (IF o = a THEN 256 * g[a + 1] + bytes[a] ELSE g[o]) \in Nat
        OBVIOUS
      <4>1. CASE o = a
        BY <3>5, <4>1
      <4>2. CASE o # a
        <5>1. o \in (a + 1)..(WordSize + 1)
          BY <1>0, <3>3, <4>2
        <5> QED
          BY <3>4, <4>2, <5>1
      <4> QED
        BY <4>1, <4>2
    <3>7. ASSUME NEW o \in a..(WordSize + 1)
          PROVE  h[o] = IF o > WordSize THEN 0 ELSE 256 * h[o + 1] + bytes[o]
      <4>1. CASE o = a
        <5>1. o + 1 \in a..(WordSize + 1) /\ o + 1 # a /\ ~ (o > WordSize)
          BY <1>0, <3>3, <4>1
        <5>2. h[o] = 256 * g[a + 1] + bytes[a] /\ h[o + 1] = g[a + 1]
          BY <4>1, <5>1
        <5> QED
          BY <4>1, <5>1, <5>2
      <4>2. CASE o # a
        <5>1. o \in (a + 1)..(WordSize + 1)
          BY <1>0, <3>3, <4>2
        <5>2. h[o] = g[o]
          BY <4>2
        <5>3. g[o] = IF o > WordSize THEN 0 ELSE 256 * g[o + 1] + bytes[o]
          BY <3>2, <3>3, <5>1 DEF Counts
        <5>4. CASE o > WordSize
          BY <5>2, <5>3, <5>4
        <5>5. CASE ~(o > WordSize)
          <6>1. o + 1 \in a..(WordSize + 1) /\ o + 1 # a
            BY <1>0, <3>3, <5>1, <5>5
          <6>2. h[o + 1] = g[o + 1]
            BY <6>1
          <6> QED
            BY <5>2, <5>3, <5>5, <6>2
        <5> QED
          BY <5>4, <5>5
      <4> QED
        BY <4>1, <4>2
    <3>8. Counts(bytes, h, n)
      <4> HIDE DEF h
      <4> QED
        BY <3>6, <3>7 DEF Counts, a
    <3> QED
      BY <2>2, <3>8
  <2> QED
    BY <2>3, <2>4
<1> QED
  BY <1>1, <1>2

\* A word is a number.
LEMMA NumberFits ==
  ASSUME NEW bytes \in [1..WordSize -> Nat]
  PROVE  Number(bytes) \in Nat
<1> DEFINE From == CHOOSE g : g = [o \in 1..(WordSize + 1) |->
                     IF o > WordSize THEN 0 ELSE 256 * g[o + 1] + bytes[o]]
<1>0. WordSize \in Nat /\ WordSize > 0
  BY ScanAssumption
<1>1. Number(bytes) = From[1]
  BY Zenon DEF Number
<1>2. PICK g : Counts(bytes, g, WordSize)
  BY CountsExist
<1>3. /\ g \in [1..(WordSize + 1) -> Nat]
      /\ \A o \in 1..(WordSize + 1) :
           g[o] = IF o > WordSize THEN 0 ELSE 256 * g[o + 1] + bytes[o]
  <2>1. WordSize + 1 - WordSize = 1
    BY <1>0
  <2> QED
    BY <1>2, <2>1 DEF Counts
<1>4. g = [o \in 1..(WordSize + 1) |->
             IF o > WordSize THEN 0 ELSE 256 * g[o + 1] + bytes[o]]
  BY <1>3
<1>5. From = [o \in 1..(WordSize + 1) |->
                IF o > WordSize THEN 0 ELSE 256 * From[o + 1] + bytes[o]]
  BY <1>4, Zenon
<1> HIDE DEF From
<1> DEFINE Odd == {n \in 0..WordSize : From[WordSize + 1 - n] \notin Nat}
<1>6. CASE Odd = {}
  <2>1. WordSize \in 0..WordSize /\ WordSize + 1 - WordSize = 1
    BY <1>0
  <2> QED
    BY <1>1, <1>6, <2>1
<1>7. CASE Odd # {}
  <2>1. PICK n \in Odd : \A m \in Odd : n <= m
    <3>1. Odd \in SUBSET Nat
      BY <1>0
    <3> HIDE DEF Odd
    <3> QED
      BY <3>1, <1>7, LeastOf
  <2> DEFINE a == WordSize + 1 - n
  <2>2. n \in 0..WordSize /\ From[a] \notin Nat
    OBVIOUS
  <2>3. a \in 1..(WordSize + 1)
    BY <1>0, <2>2
  <2>4. From[a] = IF a > WordSize THEN 0 ELSE 256 * From[a + 1] + bytes[a]
    <3> HIDE DEF a
    <3> QED
      BY <1>5, <2>3
  <2>5. ~(a > WordSize)
    BY <2>2, <2>4
  <2>6. n - 1 \in 0..WordSize /\ WordSize + 1 - (n - 1) = a + 1 /\ ~(n <= n - 1)
    BY <1>0, <2>2, <2>5
  <2>7. From[a + 1] \in Nat
    <3>1. n - 1 \notin Odd
      BY <2>1, <2>6
    <3> HIDE DEF a
    <3> QED
      BY <2>6, <3>1
  <2>8. bytes[a] \in Nat
    BY <2>3, <2>5, <1>0
  <2> HIDE DEF a
  <2> QED
    BY <2>2, <2>4, <2>5, <2>7, <2>8
<1> QED
  BY <1>6, <1>7
-----------------------------------------------------------------------------
(* The scan.                                                               *)

\* A sequence over a set is one over any larger one.
LEMMA SeqWiden ==
  ASSUME NEW S, NEW T, S \subseteq T, NEW s \in Seq(S)
  PROVE  s \in Seq(T) /\ Len(s) \in Nat /\ \A k \in 1..Len(s) : s[k] \in S
  OBVIOUS

LEMMA Division ==
  ASSUME NEW a \in Nat
  PROVE  /\ a \div WordSize \in Nat
         /\ a % WordSize \in 0..(WordSize - 1)
         /\ a = (a \div WordSize) * WordSize + (a % WordSize)
  BY ScanAssumption

\* Products of naturals keep an order.
LEMMA Times ==
  ASSUME NEW a \in Int, NEW b \in Int, NEW w \in Nat, a <= b
  PROVE  a * w <= b * w /\ a * w \in Int /\ b * w \in Int
  OBVIOUS

\* The bytes of a pattern, word by word.
LEMMA ByWords ==
  ASSUME NEW bytes \in Seq(Int), Len(bytes) # 0
  PROVE  /\ Words(bytes) \in Nat \ {0}
         /\ Len(bytes) <= WordSize * Words(bytes)
         /\ \A k \in 1..Len(bytes) : \E o \in 0..(Words(bytes) - 1), b \in 1..WordSize :
              k = o * WordSize + b
<1>0. WordSize \in Nat /\ WordSize > 0 /\ Len(bytes) \in Nat /\ Len(bytes) > 0
  BY ScanAssumption
<1> DEFINE n == Len(bytes) - 1
           q == n \div WordSize
<1>1. n \in Nat
  BY <1>0
<1> HIDE DEF n
<1>2. q \in Nat /\ n % WordSize \in 0..(WordSize - 1) /\ n = q * WordSize + (n % WordSize)
  BY <1>1, Division
<1>3. Words(bytes) = q + 1
  BY DEF Words, n
<1> HIDE DEF q
<1>4. WordSize * Words(bytes) = q * WordSize + WordSize
  BY <1>0, <1>2, <1>3
<1>5. Len(bytes) <= WordSize * Words(bytes)
  <2>1. q * WordSize \in Int
    BY <1>0, <1>2
  <2> QED
    BY <1>0, <1>2, <1>4, <2>1 DEF n
<1>6. ASSUME NEW k \in 1..Len(bytes)
      PROVE  \E o \in 0..(Words(bytes) - 1), b \in 1..WordSize : k = o * WordSize + b
  <2> DEFINE o == (k - 1) \div WordSize
             b == (k - 1) % WordSize
  <2>1. k - 1 \in Nat /\ k - 1 <= n
    BY <1>0 DEF n
  <2>2. o \in Nat /\ b \in 0..(WordSize - 1) /\ k - 1 = o * WordSize + b
    BY <2>1, Division
  <2> HIDE DEF o, b
  <2>3. o <= q
    <3>1. CASE q + 1 <= o
      <4>1. (q + 1) * WordSize <= o * WordSize /\ o * WordSize \in Int
        BY <1>0, <1>2, <2>2, <3>1, Times
      <4>2. (q + 1) * WordSize = q * WordSize + WordSize /\ q * WordSize \in Int
        BY <1>0, <1>2
      <4> QED
        BY <1>0, <1>1, <1>2, <2>1, <2>2, <4>1, <4>2
    <3> QED
      BY <1>2, <2>2, <3>1
  <2>4. o \in 0..(Words(bytes) - 1) /\ b + 1 \in 1..WordSize
    BY <1>0, <1>2, <1>3, <2>2, <2>3
  <2>5. k = o * WordSize + (b + 1)
    <3>1. o * WordSize \in Int
      BY <1>0, <2>2
    <3> QED
      BY <1>0, <2>2, <3>1
  <2> QED
    BY <2>4, <2>5
<1> QED
  BY <1>0, <1>2, <1>3, <1>5, <1>6

\* Where all words of the pattern lie within the module.
Inside(module, bytes, i) ==
  Base <= i /\ i + WordSize * Words(bytes) <= Base + Len(module)

\* There no read is a fault, and the words match where the bytes do.
LEMMA CompareInside ==
  ASSUME NEW bytes \in Seq(Int), Len(bytes) # 0,
         \A k \in 1..Len(bytes) : bytes[k] \in 0..255 \/ bytes[k] = -1,
         NEW module \in Seq(0..255), module # Absent,
         NEW i \in Nat, Inside(module, bytes, i)
  PROVE  Compare(module, i, ProduceScanData(bytes)) =
           IF \A k \in 1..Len(bytes) : bytes[k] \in {Wild, module[i - Base + k]}
             THEN "hit" ELSE "miss"
<1> DEFINE words == ProduceScanData(bytes)
           W == Words(bytes)
<1>0. /\ WordSize \in Nat /\ WordSize > 0 /\ Base \in Nat
      /\ Len(bytes) \in Nat /\ Len(module) \in Nat
  BY ScanAssumption
<1>1. /\ W \in Nat \ {0}
      /\ \A k \in 1..Len(bytes) : \E o \in 0..(W - 1), b \in 1..WordSize :
           k = o * WordSize + b
  BY ByWords
<1>2. /\ DOMAIN words = 0..(W - 1)
      /\ \A o \in 0..(W - 1) : \A b \in 1..WordSize :
           /\ words[o].data[b] = DataByte(bytes, o * WordSize + b)
           /\ words[o].mask[b] = MaskByte(bytes, o * WordSize + b)
  BY DEF ProduceScanData
<1>3. Base <= i /\ i + W * WordSize <= Base + Len(module)
  BY <1>0, <1>1 DEF Inside
<1> HIDE DEF words, W
<1>4. ASSUME NEW o \in 0..(W - 1), NEW b \in 1..WordSize
      PROVE  /\ o * WordSize + b \in Nat \ {0}
             /\ i + o * WordSize + b - 1 \in Base..(Base + Len(module) - 1)
  <2>1. (o + 1) * WordSize <= W * WordSize /\ W * WordSize \in Int
    BY <1>0, <1>1, Times
  <2> DEFINE x == o * WordSize
             y == W * WordSize
  <2>2. (o + 1) * WordSize = x + WordSize /\ x \in Nat /\ y \in Int
    BY <1>0, <1>1
  <2>3. x + WordSize <= y /\ i + y <= Base + Len(module)
    BY <1>3, <2>1, <2>2
  <2> HIDE DEF x, y
  <2>4. x + b \in Nat \ {0} /\ i + x + b - 1 \in Base..(Base + Len(module) - 1)
    BY <1>0, <1>3, <2>2, <2>3
  <2> QED
    BY <2>4 DEF x
<1>5. ASSUME NEW o \in 0..(W - 1)
      PROVE  Readable(module, i + o * WordSize)
  <2> SUFFICES ASSUME NEW b \in 0..(WordSize - 1)
               PROVE  Mapped(module, i + o * WordSize + b)
    BY DEF Readable
  <2>1. b + 1 \in 1..WordSize /\ o * WordSize \in Int
    BY <1>0, <1>1
  <2>2. i + o * WordSize + (b + 1) - 1 \in Base..(Base + Len(module) - 1)
    BY <1>4, <2>1
  <2> QED
    BY <1>0, <2>1, <2>2 DEF Mapped
<1>6. ASSUME NEW o \in 0..(W - 1), NEW b \in 1..WordSize
      PROVE  words[o].data[b] =
               (IF words[o].mask[b] = 255 THEN 255
                ELSE Byte(module, i + o * WordSize + b - 1))
             <=> LET k == o * WordSize + b IN
                 k <= Len(bytes) => bytes[k] \in {Wild, module[i - Base + k]}
  <2> DEFINE k == o * WordSize + b
  <2>1. k \in Nat \ {0} /\ o * WordSize \in Int
    <3>1. o * WordSize \in Int
      BY <1>0, <1>1
    <3> QED
      BY <1>4, <3>1
  <2>2. Byte(module, i + o * WordSize + b - 1) = module[i - Base + k]
    <3> DEFINE x == i + o * WordSize + b - 1
    <3>1. x - Base + 1 = i - Base + k
      BY <1>0, <2>1
    <3> HIDE DEF x
    <3>2. Byte(module, x) = module[i - Base + k]
      BY <3>1 DEF Byte
    <3> QED
      BY <3>2 DEF x
  <2>3. words[o].data[b] = DataByte(bytes, k) /\ words[o].mask[b] = MaskByte(bytes, k)
    BY <1>2
  <2> HIDE DEF k
  <2>4. CASE k <= Len(bytes)
    <3>1. bytes[k] \in 0..255 \/ bytes[k] = -1
      <4>1. k \in 1..Len(bytes)
        BY <1>0, <2>1, <2>4
      <4> QED
        BY <4>1
    <3>2. CASE bytes[k] = -1
      <4>1. MaskByte(bytes, k) = 255 /\ DataByte(bytes, k) = 255
        BY <3>2 DEF MaskByte, DataByte
      <4> QED
        BY <2>3, <3>2, <4>1 DEF Wild, k
    <3>3. CASE bytes[k] # -1
      <4> DEFINE v == bytes[k]
      <4>0. v \in 0..255
        BY <3>1, <3>3
      <4> HIDE DEF v
      <4>1. ~(k > Len(bytes)) /\ ~(v < 0)
        BY <1>0, <2>1, <2>4, <4>0
      <4>2. MaskByte(bytes, k) = 0 /\ DataByte(bytes, k) = bytes[k]
        BY <2>4, <4>1 DEF MaskByte, DataByte, v
      <4> QED
        BY <2>2, <2>3, <2>4, <3>1, <3>3, <4>2 DEF Wild, k
    <3> QED
      BY <3>2, <3>3
  <2>5. CASE ~(k <= Len(bytes))
    <3>1. MaskByte(bytes, k) = 255 /\ DataByte(bytes, k) = 255
      BY <1>0, <2>1, <2>5 DEF MaskByte, DataByte
    <3> QED
      BY <2>3, <2>5, <3>1 DEF k
  <2> QED
    BY <2>4, <2>5
<1> DEFINE stops == {o \in DOMAIN words : \/ ~Readable(module, i + o * WordSize)
                                          \/ Misses(module, i + o * WordSize, words[o])}
           match == \A k \in 1..Len(bytes) : bytes[k] \in {Wild, module[i - Base + k]}
<1>7. stops = {} <=> match
  <2>1. ASSUME stops = {}, NEW k \in 1..Len(bytes)
        PROVE  bytes[k] \in {Wild, module[i - Base + k]}
    <3>1. PICK o \in 0..(W - 1), b \in 1..WordSize : k = o * WordSize + b
      BY <1>1
    <3>2. ~Misses(module, i + o * WordSize, words[o])
      BY <1>2, <2>1
    <3>3. words[o].data[b] = (IF words[o].mask[b] = 255 THEN 255
                              ELSE Byte(module, i + o * WordSize + b - 1))
      BY <3>2 DEF Misses
    <3>4. k <= Len(bytes)
      BY <1>0
    <3> QED
      BY <1>6, <3>1, <3>3, <3>4
  <2>2. ASSUME match, NEW o \in stops PROVE FALSE
    <3>1. o \in 0..(W - 1)
      BY <1>2
    <3>2. Misses(module, i + o * WordSize, words[o])
      BY <1>5, <3>1
    <3>3. PICK b \in 1..WordSize :
            words[o].data[b] # (IF words[o].mask[b] = 255 THEN 255
                                ELSE Byte(module, i + o * WordSize + b - 1))
      BY <3>2 DEF Misses
    <3> DEFINE k == o * WordSize + b
    <3>4. k <= Len(bytes) /\ ~(bytes[k] \in {Wild, module[i - Base + k]})
      BY <1>6, <3>1, <3>3
    <3>5. k \in Nat \ {0}
      BY <1>4, <3>1
    <3> HIDE DEF k
    <3>6. k \in 1..Len(bytes)
      BY <1>0, <3>4, <3>5
    <3> QED
      BY <2>2, <3>4, <3>6
  <2> QED
    BY <2>1, <2>2
<1>8. CASE stops = {}
  <2>1. Compare(module, i, words) = "hit"
    BY <1>8 DEF Compare
  <2> QED
    BY <1>7, <1>8, <2>1 DEF words
<1>9. CASE stops # {}
  <2>1. stops \subseteq 0..(W - 1) /\ stops \in SUBSET Nat
    BY <1>1, <1>2
  <2>2. Compare(module, i, words) =
          IF Readable(module, i + Min(stops) * WordSize) THEN "miss" ELSE "fault"
    BY <1>9 DEF Compare
  <2>3. Min(stops) \in 0..(W - 1)
    <3> HIDE DEF stops
    <3> QED
      BY <1>9, <2>1, LeastOf
  <2>4. Compare(module, i, words) = "miss"
    <3> HIDE DEF stops
    <3> QED
      BY <1>5, <2>2, <2>3
  <2> QED
    BY <1>7, <1>9, <2>4 DEF words
<1> QED
  BY <1>8, <1>9

\* Where the bytes of a pattern occur with room for its words, and a byte to spare.
Matches(bytes, module) ==
  {k \in 0..(Len(module) - WordSize * Words(bytes) - 1) :
     \A o \in 1..Len(bytes) : bytes[o] \in {Wild, module[k + o]}}

\* The bounds of the scan, without a wrap.
LEMMA LimitIs ==
  ASSUME NEW end \in 0..AddrSpace, NEW llength \in Nat \ {0}, llength <= AddrSpace
  PROVE  Limit(end, llength) = IF llength <= end THEN end - llength
                                                 ELSE AddrSpace + end - llength
<1>0. AddrSpace \in Nat /\ AddrSpace > 0
  BY ScanAssumption
<1>1. \A a \in 0..(AddrSpace - 1) : a % AddrSpace = a /\ (a - AddrSpace) % AddrSpace = a
  BY <1>0
<1> DEFINE a == end - llength
<1>2. CASE llength <= end
  <2>1. a \in 0..(AddrSpace - 1)
    BY <1>0, <1>2
  <2> QED
    BY <1>1, <1>2, <2>1 DEF Limit
<1>3. CASE ~(llength <= end)
  <2>1. a + AddrSpace \in 0..(AddrSpace - 1) /\ (a + AddrSpace) - AddrSpace = a
    BY <1>0, <1>3
  <2>2. a + AddrSpace = AddrSpace + end - llength
    BY <1>0
  <2> HIDE DEF a
  <2>3. a % AddrSpace = a + AddrSpace
    BY <1>1, <2>1
  <2> QED
    BY <1>3, <2>2, <2>3 DEF Limit, a
<1> QED
  BY <1>2, <1>3

\* A scan of a module finds the first match.
LEMMA ScanInside ==
  ASSUME NEW bytes \in Seq(Int), Len(bytes) # 0,
         \A k \in 1..Len(bytes) : bytes[k] \in 0..255 \/ bytes[k] = -1,
         NEW module \in Seq(0..255), module # Absent, Base + Len(module) <= AddrSpace,
         WordSize * Words(bytes) <= Base
  PROVE  ScanPattern(module, Base, Base + Len(module), ProduceScanData(bytes)) =
           IF Matches(bytes, module) = {} THEN 0 ELSE Base + Min(Matches(bytes, module))
<1> DEFINE words == ProduceScanData(bytes)
           L     == WordSize * Words(bytes)
           limit == Limit(Base + Len(module), WordSize * Cardinality(DOMAIN words))
           stops == {i \in Base..(limit - 1) : Compare(module, i, words) # "miss"}
<1>0. /\ WordSize \in Nat /\ WordSize > 0 /\ Base \in Nat /\ Base > 0 /\ Base <= AddrSpace
      /\ AddrSpace \in Nat /\ Len(module) \in Nat
  BY ScanAssumption
<1>1. Words(bytes) \in Nat \ {0} /\ L \in Nat \ {0}
  <2>1. Words(bytes) \in Nat \ {0}
    BY ByWords
  <2> QED
    BY <1>0, <2>1
<1>2. Cardinality(DOMAIN words) = Words(bytes)
  <2>1. DOMAIN words = 0..(Words(bytes) - 1)
    BY DEF ProduceScanData
  <2> QED
    BY <1>1, <2>1, FS_Interval
<1>3. limit = Base + Len(module) - L
  <2> DEFINE end == Base + Len(module)
  <2>1. L <= end /\ L <= AddrSpace /\ end \in 0..AddrSpace
    BY <1>0, <1>1
  <2>2. limit = Limit(end, L)
    BY <1>2
  <2>3. limit = end - L
    <3> HIDE DEF limit, L, end
    <3> QED
      BY <1>1, <2>1, <2>2, LimitIs
  <2> HIDE DEF limit, L
  <2> QED
    BY <1>0, <1>1, <2>3 DEF end
<1> DEFINE M == Matches(bytes, module)
<1>4. ASSUME NEW i \in Base..(limit - 1)
      PROVE  Compare(module, i, words) =
               IF \A k \in 1..Len(bytes) : bytes[k] \in {Wild, module[i - Base + k]}
                 THEN "hit" ELSE "miss"
  <2>1. i \in Nat /\ Inside(module, bytes, i)
    <3> HIDE DEF limit
    <3> QED
      BY <1>0, <1>1, <1>3 DEF Inside
  <2> QED
    BY <2>1, CompareInside
<1> HIDE DEF limit, words
<1>5. ASSUME NEW i \in Int
      PROVE  i \in stops <=> i - Base \in M
  <2>1. i \in Base..(limit - 1) <=> i - Base \in 0..(Len(module) - L - 1)
    <3> HIDE DEF L
    <3> QED
      BY <1>0, <1>1, <1>3
  <2> QED
    BY <1>4, <2>1 DEF Matches
<1>6. ASSUME NEW i \in stops PROVE Compare(module, i, words) = "hit"
  BY <1>4
<1>7. stops \in SUBSET Int /\ stops \in SUBSET Nat /\ M \in SUBSET Nat
  <2>1. limit \in Int
    <3> HIDE DEF L
    <3> QED
      BY <1>0, <1>1, <1>3
  <2>2. stops \in SUBSET Int
    BY <1>0, <2>1
  <2>3. M \in SUBSET Nat
    <3>1. Len(module) - WordSize * Words(bytes) - 1 \in Int
      BY <1>0, <1>1
    <3> QED
      BY <3>1 DEF Matches
  <2>4. stops \in SUBSET Nat
    BY <1>0, <2>1
  <2> QED
    BY <2>2, <2>3, <2>4
<1>8. ScanPattern(module, Base, Base + Len(module), words) =
        IF stops = {} THEN 0
        ELSE IF Compare(module, Min(stops), words) = "hit" THEN Min(stops) ELSE Fault
  BY DEF ScanPattern, limit
<1> HIDE DEF stops, M
<1>9. CASE M = {}
  <2>1. stops = {}
    BY <1>5, <1>7, <1>9
  <2> QED
    BY <1>8, <1>9, <2>1 DEF M, words
<1>10. CASE M # {}
  <2>1. Min(M) \in M /\ \A k \in M : Min(M) <= k
    BY <1>7, <1>10, LeastOf
  <2> DEFINE i == Base + Min(M)
  <2>2. i \in stops
    <3>1. i \in Int /\ i - Base = Min(M)
      <4>1. Min(M) \in Nat
        BY <1>7, <2>1
      <4> QED
        BY <1>0, <4>1
    <3> HIDE DEF i
    <3> QED
      BY <1>5, <2>1, <3>1
  <2>3. ASSUME NEW j \in stops PROVE i <= j
    <3>1. j \in Int /\ j - Base \in M
      BY <1>5, <1>7
    <3>2. Min(M) <= j - Base /\ Min(M) \in Nat
      BY <1>7, <2>1, <3>1
    <3> QED
      BY <1>0, <3>1, <3>2
  <2> HIDE DEF i
  <2>4. Min(stops) = i
    BY <1>7, <2>2, <2>3, MinIs
  <2> QED
    BY <1>6, <1>8, <1>10, <2>2, <2>4 DEF i, M, words
<1> QED
  BY <1>9, <1>10

\* What the assumption on the patterns says of one.
Laid(pattern) ==
  LET q == ParsePattern(pattern) IN
  /\ q.bytes \in Seq(0..255 \cup {Wild})
  /\ q.deref /\ q.offset \in Nat /\ q.offset + WordSize <= Len(q.bytes)
  /\ LLength(pattern) <= Base

LEMMA LaidBytes ==
  ASSUME NEW pattern, Laid(pattern)
  PROVE  LET bytes == ParsePattern(pattern).bytes IN
         /\ bytes \in Seq(Int) /\ Len(bytes) \in Nat /\ Len(bytes) # 0
         /\ \A k \in 1..Len(bytes) : bytes[k] \in 0..255 \/ bytes[k] = -1
<1> DEFINE bytes == ParsePattern(pattern).bytes
           S == 0..255 \cup {Wild}
<1>1. bytes \in Seq(S) /\ S \subseteq Int
  BY DEF Laid, Wild
<1>2. \A v \in S : v \in 0..255 \/ v = -1
  BY DEF Wild
<1>3. ParsePattern(pattern).offset \in Nat /\ ParsePattern(pattern).offset + WordSize <= Len(bytes)
  BY DEF Laid
<1> HIDE DEF bytes, S
<1>4. bytes \in Seq(Int) /\ Len(bytes) \in Nat /\ \A k \in 1..Len(bytes) : bytes[k] \in S
  BY <1>1, SeqWiden
<1>5. Len(bytes) # 0
  BY <1>3, <1>4, ScanAssumption
<1> QED
  BY <1>2, <1>4, <1>5 DEF bytes

\* In a module the operand of the first place is found, and nothing faults.
LEMMA FindInside ==
  ASSUME NEW pattern, Laid(pattern),
         NEW module \in Seq(0..255), module # Absent, Base + Len(module) <= AddrSpace
  PROVE  /\ FindPattern(pattern, module) =
              IF Places(pattern, module) = {} THEN 0 ELSE Operand(pattern, module)
         /\ FindPattern(pattern, module) \in Nat
<1> DEFINE q == ParsePattern(pattern)
           P == Places(pattern, module)
           addr == ScanPattern(module, Base, Base + Len(module), ProduceScanData(q.bytes))
<1>0. /\ WordSize \in Nat /\ WordSize > 0 /\ Base \in Nat /\ Base > 0
      /\ Len(module) \in Nat
      /\ \A j \in 1..Len(module) : module[j] \in Nat
  <2> DEFINE S == 0..255
  <2>1. module \in Seq(S) /\ S \subseteq Nat
    OBVIOUS
  <2> HIDE DEF S
  <2>2. Len(module) \in Nat /\ \A j \in 1..Len(module) : module[j] \in S
    BY <2>1, SeqWiden
  <2>3. \A j \in 1..Len(module) : module[j] \in Nat
    BY <2>1, <2>2
  <2> QED
    BY <2>2, <2>3, ScanAssumption
<1>1. /\ q.bytes \in Seq(Int) /\ Len(q.bytes) \in Nat /\ Len(q.bytes) # 0
      /\ \A k \in 1..Len(q.bytes) : q.bytes[k] \in 0..255 \/ q.bytes[k] = -1
  BY LaidBytes
<1>2. /\ q.deref /\ q.offset \in Nat /\ q.offset + WordSize <= Len(q.bytes)
      /\ LLength(pattern) <= Base /\ LLength(pattern) = WordSize * Words(q.bytes)
  BY DEF Laid, LLength
<1>3. P = Matches(q.bytes, module)
  <2>1. DOMAIN q.bytes = 1..Len(q.bytes)
    BY <1>1
  <2> QED
    BY <1>2, <2>1 DEF Places, Occurs, Matches
<1>4. FindPattern(pattern, module) = IF addr \in {0, Fault} THEN addr ELSE RunOp(module, addr, q)
  BY DEF FindPattern, GetModuleInfo
<1>5. addr = IF P = {} THEN 0 ELSE Base + Min(P)
  BY <1>1, <1>2, <1>3, ScanInside
<1>6. CASE P = {}
  BY <1>4, <1>5, <1>6
<1>7. CASE P # {}
  <2> DEFINE k == Min(P)
             L == LLength(pattern)
             at == addr + q.offset
  <2>0. L \in Nat /\ Len(q.bytes) <= L
    BY <1>0, <1>1, <1>2, ByWords
  <2>1. k \in 0..(Len(module) - L - 1)
    <3>1. P \subseteq 0..(Len(module) - L - 1)
      BY DEF Places
    <3>2. P \in SUBSET Nat
      <4> HIDE DEF L, P
      <4> QED
        BY <1>0, <2>0, <3>1
    <3> HIDE DEF P
    <3> QED
      BY <1>7, <3>1, <3>2, LeastOf
  <2> HIDE DEF addr, P, k
  <2>2. addr = Base + k
    BY <1>5, <1>7 DEF k
  <2>3. addr \notin {0, Fault}
    <3> HIDE DEF L
    <3> QED
      BY <1>0, <2>0, <2>1, <2>2 DEF Fault
  <2> HIDE DEF q
  <2>4. FindPattern(pattern, module) = Read(module, at)
    BY <1>2, <1>4, <2>3 DEF RunOp
  <2> HIDE DEF L
  <2> DEFINE a == k + q.offset
  <2>5. a \in Nat /\ at = Base + a /\ a + WordSize <= Len(module)
    <3> DEFINE off == q.offset
               len == Len(q.bytes)
    <3>1. off \in Nat /\ off + WordSize <= len /\ len \in Nat
      BY <1>1, <1>2 DEF q
    <3> HIDE DEF off, len
    <3>2. k + off \in Nat /\ addr + off = Base + (k + off) /\ k + off + WordSize <= Len(module)
      BY <1>0, <2>0, <2>1, <2>2, <3>1 DEF len, q
    <3> QED
      BY <3>2 DEF off, q
  <2> HIDE DEF at, a
  <2>6. Readable(module, at)
    <3> SUFFICES ASSUME NEW o \in 0..(WordSize - 1) PROVE Mapped(module, at + o)
      BY DEF Readable
    <3>1. at + o \in Base..(Base + Len(module) - 1)
      BY <1>0, <2>5
    <3> QED
      BY <3>1 DEF Mapped
  <2>7. ASSUME NEW o \in 1..WordSize
        PROVE  /\ Byte(module, at + o - 1) = module[(a + 1) + o - 1]
               /\ Byte(module, at + o - 1) \in Nat
    <3> DEFINE x == at + o - 1
               y == (a + 1) + o - 1
    <3>1. x - Base + 1 = y /\ y \in 1..Len(module)
      BY <1>0, <2>5
    <3> HIDE DEF x, y
    <3>2. Byte(module, x) = module[y]
      BY <3>1 DEF Byte
    <3>3. module[y] \in Nat
      BY <1>0, <3>1
    <3> QED
      BY <3>2, <3>3 DEF x, y
  <2> DEFINE word == [o \in 1..WordSize |-> Byte(module, at + o - 1)]
  <2>8. word \in [1..WordSize -> Nat] /\ SubSeq(module, a + 1, a + WordSize) = word
    <3>1. (a + WordSize) - (a + 1) + 1 = WordSize
      BY <1>0, <2>5
    <3>2. SubSeq(module, a + 1, a + WordSize) = [o \in 1..WordSize |-> module[(a + 1) + o - 1]]
      BY <1>0, <2>5, <3>1
    <3> QED
      BY <2>7, <3>2
  <2>9. Operand(pattern, module) = Number(word)
    BY <2>8, Zenon DEF Operand, k, P, q, a
  <2>10. Read(module, at) = Number(word)
    BY <2>6 DEF Read
  <2> HIDE DEF word
  <2>11. Number(word) \in Nat
    BY <2>8, NumberFits
  <2> QED
    BY <1>7, <2>4, <2>9, <2>10, <2>11 DEF P
<1> QED
  BY <1>6, <1>7

\* Without the module the bounds are below zero, and the first read is a fault.
LEMMA FindAbsent ==
  ASSUME NEW pattern, Laid(pattern)
  PROVE  FindPattern(pattern, Absent) = Fault
<1> DEFINE q == ParsePattern(pattern)
           L == WordSize * Words(q.bytes)
           words == ProduceScanData(q.bytes)
           limit == Limit(0, WordSize * Cardinality(DOMAIN words))
           stops == {i \in 0..(limit - 1) : Compare(Absent, i, words) # "miss"}
<1>0. /\ WordSize \in Nat /\ WordSize > 0 /\ Base \in Nat /\ Base < AddrSpace
      /\ AddrSpace \in Nat
  BY ScanAssumption
<1>1. q.bytes \in Seq(Int) /\ Len(q.bytes) # 0
  BY LaidBytes
<1>2. Words(q.bytes) \in Nat \ {0} /\ L \in Nat \ {0} /\ L <= Base
  <2>1. Words(q.bytes) \in Nat \ {0}
    BY <1>1, ByWords
  <2>2. L <= Base
    BY DEF Laid, LLength
  <2> QED
    BY <1>0, <2>1, <2>2
<1>3. DOMAIN words = 0..(Words(q.bytes) - 1) /\ Cardinality(DOMAIN words) = Words(q.bytes)
  <2>1. DOMAIN words = 0..(Words(q.bytes) - 1)
    BY DEF ProduceScanData
  <2> QED
    BY <1>2, <2>1, FS_Interval
<1>4. limit \in Nat \ {0}
  <2>1. limit = Limit(0, L)
    BY <1>3
  <2> HIDE DEF limit, L
  <2>2. Limit(0, L) = AddrSpace + 0 - L
    <3>1. 0 \in 0..AddrSpace /\ L <= AddrSpace /\ ~(L <= 0)
      BY <1>0, <1>2
    <3> QED
      BY <1>2, <3>1, LimitIs
  <2> QED
    BY <1>0, <1>2, <2>1, <2>2
<1>5. ASSUME NEW a \in Int PROVE ~Readable(Absent, a)
  BY <1>0 DEF Readable, Mapped
<1>6. ASSUME NEW i \in Nat PROVE Compare(Absent, i, words) = "fault"
  <2> DEFINE s == {o \in DOMAIN words : \/ ~Readable(Absent, i + o * WordSize)
                                        \/ Misses(Absent, i + o * WordSize, words[o])}
  <2>1. \A o \in Nat : i + o * WordSize \in Int
    BY <1>0
  <2>2. s # {} /\ s \in SUBSET Nat
    <3> HIDE DEF words
    <3>1. 0 \in DOMAIN words /\ DOMAIN words \subseteq Nat
      BY <1>2, <1>3
    <3>2. 0 \in s
      BY <1>5, <2>1, <3>1
    <3> QED
      BY <3>1, <3>2
  <2>3. Compare(Absent, i, words) =
          IF Readable(Absent, i + Min(s) * WordSize) THEN "miss" ELSE "fault"
    BY <2>2 DEF Compare
  <2> HIDE DEF s
  <2> QED
    BY <1>5, <2>1, <2>2, <2>3, LeastOf
<1> HIDE DEF limit
<1>7. stops # {} /\ stops \in SUBSET Nat
  BY <1>4, <1>6
<1>8. ScanPattern(Absent, 0, 0, words) =
        IF stops = {} THEN 0
        ELSE IF Compare(Absent, Min(stops), words) = "hit" THEN Min(stops) ELSE Fault
  BY DEF ScanPattern, limit
<1>9. ScanPattern(Absent, 0, 0, words) = Fault
  <2>1. Min(stops) \in Nat
    <3> HIDE DEF stops
    <3> QED
      BY <1>7, LeastOf
  <2> QED
    BY <1>6, <1>7, <1>8, <2>1
<1> QED
  BY <1>9 DEF FindPattern, GetModuleInfo

-----------------------------------------------------------------------------
(* Types, and what the search for svs and sv ends in, however often the    *)
(* engine asks.                                                            *)

\* A plugin that has been attached knows its game.
Known == plugin \in {"attached", "unloaded"} => gameType # "uninitialized"

\* What the plugin is loaded into: the module is one of the instance or none.
Loaded ==
  /\ image \in Images \cup {Absent} /\ exports \in BOOLEAN
  /\ engine = "hlds" => moduleName \in Modules

SInv == TypeOK /\ Known /\ Loaded /\ FoundFirst /\ FaultOnlyAbsent

\* Both patterns are as the lemmas on the scan take them.
LEMMA PatternsLaid == Laid(SvsPattern) /\ Laid(SvPattern)
  BY ImagesAssumption DEF Laid

\* The operand at the first place of a pattern in the module, or null.
First(pattern) == IF Places(pattern, image) = {} THEN 0 ELSE Operand(pattern, image)

\* A search by name that does not end in a fault gives a number, and in the engine's own
\* module the right one; there it does not end in a fault.
LEMMA FindInIs ==
  ASSUME Loaded, NEW pattern \in {SvsPattern, SvPattern}, NEW name,
         NEW x \in FindIn(pattern, name)
  PROVE  /\ x \in Nat \cup {Fault}
         /\ image # Absent /\ name = moduleName => x = First(pattern) /\ x \in Nat
         /\ image = Absent /\ ~Windows => x = Fault
<1>0. Laid(pattern)
  BY PatternsLaid
<1>1. CASE Windows /\ Named(name) = Absent
  BY <1>1 DEF FindIn, Named, Fault
<1>2. CASE ~(Windows /\ Named(name) = Absent)
  <2>1. x = FindPattern(pattern, Named(name))
    BY <1>2 DEF FindIn
  <2>2. CASE Named(name) = Absent
    <3>1. x = Fault
      BY <1>0, <2>1, <2>2, FindAbsent
    <3> QED
      BY <2>2, <3>1 DEF Named
  <2>3. CASE Named(name) # Absent
    <3>1. Named(name) = image /\ image # Absent
      BY <2>3 DEF Named
    <3>2. image \in Seq(0..255) /\ Base + Len(image) <= AddrSpace
      BY <3>1, ImagesAssumption DEF Loaded
    <3>3. /\ FindPattern(pattern, image) = First(pattern)
          /\ FindPattern(pattern, image) \in Nat
      BY <1>0, <3>1, <3>2, FindInside DEF First
    <3> QED
      BY <2>1, <3>1, <3>3
  <2> QED
    BY <2>2, <2>3
<1> QED
  BY <1>1, <1>2

\* What hlds_api::Init gets to see: only on a dedicated server on Windows does it look for
\* sv elsewhere than in the engine's module.
LEMMA GlobalsAre ==
  ASSUME Loaded, engine = "hlds", NEW globals \in Globals
  PROVE  /\ globals[1] \in Nat \cup {Fault} /\ globals[2] \in Nat \cup {Fault}
         /\ image # Absent => globals[1] = First(SvsPattern) /\ globals[1] \in Nat
         /\ image # Absent /\ moduleName # "swds.dll" =>
              globals[2] = First(SvPattern) /\ globals[2] \in Nat
<1>1. moduleName \in {"engine_i486.so", "hw.dll", "swds.dll"}
  BY DEF Loaded, Modules
<1> DEFINE name == IF Windows THEN IF Named("hw.dll") # Absent THEN "hw.dll" ELSE "swds.dll"
                              ELSE "engine_i486.so"
           nameOfSv == IF Windows THEN "hw.dll" ELSE "engine_i486.so"
<1>2. /\ globals[1] \in FindIn(SvsPattern, name)
      /\ globals[2] \in FindIn(SvPattern, nameOfSv)
  BY DEF Globals
<1>3. image # Absent => name = moduleName
  BY <1>1 DEF Windows, Named
<1>4. moduleName # "swds.dll" => nameOfSv = moduleName
  BY <1>1 DEF Windows
<1> HIDE DEF name, nameOfSv
<1>5. /\ globals[1] \in Nat \cup {Fault}
      /\ image # Absent /\ name = moduleName => globals[1] = First(SvsPattern) /\ globals[1] \in Nat
  BY <1>2, FindInIs
<1>6. /\ globals[2] \in Nat \cup {Fault}
      /\ image # Absent /\ nameOfSv = moduleName =>
           globals[2] = First(SvPattern) /\ globals[2] \in Nat
  BY <1>2, FindInIs
<1> QED
  BY <1>3, <1>4, <1>5, <1>6

\* Attaching: a process that survives it has numbers, the right ones.
LEMMA AttachSearches ==
  ASSUME SInv, NEW made \in BOOLEAN, OnMetaAttach(made)
  PROVE  SInv'
<1>0. PICK globals \in IF engine = "hlds" THEN Globals ELSE {<<0, 0>>} :
        /\ UNCHANGED <<hosts, found, current, table, saved, asked, requests>>
        /\ svs' = IF ApiOf(globals) = "crashed" THEN svs ELSE globals[1]
        /\ sv'  = IF ApiOf(globals) = "crashed" THEN sv ELSE globals[2]
        /\ gameType' = IF ApiOf(globals) = "ready" THEN GameOf(dir) ELSE gameType
        /\ plugin' \in {"attached", "refused", "crashed"}
        /\ plugin' = "attached" => gameType' = GameOf(dir)
        /\ plugin' = "crashed" <=> ApiOf(globals) = "crashed"
        /\ hook' \in {hook, "installed"} /\ dlsymHook' \in {dlsymHook, "installed"}
        /\ orig' \in {orig, exports}
  BY DEF OnMetaAttach
<1> DEFINE api == ApiOf(globals)
<1>1. /\ UNCHANGED <<hosts, found, current, table, saved, asked, requests>>
      /\ svs' = IF api = "crashed" THEN svs ELSE globals[1]
      /\ sv'  = IF api = "crashed" THEN sv ELSE globals[2]
      /\ gameType' = IF api = "ready" THEN GameOf(dir) ELSE gameType
  BY <1>0
<1>2. /\ plugin' \in {"attached", "refused", "crashed"}
      /\ plugin' = "attached" => gameType' = GameOf(dir)
      /\ plugin' = "crashed" <=> api = "crashed"
      /\ hook' \in {hook, "installed"} /\ dlsymHook' \in {dlsymHook, "installed"}
      /\ orig' \in {orig, exports}
  BY <1>0
<1>3. GameOf(dir) \in {"unsupported", "CStrike", "HL1"}
  BY DEF GameOf
<1>4. UNCHANGED <<engine, moduleName, image, exports>>
  BY <1>1 DEF hosts
<1>5. api = "crashed" => engine = "hlds" /\ Fault \in {globals[1], globals[2]}
  BY DEF ApiOf, Fault
<1>6. engine = "hlds" /\ Fault \in {globals[1], globals[2]} => api = "crashed"
  BY DEF ApiOf
<1> HIDE DEF api
<1>7. Fault \notin Nat
  BY DEF Fault
<1>8. engine # "hlds" => globals[1] = 0 /\ globals[2] = 0
  BY <1>0
<1>9. engine = "hlds" =>
        /\ globals[1] \in Nat \cup {Fault} /\ globals[2] \in Nat \cup {Fault}
        /\ image # Absent => globals[1] = First(SvsPattern) /\ globals[1] \in Nat
        /\ image # Absent /\ moduleName # "swds.dll" =>
             globals[2] = First(SvPattern) /\ globals[2] \in Nat
  BY <1>0, GlobalsAre DEF SInv
<1>10. api # "crashed" => globals[1] \in Nat /\ globals[2] \in Nat
  BY <1>6, <1>8, <1>9
<1>11. api = "crashed" => image = Absent \/ moduleName = "swds.dll"
  BY <1>5, <1>7, <1>9
<1>12. svs' \in Nat /\ sv' \in Nat
  BY <1>1, <1>10 DEF SInv, TypeOK
<1>13. TypeOK'
  <2>1. /\ plugin' \in {"new", "attached", "refused", "unloaded", "crashed"}
        /\ gameType' \in {"uninitialized", "unsupported", "CStrike", "HL1"}
    BY <1>1, <1>2, <1>3 DEF SInv, TypeOK
  <2>2. hook' \in HookState /\ dlsymHook' \in HookState /\ orig' \in BOOLEAN
    BY <1>2 DEF SInv, TypeOK, Loaded, HookState
  <2> QED
    BY <1>1, <1>12, <2>1, <2>2 DEF SInv, TypeOK
<1>14. Known' /\ Loaded'
  BY <1>2, <1>3, <1>4 DEF SInv, Known, Loaded
<1>15. FoundFirst'
  <2>1. /\ Places(SvsPattern, image)' = Places(SvsPattern, image)
        /\ Operand(SvsPattern, image)' = Operand(SvsPattern, image)
        /\ Places(SvPattern, image)' = Places(SvPattern, image)
        /\ Operand(SvPattern, image)' = Operand(SvPattern, image)
    BY <1>4
  <2> QED
    BY <1>1, <1>2, <1>4, <1>9, <2>1 DEF FoundFirst, First
<1>16. FaultOnlyAbsent'
  BY <1>2, <1>4, <1>11 DEF FaultOnlyAbsent
<1> QED
  BY <1>13, <1>14, <1>15, <1>16 DEF SInv

\* What no other step touches.
LEMMA SearchKept ==
  ASSUME SInv, TypeOK', UNCHANGED <<engine, moduleName, image, exports, svs, sv, gameType>>,
         plugin' = "attached" => plugin = "attached",
         plugin' = "refused" => plugin = "refused",
         plugin' = "unloaded" => plugin \in {"attached", "unloaded"},
         plugin' = "crashed" => plugin \in {"attached", "unloaded", "crashed"}
  PROVE  SInv'
<1>1. Known' /\ Loaded'
  BY DEF SInv, Known, Loaded
<1>2. FoundFirst'
  BY DEF SInv, FoundFirst
<1>3. FaultOnlyAbsent'
  BY DEF SInv, Known, FaultOnlyAbsent
<1> QED
  BY <1>1, <1>2, <1>3 DEF SInv

LEMMA DlsymSearched ==
  ASSUME SInv, NEW name, Dlsym(name)
  PROVE  SInv'
<1>1. UNCHANGED <<hosts, svs, sv, gameType, orig, hook, current, table, saved, asked, requests>>
  BY DEF Dlsym
<1>2. /\ plugin' = plugin \/ (plugin' = "crashed" /\ plugin = "unloaded")
      /\ dlsymHook' \in {dlsymHook, "removed", "installed"}
      /\ found' \in {found, "ours", "game", "none"}
  BY DEF Dlsym, Install, Remove
<1>3. TypeOK'
  BY <1>1, <1>2 DEF SInv, TypeOK, HookState
<1> QED
  BY <1>1, <1>2, <1>3, SearchKept DEF hosts

LEMMA RequestSearched ==
  ASSUME SInv, Request
  PROVE  SInv'
<1>1. /\ requests < MaxRequest /\ requests' = requests + 1
      /\ UNCHANGED <<hosts, svs, sv, gameType, orig, dlsymHook, found>>
      /\ plugin' = plugin \/ (plugin' = "crashed" /\ plugin = "unloaded")
  BY DEF Request
<1>2. \/ UNCHANGED <<hook, current, table, saved, asked>>
      \/ Server_GetBlendingInterface
      \/ current' \in {"game", "engine"} /\ UNCHANGED <<hook, table, saved, asked>>
  BY DEF Request
<1>3. PointedTo \in Tables /\ OurFunction(gameType) \in Function
  BY DEF SInv, TypeOK, PointedTo, Tables, OurFunction, Function, Ours
<1>4. /\ hook' \in HookState /\ current' \in Tables /\ saved' \in Function
      /\ asked' \in BOOLEAN
      /\ table' \in [Tables -> Function]
  <2>1. CASE Server_GetBlendingInterface
    <3>1. hook' \in HookState /\ asked'
      BY <2>1 DEF Server_GetBlendingInterface, Install, Remove, HookState, SInv, TypeOK
    <3>2. saved' \in Function
      BY <1>3, <2>1 DEF Server_GetBlendingInterface, SInv, TypeOK
    <3>3. current' \in Tables
      BY <1>3, <2>1 DEF Server_GetBlendingInterface, Tables
    <3>4. table' \in [Tables -> Function]
      BY <1>3, <2>1 DEF Server_GetBlendingInterface, SInv, TypeOK
    <3> QED
      BY <3>1, <3>2, <3>3, <3>4
  <2>2. CASE UNCHANGED <<hook, current, table, saved, asked>>
    BY <2>2 DEF SInv, TypeOK
  <2>3. CASE current' \in {"game", "engine"} /\ UNCHANGED <<hook, table, saved, asked>>
    BY <2>3 DEF SInv, TypeOK, Tables
  <2> QED
    BY <1>2, <2>1, <2>2, <2>3
<1>5. requests' \in 0..MaxRequest
  BY <1>1, LifecycleAssumption DEF SInv, TypeOK
<1>6. TypeOK'
  BY <1>1, <1>4, <1>5 DEF SInv, TypeOK
<1> QED
  BY <1>1, <1>6, SearchKept DEF hosts

LEMMA DetachSearched ==
  ASSUME SInv, OnMetaDetach
  PROVE  SInv'
<1>1. /\ plugin = "attached" /\ plugin' \in {"unloaded", "crashed"}
      /\ hook' \in {hook, "removed"}
      /\ UNCHANGED <<hosts, svs, sv, gameType, orig, dlsymHook, found, current, saved, asked,
                     requests>>
      /\ table' = table \/ table' = [table EXCEPT ![current] = saved]
  BY DEF OnMetaDetach, Remove, Restored
<1>2. TypeOK'
  BY <1>1 DEF SInv, TypeOK, HookState
<1> QED
  BY <1>1, <1>2, SearchKept DEF hosts

LEMMA SearchInductive == Spec => []SInv
<1>1. Init => SInv
  <2> SUFFICES ASSUME Init PROVE SInv
    OBVIOUS
  <2>1. TypeOK
    <3>1. requests \in 0..MaxRequest
      BY LifecycleAssumption DEF Init
    <3>2. table \in [Tables -> Function]
      BY DEF Init, Function
    <3>3. current \in Tables /\ saved \in Function
      BY DEF Init, Tables, Function
    <3> QED
      BY <3>1, <3>2, <3>3 DEF Init, TypeOK, HookState
  <2>2. Known /\ Loaded /\ FoundFirst /\ FaultOnlyAbsent
    BY DEF Init, Known, Loaded, FoundFirst, FaultOnlyAbsent
  <2> QED
    BY <2>1, <2>2 DEF SInv
<1>2. SInv /\ [Next]_vars => SInv'
  <2> SUFFICES ASSUME SInv, [Next]_vars PROVE SInv'
    OBVIOUS
  <2>1. CASE UNCHANGED vars
    <3>1. TypeOK'
      BY <2>1 DEF vars, hosts, SInv, TypeOK
    <3> QED
      BY <2>1, <3>1, SearchKept DEF vars, hosts, SInv, TypeOK
  <2>2. CASE Next
    BY <2>2, AttachSearches, DlsymSearched, RequestSearched, DetachSearched DEF Next
  <2> QED
    BY <2>1, <2>2
<1> QED
  BY <1>1, <1>2, PTL DEF Spec

\* Every variable has its type, however often the engine asks.
THEOREM Typed == Spec => []TypeOK
<1>1. SInv => TypeOK
  BY DEF SInv
<1> QED
  BY <1>1, SearchInductive, PTL

\* In every module svs is the operand at the first place of its pattern (hlds_api::Init,
\* FindPattern), and null where there is none; so is sv, but on a dedicated server on
\* Windows (api.h:51).
THEOREM FoundFirstHolds == Spec => []FoundFirst
<1>1. SInv => FoundFirst
  BY DEF SInv
<1> QED
  BY <1>1, SearchInductive, PTL

\* The search faults only where the engine has no such module, and on a dedicated server
\* on Windows (api.h:51).
THEOREM FaultHolds == Spec => []FaultOnlyAbsent
<1>1. SInv => FaultOnlyAbsent
  BY DEF SInv
<1> QED
  BY <1>1, SearchInductive, PTL
=============================================================================
