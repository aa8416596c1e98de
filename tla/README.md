# Hitbox Fixer: a TLA+ verification project

Hitbox Fixer is a Metamod plugin for GoldSrc game servers (Counter-Strike, Half-Life, AG).  It
replaces the bone set-up with which the server poses players for hit detection, so that a shot is
judged against the pose the shooter saw.  This directory models the plugin's own logic in TLA+,
checks it with TLC and proves most of what it says of the plugin with TLAPS.  Paths below are relative to the
repository; `main.cpp` and `animation.cpp` are in `src/`.

## The system

| Part | State | Operations | Called by |
|---|---|---|---|
| Lag-compensation store (main.cpp) | `player_params_history[viewer].hist[64][player]`, `player_params`, `ServerFrameId`, `nofind` | `PutInServer`, `StartFramePost`, `PlayerPreThinkPre`, `PlayerPostThinkPost`, `AddToFullPackPost` | Metamod, through the tables of dllapi.cpp |
| Animation parameters (main.cpp) | one record per viewer, packet and player | `ProcessAnimParams`, `StudioProcessGait`, `CalculateYawBlend`, ... | the store |
| Interpolation (main.cpp) | reads the ring | `CL_FindInterpolationUpdates`, `CL_PureOrigin` | `ProcessAnimParams` |
| Bone set-up (animation.cpp) | static `player`, `g_pstudiohdr`; writes `prevframe`, `gaitsequence` of `player_params` | `CS_StudioSetupBones`, `HL_StudioSetupBones`, `CS_StudioProcessParams` | the engine, when it traces against a player |
| Life cycle (main.cpp, meta_api.cpp) | hooks, `orig_interface`, `orig_ppinterface`, `g_eGameType`, `Init` | `OnMetaAttach`, `dlsym_hook`, `Server_GetBlendingInterface`, `OnMetaDetach` | Metamod; the engine |
| Engine access (api.h, engine_rehlds_api.cpp) | pointers into the engine | `Init`, `GetClient`, `GetMaxClients`, `GetModel` | everybody |
| Pattern scanner (mem/) | list of libraries | `FindPattern`, `GetModuleInfo` | HLDS access, `OnMetaAttach` |

How they interact.  Every server frame the store samples all players into row 0, the server's own
view, and into the working copy `player_params`.  While the engine assembles a packet for a client,
it samples every other player into the row of that client, at the slot of the packet's number.  When
a client's command arrives, `PlayerPreThinkPre` looks up the packet that the client acknowledged last
and copies the records of the players shown in it to the working copy; the command's traces make the
engine call the bone set-up, which poses players from the working copy; `PlayerPostThinkPost` puts
the server's view back.  Everything runs in one thread; what is hard is the order of these callbacks,
clients that come and go between any two of them, rings that wrap, and state that is shared by all
views (the working copy, `nofind`, the static `player`).

## Modules

**LagCompHistory** (with MCLagCompHistory and LagCompHistory_proofs) is the store.  The variables
`hist`, `params`, `serverFrame`, `nofind` are the four globals; each plugin action is a whole handler.
A record is its provenance: for whom, in which packet, from which occupant of the slot, on which
earlier record, and whether the bone set-up edited it.  The engine's part (`status`, `gen`, `out`,
`ack`, `frames`, `phase`) follows the use main.cpp makes of `client_t` and is marked external.

**Backtrack** is what the store promises, without rings: a log of packets per client, and players that
are posed as the server has them except in a compensated command, where they are posed as in the packet
by which the command is judged (`Judged`: the acknowledged one; any remembered one when it is too old).
**LagCompBacktrack** (and LagCompBacktrack_proofs) maps the store to it: the packets in the slots of
`frames` are the log, view, packet and occupant of a record are the pose.

**PoseFrame** (MCPoseFrame, PoseFrame_proofs) is about the animation frame `f` of Counter-Strike: it is estimated when a
record is made, but from the working copy of the player that happens to be in the static `player`.
The rows are logs by server frame (LagCompHistory shows that a ring slot holds what it is asked for)
and a packet shows every active player; sampling goes through the players in order, as the loop does,
because a later player sees the new working copy of an earlier one.  A client may acknowledge any
packet.

**Interpolation** (MCInterpolation, Interpolation_proofs) is one player's ring in one view, with times in hundredths of a
second.  `Nth`, `Stops`, `Found`, `Newer`, `Older` are the loop of `CL_FindInterpolationUpdates`;
`Fraction` and `PureOrigin` are `CL_PureOrigin`.  The result is the pair of records and the fraction
between them, as a ratio of integers.  Of the angles the yaw is computed, for a player who turns evenly:
`BitAngle` when it is recorded, `InterpolateAngles` for the same pair the other way round, as the code
calls it.  The reference for the pair (`Before`) is the last packet older than the wanted time.

**GaitYaw** (MCGaitYaw, GaitYaw_proofs) is where the legs of one player point and how its torso is twisted against
them, in both games: `Stand`, `Move`, `Same` and `Die` are the ways through `StudioEstimateGait` (and
`HL_StudioEstimateGait`), and each takes the whole record with it: the twist and the reversal of
`CalculateYawBlend`, the gait frame of `StudioProcessGait`, the blends, the controllers, and the walk
and jump part of `CS_StudioProcessParams`.  Angles are whole degrees; what the code stores in an
unsigned char is kept as computed, so that `BytesFit` can be asked.  A gait sequence may be one that the
model does not have: `StudioProcessGait` (main.cpp:611) then computes the frame with whatever lies behind the
sequences, and the frame is `Garbled` until a jump starts it anew; that the read itself may fault is left out.
Half-Life records without legs to process (no gait sequence, no entity or no model) are `HL_NoLegs`, and what
the game put into the state's controllers and blends is any of `StateByte`.  `still` marks a player who stands
and goes on looking where it looks: its records (`StillRecord`) are what fairness is stated for.

**AnimParams** makes the records of one player in row 0: what `ProcessAnimParams` keeps of the
previous record so that a player can fade from sequence to sequence, and when.  A frame is known by
the sequence it was estimated for.  The history variable `change` follows the sequence that the game shows,
not the one in the record, which Half-Life may rewrite.

**BoneSetup** (MCBoneSetup, BoneSetup_proofs) EXTENDS AnimParams with the two bone set-ups past their guards.  The pose
of a bone is a term, an animation of a sequence at a frame or two poses mixed by a weight; the static
arrays keep what another call left (`Left`).  The reference `Expected` says, without arrays and loops,
which animations a bone should be made of.  Which bones are legs is found out by the loops from names
and parents; `Biped` says what they take for granted of a player's skeleton: the only spine hangs from
the only pelvis, and bones are listed limb by limb.  The last loop, which composes the transforms from
the root to the bone asked for, is `ConcatTransforms`.

**BoneAnimation** (MCBoneAnimation, BoneAnimation_proofs) goes below that term: how `StudioEstimateFrame` turns a record's times
into a frame, how `StudioCalcRotations` brings a frame into the sequence, and how `SpanOf`, `Position`,
`First` and `Second` find it and the next one in the run-length spans of one axis of a bone
(`StudioCalcBonePosition`, `StudioCalcBoneQuaterion`).  They are operators of the sequence `a`.  The
reference is `Decoded`, all frames written out.  `LayoutAssumption` says which sequences there are: those
whose words are filled by spans (`Heads`), each of which begins with the frame at which the one before it
ends (`Starts`), as the compiler of models writes them.

**PluginLifecycle** (MCPluginLifecycle, PluginLifecycle_proofs) is attaching, the look-up of the game's blending interface
through a hooked function or a hooked `dlsym`, the one request the engine makes, and detaching.  It
EXTENDS **PatternScan**, pure operators, for an HLDS: `hlds_api::Init` looks for `svs` and `sv` by the code
that uses them, in modules that it takes by name (`Globals`; `moduleName` is the name of the engine's, `image`
what is in it).  On Windows a search under a name that no module has may end in anything (`FindIn`), since
`GetModuleInfo` then uses a MODULEINFO that nobody filled in, or that of the executable.
`ParsePattern`, `ProduceScanData`, `ScanPattern` and `RunOp` follow patternscan.cpp, including unsigned bounds and what a read outside the module does (`Fault`): at each address `Compare` goes
through the pattern, and the scan ends at the first address where it stops.  `Places` and `Operand` are the
reference, byte by byte.

Operators named `X_Y` are `X` with a slip `Y` (a dropped reset, an off-by-one, a swapped field).  No
action uses them: they record which mistake in the code a property would catch.

## Runs

| Run | Module, bounds | Question |
|---|---|---|
| history_reconnect | a human and a bot, reconnecting | `ViewOwner`: nobody is posed from another's view, no command leaves its view behind. `RowOwned`: a row holds records of its present client only. `LaneBase`: which record a new one continues. `RecordsKept`: no record goes before the ring has come round. |
| history_log | a human and a bot, ring of 2, packets to 5 | `BacktrackExact`: a compensated command sees the players of the acknowledged packet exactly as recorded for it. `FrameCoherent`: the engine's frames and the plugin's ring hold the same packet at the same index, also after a wrap. `Backtracks`: the store implements Backtrack. With logs that keep one packet more the run fails, so the bound "at most a ring old" is the exact one. |
| history_spawn | violated | `SpawnClean`, see findings. |
| pose_fresh | a human and a bot, 3 server frames | `FrameFresh`: an estimated frame never inherits the past of a compensated command, as long as the player it is read from stays in the game. |
| pose_own | violated | `OwnFrame`, see findings. |
| gait | one player, 3 views, 2 headings, 3 times | `TorsoOnView`: legs and twist add up to the view, reversed or not. `TwistBound`: at most 120 degrees against moving legs. `LegsFollow`: standing legs approach the view and never pass it. `LegsArrive` (liveness): legs that have begun to turn fast get under the view of a player who stays still. `BytesFit`: blends and controllers fit their bytes. `TypeOK`: among others, the gait frame is one of the sequence's (unless garbled) and the yaw never winds up. The longest run, about two and a half minutes. |
| bones | 6 bones, 2 sequences, 3 records, a new level | `PoseExact`: a bone of the chain is made of this player's own animations and of nothing left in the static arrays, in the right square of the nine, with the gait in the legs only. `Composed`: parents before children. `FadeEnds`: a fade lasts a fifth of a second after the player changed its sequence, in Half-Life among sequences of the model. |
| frames | one axis of a bone, every compression of up to 4 frames | `FrameInData`: whichever sequence a frame was estimated for, what is posed are frames of this one. `AngleExact`, `PositionExact`: this and the next frame are found, also across the seams of spans; a position waits at the end of a span without repetition. |
| bones_held | violated | `HeldSequence`, see findings. |
| interpolation | ring of 5, 7 packets, clock to 9 | `Bracketed`: the pair around the wanted time. `NewestAlone`: a later time shows the newest record. `Inside`: whatever gaps and leftovers the ring has, a time that was found is extrapolated in one case only, in the server's row after a new level. `TurnsShort`: the yaw lies on the short way between those of the two records, and in range. `NeverBack`: a viewer with a steady interpolation time is shown a player going back in one case only, after a time that was not found, and then not behind the time it asks for. |
| lifecycle | all hosts, one request; HLDS modules of three names and up to 4 pieces of code, words of 2 bytes | `Fallback`: poses left to the engine reach the function they would have reached. `CleanUnload`: after an unload nothing leads into the plugin, and with the interface version it is made for both tables are as before. `FoundFirst`: `svs` and `sv` are the operands where their code first occurs in the engine's module (`sv` not on a dedicated server on Windows). `FaultOnlyAbsent`: the search never reads behind a module, however short; it faults only if the engine has none of that name, or on that dedicated server. |
| lifecycle_unload | violated | `UnloadAnytime`, see findings. |

Bounds.  The ring is 64 slots in the code; what matters is that it wraps, so the rings here have 2 to 5
and the runs go past one round of it.  A third client adds nothing to the store: a record involves one viewer
and one target, and all that views share is the working copy, which two players already contend for.
The interpolation loop leaves out two slots of the ring: with five it can look at three records.
The views and headings of GaitYaw give differences of directions in front, beside, beyond 120 degrees on
either side and across the seam at 180; its times are none, within a quarter of a second, and beyond it.
One `StateByte` is enough: the bytes of the state are only stored, and computed with nowhere.
In whole degrees a turn is cut to none below one degree, in the code below a tenth of one: `LegsArrive`
says something about records 0.2 seconds apart or more, and not that legs arrive at every rate (see the
hazard at main.cpp:307).
The turning player of Interpolation turns 100 degrees in a hundredth of a second, so that pairs of records
differ by every multiple of 20 degrees, on both sides of 180.
The axis of BoneAnimation has up to four frames: spans with and without repetition, one after the other.
The modules of PatternScan have what both patterns stand for, a null operand, something similar and a
lone first byte, in any order, up to and over the end; words have two bytes and addresses wrap at 64.
The skeleton of BoneSetup has legs before and after the torso; its blends lie below, at and above the
middle; three records are a sequence, a change and a record within or after its fade.
`MaxSeq`, `MaxFrame`, `MaxGen`, `MaxClock`, `MaxRecords` and `MaxRequest` bound counters in guards
(`Stride` bounds a step of the gait); where behaviours stop at them, deadlock is not checked.  Symmetry
is used in history_spawn only.

Fairness.  The handlers are callbacks and each terminates, so nothing waits.  One thing must come about in
the end, over many records: the legs of a standing player get under its view.  `FairSpec` of GaitYaw
assumes weak fairness of `StillRecord`, a record of a player that is still, some time after the one
before: `StartFramePost` runs in every server frame and records every active player, and the server's
clock advances.  Nothing is assumed of players: one may move on (`Stir`) at any time, or never stand.

## Findings

* `SpawnClean` (main.cpp:64).  `PutInServer` clears the row of the client that enters, not its records
  in the rows of others: the first records of a player who takes a slot just left continue the gait,
  controllers and position of the previous occupant.
* `OwnFrame` (animation.cpp:1088).  In Counter-Strike the animation frame of a player is computed from
  the clock of whichever player was posed last (or from memory in front of `player_params`).
* `HeldSequence` (main.cpp:833).  "sequence has changed, hold the previous sequence info" holds for one
  record only: the next one overwrites `prevsequence` with the new sequence, and the player fades from
  the new sequence into itself for the rest of the transition.
* `UnloadAnytime` (main.cpp:1192).  Detaching before the engine has asked for the blending interface
  dereferences a null pointer.

Met on the way, without a run: a player who leaves inside another's compensated command keeps that
viewer's pose in the working copy until its slot is sampled again (the reason for `cur.who = gen[t]`
in `ViewOwner` and for the second hypothesis of `FrameFresh`); a player who enters is, until the next
server frame, restored from a slot of row 0 that is a whole ring old; row 0 is not cleared on a new
level, so that the server's view may be extrapolated, to 6/5, towards a record of the level before (the
exception in `Inside`, and the reason for `Steady`); a player who enters is first shown at its newest record,
as no time before it is found, and jumps back by the interpolation time as soon as one is (with records at 2, 4 and 6
and an interpolation time of 3 the moments shown are 4 and then 3: the exception in `NeverBack`); if a player's animtime stands still for a whole ring, the oldest position is shown
instead of the newest (the last hypothesis of `NewestAlone`); `InterpolateAngles` turns from the newer
record to the older while the position goes from the older to the newer; without a gait sequence the
frame of a Counter-Strike player is carried over and never estimated; an HLDS engine whose module has another name makes the search for
`svs` read at address 0, since the unsigned bound wraps, before the message that it is not compatible; on a dedicated HLDS on Windows (a module swds.dll, and no
hw.dll) `svs` is sought in swds.dll but `sv` in hw.dll (api.h:50-51), which is not there, so that the plugin
crashes, refuses or takes some other word for `sv`, although README.md:5 lists HLDS among what it runs on (the
exception in `FoundFirst` and `FaultOnlyAbsent`);
with an engine of another interface version that the game accepts a detach writes the game's function into the engine's own
table (hence the version in `CleanUnload`); the last frame of a sequence reads the word behind the data,
with a weight of 0; `StudioCalcBoneAdj` takes the wrong index for controllers that wrap around, which
player models do not have; `StartFramePost` copies the second blend into both; a `sequencetime` of the level
before keeps a fade going (hence `change.now` in `FadeEnds`); a Half-Life player with a gait whose sequence the
model does not have gets sequence 0 in its record (main.cpp:517-518), so that each later record takes the
sequence for changed (main.cpp:839-841) and the fade starts again as long as the player shows that sequence
(hence `InModel` in `FadeEnds`, which TLC refutes without it in the same instance); in Counter-Strike the gait
sequence has no such bounds test (main.cpp:611, against main.cpp:572).

## Proofs

LagCompHistory_proofs proves, for every set of clients and bots, every ring size of at least two and
every bound: `TypeCorrect`, `BacktrackIsExact`, `FramesCoherent`, `ViewsAreOwned`, `RowsAreOwned`.  The
only assumption is `HistoryAssumption` on the constants.  None of the properties is inductive alone.
The invariant `IInv` adds: `PhaseOK` (a command runs only in the phase "read"), `AckSent` (a client
acknowledges only what was sent), `FrameWindow` (a frame in a slot carries a number of that slot, at
most a ring old and below the next one), `NoFramesYet` (a client not yet in the game has no frames),
`OwnView` (what a working copy is between commands) and `Sampled`.  The lemmas `SlotInRing`,
`SlotInjective` and `SlotPeriodic` are the arithmetic of `%`: two numbers within a ring of each other
share a slot only if they are equal, which is why an acknowledgement at most `Backup` old finds its own
packet.  `Inductive` shows that each action preserves `IInv`, one step per action.

LagCompBacktrack_proofs proves `StoreBacktracks`, Spec => Log!Spec, on top of it: `InitMaps`, and one
lemma per action that maps it to its abstract action (`SetupBones` and `EndFrame` to a stutter),
combined in `StepMaps`.  `CompensateMaps` and `SendMaps` rest on `FrameWindow` and the ring lemmas;
`SampleMaps` and `FinishMaps` need two more invariants, `ServerFrames` (where the server's own records
lie, so that a slot not written in this frame is a whole ring old) and `Occupied`.

Its last part proves `LanesHold` and `RecordsAreKept` (LaneBase, RecordsKept).  The invariant they
need is `Filed`: a record lies in the slot of its number, which is below the next one, in the server's row
and in those of clients in the game (the numbers of others may have started anew).  `StepWrites` says what a
step can do to one record; that the one taken over is a ring old, and that the one continued is the one
before or more than a ring old, is the arithmetic of `TakenOver` and `Continued`.

PoseFrame_proofs proves `FrameStaysFresh` (FrameFresh) and type correctness, for any players, bots and
bounds.  The invariant adds: `ServerRow` (row 0 holds, under a frame, what was sampled in it), `Occupied`
(no record is of an occupant yet to come), `Estimated` (no estimate is ahead), `Sending` (while packets are
sent the working copies are the samples of this frame) and `Restored` (between commands a working copy of the
present occupant is its newest: the restore of `PlayerPostThinkPost`).  `MadeKeeps` is what making a record
preserves, shared by `StartFramePost` and `SendDatagram`.

GaitYaw_proofs proves `LegsDoFollow`, `TwistIsBounded`, `TorsoIsOnView`, `AllBytesFit` and type correctness,
for every view, heading, time, length of a sequence and bytes of the state.  Integer division and remainder are those of C, which round to
zero; `DivBound`, `ModRange`, `HalfTurnUnique` and `PartOf` are what is needed of them.  The invariant adds
`Blends` and `Turned`, that the twist is the half turn from the legs to the view.

Interpolation_proofs proves `BracketedHolds`, `NewestAloneHolds`, `InsideHolds`, `TurnsShortHolds`,
`NeverBackHolds` and type correctness, for a ring of any size of at least four and any times.  The record at
which the loop stops is the least of a set (`LeastOf`, from the library's well-founded induction;
`FirstStop`).  The invariant adds `Filled` (what a slot of the ring holds, and that the record in it has a
number of that slot), `Computed` (the moment and the position shown are those computed from the ring
before), `NoneLater` (no record in a client's row is later than the player's animtime) and `AtPresent` (what is
shown was looked up right after a record of that time).  `TurnsShort` rests on the arithmetic of one pair of angles on the circle, `NeverBack` on the
position shown being, between two records and also beyond them, the one of the wanted time: of two such
times the later one is not behind; `MomentMissed` is the case in which the earlier one was not found.

BoneSetup_proofs proves four things of the set-ups, for every set of models, skeletons, clocks and blends,
from `Types`, `Timed`, `Posed` and `Composed`.
`FadesEnd` (FadeEnds) needs `Timed`: the time of the sequence is that of the last change, in the newest
record and in the working copy; each outcome of `ProcessAnimParams` and each set-up has a lemma that it
leaves that time alone, as long as the player shows sequences of its model (`InModel`).
`ComposedHolds` (Composed) needs the chain: `ChainsExist` and `AncestorsAre` show that the loop up the
parents is defined and ends at the root, `ChainLinked` and `Composes` that with the parent of every bone
the chain has what the bone is composed from.  It needs no more of a skeleton than that parents
have smaller indices, as the compiler of models lists them and the code takes for granted.
`PoseExactHolds` (PoseExact) is about skeletons that are `Biped`: under that assumption `TorsoStep` and
`LegsAreOfGait` show that the flag which the code drags along the bones (`OfGait`) is on exactly in the legs,
`SquareOfFour` that the four of nine blends are the square the blend values fall in, and `PosesExactly` puts
the branches together.  Without it the claim is false: TLC refutes `PoseExact` for a
skeleton in which a bone of the torso is listed behind a leg.
`Typed` is type correctness.

BoneAnimation_proofs proves `FramesInData`, `AnglesExact`, `PositionsExact` and type correctness
(FrameInData, AngleExact, PositionExact), for sequences of any length and all compressions that satisfy
`LayoutAssumption`.  The invariant is small (`Exact`, what was read last is right); the work is in
what the two recursive functions return.  `SearchExists` and `DecodingExists` show that the search for a
span and the written-out frames are functions at all, `SpanIs` and `DecodedIs` give them their equations,
`FoundFrom` and `AllFound` go through the spans from the last to the first: from every head the search ends in
the span that holds the frame, at its place in it.  `ReadsAre` and `PosedExactly` follow by cases over that place.

PluginLifecycle_proofs proves `FallbackHolds` and `CleanUnloads` under the hypothesis `OneRequest`, that the
engine asks for the blending interface at most once, as it does when it loads the game's library; a second
request would save the plugin's own function as the original.  The invariant says where the hook can be
(`Hooked`, `Handed`), what the tables are before and after the request (`Asked`, `Replaced`) and after an
unload (`Unloaded`).
`FoundFirstHolds`, `FaultHolds` (FoundFirst, FaultOnlyAbsent) and type correctness hold however often the
engine asks, for every module of bytes that lies below the end of the address space and every pair of
patterns whose operand lies within them and which are no longer than the module's address is high
(`ImagesAssumption`).  The invariant `SInv` ties `svs` and `sv` to the module that was searched; the
lemma `GlobalsAre` says what each search by name gives, `FindInside` and `FindAbsent` what a module or none; the
lemmas before them show that `Compare` stops exactly where the pattern fits or the read faults, that the scan
ends at the first of these addresses, and that the bound, computed without sign, keeps all reads inside
also where the module is shorter than the pattern.

Every invariant and every action property of the passing runs, and the refinement of Backtrack, has a
theorem.  Checked by TLC only: `LegsArrive`, a liveness property under fairness, which this prover does
not treat.  Recursive functions are proved about without the library's induction theorems, which take an
operator as a parameter: a function is shown to exist, and a fact about all its arguments, by looking at
the least argument at which it would fail (`LeastOf`).

## What the engine is taken to do

Packets are read, then the frame runs (`StartFrame`), then packets are sent.  Signing on needs a
packet, so a human's reconnect takes at least one server frame; bots enter at once.  The netchan
numbers of a client start at 1 or, on a new level, go on.  Frames are cleared on connection.
AddToFullPack is called for active players; the post hook runs whatever the game answered.  The
engine's loop over the targets of one packet is not interrupted, so `SendDatagram` is one step.  A
paused server is not modelled.  A game library that has the blending interface accepts the version the plugin
is made for, and may accept another one (`accepts`); an engine whose request is refused uses its own table.

## Not modelled

* include/ (about 50 thousand of the repository's 58 thousand lines of code): the headers of the Half-Life
  SDK, of Metamod, Steam and ReHLDS, with declarations and containers that the plugin does not use.  There
  is no behaviour of the plugin in them, so the share of lines that the models stand for stays small,
  although most of main.cpp and animation.cpp, and what is used of mem/, is modelled.
* dep/subhook, vendored, beyond the states of a hook; engine_api.cpp, sdk_util.cpp, h_export.cpp,
  mod_regamedll_api.cpp: tables and glue without state.
* Debug code of main.cpp, functions of animation.cpp and mem/ that nobody calls, the configuration file
  that OnMetaAttach has the engine execute.  handles.cpp keeps its list of libraries for good, but every
  query is made within the one call of OnMetaAttach, so it cannot go stale.
* The numbers of bone controllers, and floating-point arithmetic: quaternions, matrices, rounding.  A bound
  missed by an ulp is out of these models' reach.

## Plan

Done: the store, its promise and their proofs, PoseFrame, Interpolation, GaitYaw, AnimParams, BoneSetup,
BoneAnimation, PatternScan, PluginLifecycle, and proofs of all that the passing runs check but `LegsArrive`.
Left: facts about single steps that the liveness of the legs rests on (a still record turns them towards the
view by as much as it promises), which are within the prover's reach; and a model of turns below a tenth of a
degree, for the hazard at main.cpp:307.
