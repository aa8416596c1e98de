--------------------------- MODULE LagCompHistory ---------------------------
(***************************************************************************)
(* The lag-compensation store of src/main.cpp: the per-viewer rings        *)
(* player_params_history, the working copy player_params, ServerFrameId    *)
(* and nofind, with the handlers that Metamod calls (PutInServer,          *)
(* StartFramePost, PlayerPreThinkPre, PlayerPostThinkPost,                 *)
(* AddToFullPackPost) and the bone set-up that reads the working copy.     *)
(*                                                                         *)
(* A record is the provenance of a player_anim_params_s: for which viewer, *)
(* in which packet or server frame, and from which occupant of the slot it *)
(* was computed, and on which earlier record it was built                  *)
(* ("params = prev_params").  The values in it are the subject of the      *)
(* modules Interpolation and AnimParams.                                   *)
(*                                                                         *)
(* The engine (netchan numbers, client_frame_t, connection life cycle, the *)
(* order read packets / physics / send) is not in the repository; it is    *)
(* modelled from how main.cpp reads client_t, and marked external.         *)
(***************************************************************************)
EXTENDS Integers

CONSTANTS
  Client,       \* the client slots, 1..api->GetMaxClients()
  Server,       \* row 0 of the history, the server's own view (edict 0)
  Backup,       \* SV_UPDATE_BACKUP, the slots of a ring (64 in the code)
  Fake,         \* the clients that are bots (client_t.fakeclient)
  MaxSeq,       \* bound: last packet number a netchan uses
  MaxFrame,     \* bound: last server frame
  MaxGen        \* bound: occupants per client slot

ASSUME HistoryAssumption ==
  /\ Server \notin Client
  /\ Backup \in Nat \ {0, 1}
  /\ Fake \subseteq Client
  /\ MaxSeq \in Nat /\ MaxFrame \in Nat /\ MaxGen \in Nat

Viewer == Client \cup {Server}   \* the rows of the history
Slot   == 0..(Backup - 1)

SlotOf(seq) == seq % Backup  \* SV_UPDATE_MASK & seq

Junk == -1                   \* data that is not of the entity it is filed under
Gen  == Nat \cup {Junk}      \* 0: nobody yet

(***************************************************************************)
(* view: the row it was written to; stamp: the packet or frame number; who *)
(* and owner: the occupant of the target's and of the viewer's slot then;  *)
(* base and baseWho: stamp and occupant of the record it was built on;     *)
(* pose: whether SetupBones has edited it since (prevframe, gaitsequence). *)
(***************************************************************************)
Record == [view : Viewer, stamp : Nat, who : Gen, owner : Nat,
           base : Nat, baseWho : Gen, pose : {"recorded", "edited"}]

Zero == [view |-> Server, stamp |-> 0, who |-> 0, owner |-> 0,
         base |-> 0, baseWho |-> 0, pose |-> "recorded"]

Status == {"free", "connecting", "signon", "active"}

\* client_frame_t: the occupant shown for each client slot, 0 for none.
Frame   == [seq : Nat, ents : [Client -> Nat]]
NoFrame == [seq |-> 0, ents |-> [c \in Client |-> 0]]

VARIABLES
  status, gen,          \* external: client_t and its occupant
  out, ack,             \* external: netchan.outgoing_sequence, incoming_acknowledged
  frames,               \* external: client_t.frames
  phase,                \* external: "read" (packets, thinks) or "send"
  thinker,              \* external: client whose command is being run, else Server
  serverFrame,          \* ServerFrameId
  hist,                 \* player_params_history
  params,               \* player_params
  nofind                \* nofind

engineVars == <<status, gen, out, ack, frames, phase>>
vars == <<engineVars, thinker, serverFrame, hist, params, nofind>>

IsActive(c) == status[c] = "active"
Actives     == {c \in Client : IsActive(c)}
NoHistory   == [s \in Slot |-> [t \in Client |-> Zero]]

Init ==
  /\ status = [c \in Client |-> "free"]
  /\ gen = [c \in Client |-> 0]
  /\ out = [c \in Client |-> 1]
  /\ ack = [c \in Client |-> 0]
  /\ frames = [c \in Client |-> [s \in Slot |-> NoFrame]]
  /\ phase = "read"
  /\ thinker = Server
  /\ serverFrame = 0
  /\ hist = [v \in Viewer |-> NoHistory]
  /\ params = [t \in Client |-> Zero]
  /\ nofind = FALSE

-----------------------------------------------------------------------------
(* The handlers of the plugin.  An operator named X_Y is X with a slip Y: no *)
(* action uses it; it shows that the properties notice the slip.           *)

\* The record of a target sampled from occupant who, built on the record prev.
ProcessAnimParams_Swapped(v, seq, who, owner, prev) ==
  [view |-> v, stamp |-> seq, who |-> owner, owner |-> who,
   base |-> prev.stamp, baseWho |-> prev.who, pose |-> "recorded"]
ProcessAnimParams(v, seq, who, owner, prev) ==
  [view |-> v, stamp |-> seq, who |-> who, owner |-> owner,
   base |-> prev.stamp, baseWho |-> prev.who, pose |-> "recorded"]

\* prev_params: the record of the packet or frame before.
PrevRecord_TwoBack(v, seq, t) == hist[v][SlotOf(seq - 2)][t]
PrevRecord(v, seq, t) == hist[v][SlotOf(seq - 1)][t]

\* The memset of PutInServer.
Forget_Nothing(h) == hist
Forget(h) == [hist EXCEPT ![h] = NoHistory]

\* A client enters the game: its own view of the others is forgotten.
PutInServer(h) ==
  /\ phase = "read" /\ thinker = Server
  /\ status[h] = "signon"
  /\ hist' = Forget(h)
  /\ status' = [status EXCEPT ![h] = "active"]
  /\ UNCHANGED <<gen, out, ack, frames, phase, thinker, serverFrame, params, nofind>>

\* Once per server frame: sample every active player into row 0.
StartFramePost ==
  LET now == serverFrame + 1
      cur == SlotOf(now)
      new(t) == ProcessAnimParams(Server, now, gen[t], 0, PrevRecord(Server, now, t))
  IN
  /\ phase = "read" /\ thinker = Server
  /\ serverFrame < MaxFrame
  /\ phase' = "send"
  /\ serverFrame' = now
  /\ hist' = [hist EXCEPT ![Server][cur] =
                [t \in Client |-> IF IsActive(t) THEN new(t) ELSE hist[Server][cur][t]]]
  /\ params' = [t \in Client |-> IF IsActive(t) THEN new(t) ELSE params[t]]
  /\ UNCHANGED <<status, gen, out, ack, frames, thinker, nofind>>

\* lag: sv_unlag, AllowLagCompensation() and the client's lw and lc are all on.
Compensated(h, lag) == h \notin Fake /\ lag /\ Client # {h} /\ IsActive(h)

\* frame_index: of the packet the client acknowledged last.
FrameIndex_Latest(h) == SlotOf(out[h] - 1)
FrameIndex(h) == SlotOf(ack[h])

\* Before h's command is run: show it the targets as its last acknowledged packet did.
PlayerPreThinkPre(h, lag) ==
  LET cur == FrameIndex(h)
      seen == {t \in Actives \ {h} : frames[h][cur].ents[t] # 0}
  IN
  /\ phase = "read" /\ thinker = Server
  /\ status[h] # "free"
  /\ thinker' = h
  /\ nofind' = ~Compensated(h, lag)
  /\ params' = [t \in Client |-> IF Compensated(h, lag) /\ t \in seen
                                   THEN hist[h][cur][t] ELSE params[t]]
  /\ UNCHANGED <<engineVars, serverFrame, hist>>

\* The working copy that PlayerPostThinkPost restores: the server's own view.
ServerView_Kept == params
ServerView ==
  [t \in Client |-> IF IsActive(t) THEN hist[Server][SlotOf(serverFrame)][t] ELSE params[t]]

\* After the command.
PlayerPostThinkPost(h) ==
  /\ thinker = h
  /\ thinker' = Server
  /\ nofind' = FALSE
  /\ params' = ServerView
  /\ UNCHANGED <<engineVars, serverFrame, hist>>

\* Called for every active target while h's packet is assembled.  When the game
\* left the entity out, its entity_state was not filled in for this target.
AddToFullPackPost_NextNumber(h, t, shown) ==
  ProcessAnimParams(h, out[h] + 1, IF t \in shown THEN gen[t] ELSE Junk, gen[h],
                    PrevRecord(h, out[h], t))
AddToFullPackPost(h, t, shown) ==
  ProcessAnimParams(h, out[h], IF t \in shown THEN gen[t] ELSE Junk, gen[h],
                    PrevRecord(h, out[h], t))

\* The frame of the packet: the client itself is always in it.
SentFrame(h, shown) ==
  [seq |-> out[h],
   ents |-> [t \in Client |-> IF t \in shown \cup {h} THEN gen[t] ELSE 0]]

\* The engine sends h a packet: AddToFullPackPost per target, frame, next number.
SendDatagram(h) ==
  LET cur == SlotOf(out[h]) IN
  /\ phase = "send"
  /\ IsActive(h) /\ h \notin Fake
  /\ out[h] < MaxSeq
  /\ \E shown \in SUBSET (Actives \ {h}) :
       /\ hist' = [hist EXCEPT ![h][cur] =
                     [t \in Client |-> IF IsActive(t) /\ t # h
                                         THEN AddToFullPackPost(h, t, shown)
                                         ELSE hist[h][cur][t]]]
       /\ frames' = [frames EXCEPT ![h][cur] = SentFrame(h, shown)]
  /\ out' = [out EXCEPT ![h] = @ + 1]
  /\ UNCHANGED <<status, gen, ack, phase, thinker, serverFrame, params, nofind>>

\* What the bone set-up poses e from: the engine's own code or the working copy.
UsesFix(enabled) == enabled /\ ~nofind

\* SV_StudioSetupBones: may store prevframe and a bounded gaitsequence in player_params.
SetupBones(e, enabled) ==
  /\ \E edit \in BOOLEAN :
       params' = IF UsesFix(enabled) /\ edit
                   THEN [params EXCEPT ![e].pose = "edited"] ELSE params
  /\ UNCHANGED <<engineVars, thinker, serverFrame, hist, nofind>>
-----------------------------------------------------------------------------
(* The engine.                                                             *)

\* A new occupant: a fresh netchan, or (level change) the client's own one.
Connect(c) ==
  /\ phase = "read" /\ thinker = Server
  /\ status[c] = "free" /\ gen[c] < MaxGen
  /\ status' = [status EXCEPT ![c] = IF c \in Fake THEN "signon" ELSE "connecting"]
  /\ gen' = [gen EXCEPT ![c] = @ + 1]
  /\ \/ out' = [out EXCEPT ![c] = 1] /\ ack' = [ack EXCEPT ![c] = 0]
     \/ UNCHANGED <<out, ack>>
  /\ frames' = [frames EXCEPT ![c] = [s \in Slot |-> NoFrame]]
  /\ UNCHANGED <<phase, thinker, serverFrame, hist, params, nofind>>

\* Sign-on data: a packet without entities.
TransmitEmpty(c) ==
  /\ phase = "send"
  /\ c \notin Fake /\ status[c] \in {"connecting", "signon"} /\ out[c] < MaxSeq
  /\ status' = [status EXCEPT ![c] = "signon"]
  /\ out' = [out EXCEPT ![c] = @ + 1]
  /\ UNCHANGED <<gen, ack, frames, phase, thinker, serverFrame, hist, params, nofind>>

\* A packet of c arrives and acknowledges a later one of the server's.
Acknowledge(c) ==
  /\ phase = "read" /\ thinker = Server /\ status[c] # "free"
  /\ \E q \in (ack[c] + 1)..(out[c] - 1) : ack' = [ack EXCEPT ![c] = q]
  /\ UNCHANGED <<status, gen, out, frames, phase, thinker, serverFrame, hist, params, nofind>>

\* Dropped, kicked (from inside a command too) or the level ends.
Leave(c) ==
  /\ status[c] # "free"
  /\ status' = [status EXCEPT ![c] = "free"]
  /\ UNCHANGED <<gen, out, ack, frames, phase, thinker, serverFrame, hist, params, nofind>>

EndFrame ==
  /\ phase = "send"
  /\ phase' = "read"
  /\ UNCHANGED <<status, gen, out, ack, frames, thinker, serverFrame, hist, params, nofind>>

Plugin ==
  \/ StartFramePost
  \/ \E h \in Client : PutInServer(h)
  \/ \E h \in Client, lag \in BOOLEAN : PlayerPreThinkPre(h, lag)
  \/ \E h \in Client : PlayerPostThinkPost(h)
  \/ \E h \in Client : SendDatagram(h)
  \/ \E e \in Client, enabled \in BOOLEAN : SetupBones(e, enabled)

Engine ==
  \/ \E c \in Client : Connect(c) \/ TransmitEmpty(c) \/ Acknowledge(c) \/ Leave(c)
  \/ EndFrame

Next == Plugin \/ Engine

Spec == Init /\ [][Next]_vars
-----------------------------------------------------------------------------
(* Properties.                                                             *)

\* Types of the variables.
TypeOK ==
  /\ status \in [Client -> Status]
  /\ gen \in [Client -> Nat]
  /\ out \in [Client -> Nat \ {0}]
  /\ ack \in [Client -> Nat]
  /\ frames \in [Client -> [Slot -> Frame]]
  /\ phase \in {"read", "send"}
  /\ thinker \in Viewer
  /\ serverFrame \in Nat
  /\ hist \in [Viewer -> [Slot -> [Client -> Record]]]
  /\ params \in [Client -> Record]
  /\ nofind \in BOOLEAN

\* While a compensated command of h runs, and its acknowledged packet is at most
\* Backup packets old, every player that packet showed it is posed from the record
\* made for that very packet (main.cpp PlayerPreThinkPre against AddToFullPackPost),
\* of the occupant the packet showed.
BacktrackExact ==
  thinker # Server /\ ~nofind /\ ack[thinker] >= out[thinker] - Backup =>
    LET seen == frames[thinker][SlotOf(ack[thinker])].ents IN
    \A t \in Actives \ {thinker} :
      seen[t] # 0 => /\ params[t].view = thinker
                     /\ params[t].stamp = ack[thinker]
                     /\ params[t].who = seen[t]

\* One ring index serves the engine's frame and the plugin's records: whatever packet a
\* slot of an active client's client_t.frames holds, the records at that index are of the
\* same packet, sampled from the players it showed, however old the packet.
FrameCoherent ==
  \A h \in Client, s \in Slot : \A t \in Client \ {h} :
    frames[h][s].ents[t] # 0 => /\ hist[h][s][t].stamp = frames[h][s].seq
                                /\ hist[h][s][t].who = frames[h][s].ents[t]

Pristine(r) == [r EXCEPT !.pose = "recorded"]

\* A player (this occupant of the slot) sampled in this server frame is posed from the
\* server's own view, or, within a compensated command, from that of the client whose
\* command it is: no command leaves its view, or nofind, behind for another player's
\* command, a trace or an entity's think.
ViewOwner ==
  /\ nofind => thinker # Server
  /\ \A t \in Client :
       LET cur == hist[Server][SlotOf(serverFrame)][t] IN
       IsActive(t) /\ cur.stamp = serverFrame /\ cur.who = gen[t] =>
         \/ Pristine(params[t]) = cur
         \/ /\ thinker # Server /\ ~nofind
            /\ Pristine(params[t]) = hist[thinker][SlotOf(ack[thinker])][t]

\* All that an active client's ring holds was recorded for this client, not for an
\* earlier occupant of its slot (the memset of PutInServer).
RowOwned ==
  \A h \in Client : IsActive(h) =>
    \A s \in Slot, t \in Client : hist[h][s][t].stamp # 0 => hist[h][s][t].owner = gen[h]

\* A record is built on the one of the packet (or frame) right before it, or on nothing,
\* or else on one that is more than a whole ring older: nothing in between.
LaneBase ==
  \A v \in Viewer, s \in Slot, t \in Client :
    LET r == hist[v][s][t] IN
    r.stamp # 0 => r.base \in {0, r.stamp - 1} \/ r.base < r.stamp - Backup

\* No step takes a record away before its ring has come round, except that a client
\* entering the game loses its whole row: what the client may still acknowledge is there.
RecordsKept ==
  [][\A v \in Viewer, s \in Slot, t \in Client :
       \/ hist'[v][s][t] = hist[v][s][t]
       \/ hist[v][s][t].stamp = 0
       \/ hist'[v][s][t].stamp >= hist[v][s][t].stamp + Backup
       \/ v # Server /\ ~IsActive(v) /\ IsActive(v)' /\ hist'[v] = NoHistory]_vars

\* README.md:10, "Fixes broken hitbox position on spawn": the first records of a player
\* who has just spawned are not built on those of another player.
SpawnClean ==
  \A t \in Client : IsActive(t) /\ params[t].who = gen[t] =>
    params[t].baseWho \in {0, Junk, gen[t]}
=============================================================================
