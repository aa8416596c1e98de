------------------------------ MODULE PoseFrame ------------------------------
(***************************************************************************)
(* Which animation frame a player is posed in, in Counter-Strike:          *)
(* ProcessAnimParams and CS_StudioProcessParams estimate it when a record  *)
(* is made, CS_StudioSetupBones uses it when the player is posed, and      *)
(* between them is the file-static variable player of animation.cpp, which *)
(* StudioEstimateFrame reads.  (HL_StudioSetupBones estimates the frame    *)
(* itself, after it has set player.)                                       *)
(*                                                                         *)
(* The estimate is a function of m_clTime, animtime, frame and framerate   *)
(* of player_params[player].  These are the same in every view of a player *)
(* in a server frame, so an estimate is known by its source: the player,   *)
(* the occupant of its slot and the server frame of the working copy it    *)
(* was computed from.                                                      *)
(*                                                                         *)
(* LagCompHistory shows that a ring slot holds the packet it is asked for; *)
(* here a row is therefore a log, by server frame (a client is sent one    *)
(* packet per frame at most), and a packet shows every active player.      *)
(***************************************************************************)
EXTENDS Integers

CONSTANTS
  N,           \* api->GetMaxClients(): the players are 1..N
  Fake,        \* the players that are bots: sent no packets, not compensated
  MaxFrame,    \* bound: last server frame
  MaxGen       \* bound: occupants per player slot

ASSUME PoseAssumption ==
  /\ N \in Nat \ {0}
  /\ Fake \subseteq 1..N
  /\ MaxFrame \in Nat /\ MaxGen \in Nat

Player == 1..N
None   == 0              \* player = -1: player_params[-1] is read, out of bounds
Viewer == 0..N           \* 0 is the server's own view
Stamp  == 0..MaxFrame

Gen    == 0..MaxGen      \* 0: nobody yet

Source == [of : Player \cup {None}, who : Gen, stamp : Stamp]
Wild   == [of |-> None, who |-> 0, stamp |-> 0]

\* who: the occupant; stamp: m_clTime; f: the source of f; est: when f was estimated.
Record == [who : Gen, stamp : Stamp, f : Source, est : Stamp]
Zero   == [who |-> 0, stamp |-> 0, f |-> Wild, est |-> 0]

VARIABLES
  active,    \* external: the players in the game
  gen,       \* external: the occupant of each slot
  phase,     \* external: "read" (packets, thinks) or "send"
  thinker,   \* external: the player whose command is being run, 0 if none
  now,       \* ServerFrameId, and the server's clock
  sent,      \* external: the server frame of the last packet to each player
  log,       \* player_params_history
  params,    \* player_params
  nofind,    \* nofind
  player     \* the static variable of animation.cpp

vars == <<active, gen, phase, thinker, now, sent, log, params, nofind, player>>

Init ==
  /\ active = {}
  /\ gen = [c \in Player |-> 0]
  /\ phase = "read"
  /\ thinker = 0
  /\ now = 0
  /\ sent = [h \in Player |-> 0]
  /\ log = [v \in Viewer |-> [n \in Stamp |-> [t \in Player |-> Zero]]]
  /\ params = [t \in Player |-> Zero]
  /\ nofind = FALSE
  /\ player = None

-----------------------------------------------------------------------------
(* The handlers.  X_Y is X with a slip Y, used by no action.               *)

\* What is read from the working copy r of p.
SourceOf_Swapped(p, r) == [of |-> r.who, who |-> p, stamp |-> r.stamp]
SourceOf(p, r) == [of |-> p, who |-> r.who, stamp |-> r.stamp]

\* StudioEstimateFrame reads the working copy of whoever was posed last, whosever
\* record is being made.
EstimateFrame(copies) ==
  IF player = None THEN Wild ELSE SourceOf(player, copies[player])

\* ProcessAnimParams at time t, built on the record prev.  CS_StudioProcessParams runs
\* with a gaitsequence, and may return early (no model, unknown sequence).
ProcessAnimParams(t, who, prev, estimated, copies) ==
  [who   |-> who,
   stamp |-> t,
   f     |-> IF estimated THEN EstimateFrame(copies) ELSE prev.f,
   est   |-> IF estimated THEN t ELSE prev.est]

\* Players are sampled in the order of their numbers, each into row 0 and then into its
\* working copy: whoever comes after player sees player's new copy.
StartFramePost ==
  LET clock(id) == [who |-> gen[id], stamp |-> now + 1]
      copies(id) == [p \in Player |-> IF p \in active /\ p < id THEN clock(p) ELSE params[p]]
  IN
  /\ phase = "read" /\ thinker = 0 /\ now < MaxFrame
  /\ phase' = "send"
  /\ now' = now + 1
  /\ \E est \in SUBSET active :
       LET new(id) == ProcessAnimParams(now + 1, gen[id], log[0][now][id],
                                        id \in est, copies(id))
       IN /\ log' = [log EXCEPT ![0][now + 1] =
                       [id \in Player |-> IF id \in active THEN new(id) ELSE @[id]]]
          /\ params' = [id \in Player |-> IF id \in active THEN new(id) ELSE params[id]]
  /\ UNCHANGED <<active, gen, thinker, sent, nofind, player>>

\* AddToFullPackPost for every active player but h, while h's packet is assembled.
SendDatagram(h) ==
  LET others == active \ {h} IN
  /\ phase = "send" /\ h \in active \ Fake /\ sent[h] < now
  /\ sent' = [sent EXCEPT ![h] = now]
  /\ \E est \in SUBSET others :
       log' = [log EXCEPT ![h][now] =
                 [t \in Player |->
                    IF t \in others
                      THEN ProcessAnimParams(now, gen[t], log[h][sent[h]][t], t \in est, params)
                      ELSE @[t]]]
  /\ UNCHANGED <<active, gen, phase, thinker, now, params, nofind, player>>

\* The client's command is compensated (lag) by the packet of frame n (any: acknowledging
\* is the subject of LagCompHistory), or it is left to the engine.
PlayerPreThinkPre(h, lag) ==
  /\ phase = "read" /\ thinker = 0 /\ h \in active
  /\ lag => h \notin Fake /\ N > 1
  /\ thinker' = h
  /\ nofind' = ~lag
  /\ IF lag
       THEN \E n \in 0..sent[h] :
              params' = [t \in Player |-> IF t \in active /\ log[h][n][t] # Zero
                                            THEN log[h][n][t] ELSE params[t]]
       ELSE UNCHANGED params
  /\ UNCHANGED <<active, gen, phase, now, sent, log, player>>

\* The working copies after the command: the server's own view.
ServerView_Kept == params
ServerView == [t \in Player |-> IF t \in active THEN log[0][now][t] ELSE params[t]]

PlayerPostThinkPost(h) ==
  /\ thinker = h
  /\ thinker' = 0
  /\ nofind' = FALSE
  /\ params' = ServerView
  /\ UNCHANGED <<active, gen, phase, now, sent, log, player>>

\* Past its guards CS_StudioSetupBones sets player; it poses with Pose(e).
SetupBones(e) ==
  /\ ~nofind
  /\ player' = e
  /\ UNCHANGED <<active, gen, phase, thinker, now, sent, log, params, nofind>>
Pose(e) == params[e].f

-----------------------------------------------------------------------------
(* The engine.                                                             *)

\* A client enters the game: PutInServer clears its row.
Enter(c) ==
  /\ phase = "read" /\ thinker = 0 /\ c \notin active /\ gen[c] < MaxGen
  /\ gen' = [gen EXCEPT ![c] = @ + 1]
  /\ active' = active \cup {c}
  /\ log' = [log EXCEPT ![c] = [n \in Stamp |-> [t \in Player |-> Zero]]]
  /\ UNCHANGED <<phase, thinker, now, sent, params, nofind, player>>

Leave(c) ==
  /\ c \in active
  /\ active' = active \ {c}
  /\ UNCHANGED <<gen, phase, thinker, now, sent, log, params, nofind, player>>

EndFrame ==
  /\ phase = "send"
  /\ phase' = "read"
  /\ UNCHANGED <<active, gen, thinker, now, sent, log, params, nofind, player>>

Next ==
  \/ StartFramePost
  \/ \E h \in Player : SendDatagram(h)
  \/ \E h \in Player, lag \in BOOLEAN : PlayerPreThinkPre(h, lag)
  \/ \E h \in Player : PlayerPostThinkPost(h)
  \/ \E e \in active : SetupBones(e)
  \/ \E c \in Player : Enter(c) \/ Leave(c)
  \/ EndFrame

Spec == Init /\ [][Next]_vars

-----------------------------------------------------------------------------
(* Properties.                                                             *)

\* Types of the variables.
TypeOK ==
  /\ active \subseteq Player
  /\ gen \in [Player -> Gen]
  /\ phase \in {"read", "send"}
  /\ thinker \in 0..N
  /\ now \in Stamp
  /\ sent \in [Player -> Stamp]
  /\ log \in [Viewer -> [Stamp -> [Player -> Record]]]
  /\ params \in [Player -> Record]
  /\ nofind \in BOOLEAN
  /\ player \in Player \cup {None}

\* README.md:9, "Hitbox backtrack based on client-side position": no player is posed in
\* the animation frame of another one.
OwnFrame == \A e \in active : ~nofind => Pose(e).of \in {None, e}

\* The server sampled this occupant of p's slot in server frame n.
Sampled(p, who, n) == log[0][n][p].stamp = n /\ log[0][n][p].who = who

\* CS: an estimate is computed, if not from the player's own, then at least from a fresh
\* clock: when the player it is taken from is still there, no record, for whatever viewer,
\* takes over a time to which a command went back (the restore of PlayerPostThinkPost).
\* A player who left within a command, or entered since, does leave an old clock behind.
FrameFresh ==
  \A v \in Viewer, n \in Stamp, t \in Player :
    LET r == log[v][n][t] IN
    r.f.stamp # 0 /\ Sampled(r.f.of, r.f.who, r.est) =>
      \A m \in (r.f.stamp + 1)..(r.est - 1) : ~Sampled(r.f.of, r.f.who, m)
=============================================================================
