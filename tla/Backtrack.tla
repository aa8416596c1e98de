------------------------------ MODULE Backtrack ------------------------------
(***************************************************************************)
(* What lag compensation promises, without rings and indices: every client *)
(* has a log of the packets it was sent, and players are posed as the      *)
(* server has them, except in a compensated command, where they are posed  *)
(* as the packet showed them that the client acknowledged last.            *)
(* LagCompBacktrack shows that the store of LagCompHistory does this.      *)
(***************************************************************************)
EXTENDS Integers

CONSTANTS
  Client,      \* client slots
  Server,      \* stands for the server where a client is expected
  Keep         \* how many of its last packets a client may be behind

Viewer == Client \cup {Server}

\* Packet number seq, and the occupant it shows for each client slot (0 for none).
Packet  == [seq : Nat, ents : [Client -> Nat]]
Nothing == [seq |-> 0, ents |-> [t \in Client |-> 0]]

\* For whom, in which packet or frame, and from which occupant a pose was taken.
Pose == [view : Viewer, stamp : Nat, who : Int]

VARIABLES
  player,      \* the occupant of each slot that is in the game, 0 for none
  now,         \* the server frame
  sampled,     \* the occupant of each slot sampled in this frame, 0 for none
  next, ack,   \* number of a client's next packet, and of the last one it acknowledged
  log,         \* the packets remembered for each client
  running,     \* the client whose command is being run, or Server
  compensated, \* whether players are shown to it as in the past
  posed        \* what each player is posed from

vars == <<player, now, sampled, next, ack, log, running, compensated, posed>>

Init ==
  /\ player = [c \in Client |-> 0]
  /\ now = 0
  /\ sampled = [c \in Client |-> 0]
  /\ next = [c \in Client |-> 1]
  /\ ack = [c \in Client |-> 0]
  /\ log = [c \in Client |-> {}]
  /\ running = Server
  /\ compensated = FALSE
  /\ posed = [t \in Client |-> [view |-> Server, stamp |-> 0, who |-> 0]]

-----------------------------------------------------------------------------
(* Clients.                                                                *)

\* A client connects: nothing is remembered of another occupant's packets.
Connect(c) ==
  /\ player[c] = 0
  /\ log' = [log EXCEPT ![c] = {}]
  /\ \/ next' = [next EXCEPT ![c] = 1] /\ ack' = [ack EXCEPT ![c] = 0]
     \/ UNCHANGED <<next, ack>>
  /\ UNCHANGED <<player, now, sampled, running, compensated, posed>>

Enter(c) ==
  /\ player[c] = 0 /\ log[c] = {}
  /\ player'[c] # 0
  /\ player' = [player EXCEPT ![c] = player'[c]]
  /\ UNCHANGED <<now, sampled, next, ack, log, running, compensated, posed>>

Leave(c) ==
  /\ player' = [player EXCEPT ![c] = 0]
  /\ UNCHANGED <<now, sampled, next, ack, log, running, compensated, posed>>

Acknowledge(c) ==
  /\ \E q \in (ack[c] + 1)..(next[c] - 1) : ack' = [ack EXCEPT ![c] = q]
  /\ UNCHANGED <<player, now, sampled, next, log, running, compensated, posed>>

\* A packet without players, before a client is in the game.
SendEmpty(c) ==
  /\ player[c] = 0
  /\ next' = [next EXCEPT ![c] = @ + 1]
  /\ UNCHANGED <<player, now, sampled, ack, log, running, compensated, posed>>

\* A packet that shows some of the players: of the older ones, the last are remembered.
Send(c) ==
  /\ player[c] # 0
  /\ \E shown \in SUBSET Client :
       LET p == [seq |-> next[c], ents |-> [t \in Client |-> IF t \in shown THEN player[t] ELSE 0]]
       IN
       /\ p \in log'[c] /\ log'[c] \subseteq log[c] \cup {p}
       /\ \A old \in log[c] : old.seq > next[c] - Keep => old \in log'[c]
  /\ log' = [log EXCEPT ![c] = log'[c]]
  /\ next' = [next EXCEPT ![c] = @ + 1]
  /\ UNCHANGED <<player, now, sampled, ack, running, compensated, posed>>

-----------------------------------------------------------------------------
(* Poses.                                                                  *)

\* A server frame: all players are posed as they are now.
Sample ==
  /\ running = Server
  /\ now' = now + 1
  /\ sampled' = player
  /\ posed' = [t \in Client |->
                 IF player[t] # 0 THEN [view |-> Server, stamp |-> now + 1, who |-> player[t]]
                                  ELSE posed[t]]
  /\ UNCHANGED <<player, next, ack, log, running, compensated>>

\* The packet by which a command is judged: the acknowledged one, nothing when that showed
\* no players, and any that is remembered when it is too old.
Judged(c) ==
  LET acked == {p \in log[c] : p.seq = ack[c]} IN
  IF ack[c] < next[c] - Keep THEN log[c] \cup {Nothing}
  ELSE IF acked = {} THEN {Nothing} ELSE acked

\* Begin a command, compensated or not.
Compensate(c) ==
  /\ running = Server /\ running' = c
  /\ player[c] # 0
  /\ compensated' = TRUE
  /\ \E p \in Judged(c) :
       posed' = [t \in Client |->
                   IF t # c /\ player[t] # 0 /\ p.ents[t] # 0
                     THEN [view |-> c, stamp |-> p.seq, who |-> p.ents[t]] ELSE posed[t]]
  /\ UNCHANGED <<player, now, sampled, next, ack, log>>

Plain(c) ==
  /\ running = Server /\ running' = c
  /\ compensated' = FALSE
  /\ UNCHANGED <<player, now, sampled, next, ack, log, posed>>

\* End it: players are posed as the server has them, those not sampled in this frame as it
\* had them a whole round before, or not at all.
Finish(c) ==
  /\ running = c /\ running' = Server
  /\ compensated' = FALSE
  /\ posed' \in [Client -> Pose]
  /\ \A t \in Client :
       IF player[t] = 0 THEN posed'[t] = posed[t]
       ELSE IF sampled[t] # 0
         THEN posed'[t] = [view |-> Server, stamp |-> now, who |-> sampled[t]]
         ELSE posed'[t].view = Server /\ (posed'[t].stamp = 0 \/ posed'[t].stamp <= now - Keep)
  /\ UNCHANGED <<player, now, sampled, next, ack, log>>

Next ==
  \/ Sample
  \/ \E c \in Client :
       \/ Connect(c) \/ Enter(c) \/ Leave(c) \/ Acknowledge(c)
       \/ SendEmpty(c) \/ Send(c)
       \/ Compensate(c) \/ Plain(c) \/ Finish(c)

Spec == Init /\ [][Next]_vars
=============================================================================
