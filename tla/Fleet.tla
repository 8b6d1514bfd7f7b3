-------------------------------- MODULE Fleet --------------------------------
(***************************************************************************)
(* internal/controlplane: the registry of gateways that one node keeps and *)
(* the choice of a gateway for a new session.                              *)
(*                                                                         *)
(* Peers report their sessions by PUT heartbeat.  The handler registers    *)
(* the peer, then reads its own counters and registers itself; the         *)
(* handlers of two heartbeats interleave.  List leaves out entries older   *)
(* than the TTL, and Select takes the least loaded node below 90%.         *)
(*                                                                         *)
(* Time passes in ticks.  A handler takes less than a tick and a heartbeat *)
(* is on its way for at most Flight ticks (the server's ReadTimeout).      *)
(*                                                                         *)
(* A definition X_Bug is X with a bug that the runs are known to find; no  *)
(* action uses it.                                                         *)
(***************************************************************************)
EXTENDS Integers, Sequences

CONSTANTS
  Peers,      \* the other gateways
  Self,       \* this one
  Handlers,   \* goroutines that handle a heartbeat
  Capacity,   \* MaxSessions of every node
  Loads,      \* numbers of sessions a node is run with
  TTL,        \* GatewayRegistry.ttl
  Flight,     \* bound on the time a heartbeat is on its way
  MaxTime     \* bound on the clock

Nodes == Peers \cup {Self}

ASSUME FleetAssumption ==
  /\ Self \notin Peers
  /\ Capacity \in Nat \ {0}
  /\ Loads \subseteq Nat
  /\ TTL \in Nat \ {0} /\ Flight \in Nat /\ MaxTime \in Nat

VARIABLES
  now,        \* the clock
  load,       \* sessions of each node
  reg,        \* GatewayRegistry.nodes: a sequence of at most one entry each
  beat,       \* the heartbeat of each peer that is on its way
  handler,    \* step of each handler, with its selfInfo
  roomAt      \* a record of the past: when each node last had room

fleetVars == <<now, load, reg, beat, handler, roomAt>>

(* sessionLoad() < 0.9                                                     *)
Room(sessions) == 10 * sessions < 9 * Capacity

Never == 0 - TTL - Flight - 1

Idle == [step |-> "idle", sessions |-> 0]

FleetStart ==
  /\ now = 0
  /\ reg = [g \in Nodes |->
              IF g = Self THEN <<[sessions |-> load[g], at |-> 0]>> ELSE <<>>]
  /\ beat = [p \in Peers |-> <<>>]
  /\ handler = [h \in Handlers |-> Idle]
  /\ roomAt = [g \in Nodes |-> IF Room(load[g]) THEN 0 ELSE Never]

FleetInit == load \in [Nodes -> Loads] /\ FleetStart

-----------------------------------------------------------------------------

(* The record of the past after a step.                                    *)
Note == roomAt' = [g \in Nodes |-> IF Room(load'[g]) THEN now' ELSE roomAt[g]]

Tick ==
  /\ now < MaxTime
  /\ \A p \in Peers : beat[p] # <<>> => now < beat[p][1].sent + Flight
  /\ \A h \in Handlers : handler[h].step = "idle"
  /\ now' = now + 1
  /\ UNCHANGED <<load, reg, beat, handler>>
  /\ Note

(* Sessions begin and end at a node.                                       *)
LoadChanges(g, n) ==
  /\ load' = [load EXCEPT ![g] = n]
  /\ UNCHANGED <<now, reg, beat, handler>>
  /\ Note

SendBeat(p) ==
  /\ beat[p] = <<>>
  /\ beat' = [beat EXCEPT ![p] = <<[sessions |-> load[p], sent |-> now]>>]
  /\ UNCHANGED <<now, load, reg, handler, roomAt>>

(* A heartbeat is lost, or refused for its body.                           *)
LoseBeat(p) ==
  /\ beat[p] # <<>>
  /\ beat' = [beat EXCEPT ![p] = <<>>]
  /\ UNCHANGED <<now, load, reg, handler, roomAt>>

Register(g, sessions) ==
  reg' = [reg EXCEPT ![g] = <<[sessions |-> sessions, at |-> now]>>]

Heartbeat(p, h) ==
  /\ beat[p] # <<>>
  /\ handler[h].step = "idle"
  /\ Register(p, beat[p][1].sessions)
  /\ beat' = [beat EXCEPT ![p] = <<>>]
  /\ handler' = [handler EXCEPT ![h] = [step |-> "selfInfo", sessions |-> 0]]
  /\ UNCHANGED <<now, load, roomAt>>

SelfInfo(h) ==
  /\ handler[h].step = "selfInfo"
  /\ handler' = [handler EXCEPT ![h] = [step |-> "register", sessions |-> load[Self]]]
  /\ UNCHANGED <<now, load, reg, beat, roomAt>>

RegisterSelf(h) ==
  /\ handler[h].step = "register"
  /\ Register(Self, handler[h].sessions)
  /\ handler' = [handler EXCEPT ![h] = Idle]
  /\ UNCHANGED <<now, load, beat, roomAt>>

Deregister(g) ==
  /\ reg' = [reg EXCEPT ![g] = <<>>]
  /\ UNCHANGED <<now, load, beat, handler, roomAt>>

List_Stale == {g \in Nodes : reg[g] # <<>>}
List == {g \in Nodes : reg[g] # <<>> /\ now <= reg[g][1].at + TTL}

(* What Select may return: the least loaded of the nodes with room, any of *)
(* them on a tie.                                                          *)
Candidates ==
  LET able == {g \in List : Room(reg[g][1].sessions)} IN
  {g \in able : \A h \in able : reg[g][1].sessions <= reg[h][1].sessions}

FleetNext ==
  \/ Tick
  \/ \E g \in Nodes, n \in Loads : LoadChanges(g, n)
  \/ \E p \in Peers : SendBeat(p) \/ LoseBeat(p) \/ \E h \in Handlers : Heartbeat(p, h)
  \/ \E h \in Handlers : SelfInfo(h) \/ RegisterSelf(h)
  \/ \E g \in Nodes : Deregister(g)

FleetSpec == FleetInit /\ [][FleetNext]_fleetVars

-----------------------------------------------------------------------------
(* Properties.                                                             *)

Entries == [sessions : Nat, at : Nat]

FleetTypeOK ==
  /\ now \in Nat
  /\ load \in [Nodes -> Nat]
  /\ DOMAIN reg = Nodes
  /\ \A g \in Nodes : reg[g] # <<>> => reg[g][1] \in Entries
  /\ DOMAIN beat = Peers
  /\ \A p \in Peers : beat[p] # <<>> => beat[p][1] \in [sessions : Nat, sent : Nat]
  /\ handler \in [Handlers -> [step : {"idle", "selfInfo", "register"}, sessions : Nat]]
  /\ roomAt \in [Nodes -> Int]

(* A gateway that Select returns had room for a session not longer ago than *)
(* an entry lives and a heartbeat travels, whatever heartbeats were lost and  *)
(* however the handlers that register this node itself interleave.         *)
ChosenHadRoom ==
  \A g \in Candidates : now <= roomAt[g] + TTL + Flight
=============================================================================
