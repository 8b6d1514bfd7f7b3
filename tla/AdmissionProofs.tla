--------------------------- MODULE AdmissionProofs ---------------------------
(***************************************************************************)
(* The promises of admission for any number of calls, workers and peers,   *)
(* any limits and any TTL, whatever handlers do between check and use.     *)
(*                                                                         *)
(* The sessions of this node and the streams of its manager are counted    *)
(* over the slots of calls, and so is what handlers between their checks   *)
(* and their use still want: a check that passes leaves both together at   *)
(* most two for each of them above its threshold, and no step until the    *)
(* next check adds to the two.  The fleet comes first, by itself: a        *)
(* gateway that Select returns had room lately.  The bound is passed       *)
(* along: what a heartbeat says was true when it was sent, a handler reads *)
(* this node's counter within the tick in which it registers it, so an     *)
(* entry is at most Flight older than its time stamp says, and List shows  *)
(* it for TTL more.  A call that begins or ends is, for the fleet, a       *)
(* change of this node's sessions.                                         *)
(***************************************************************************)
EXTENDS Admission, FiniteSetTheorems, TLAPS

-----------------------------------------------------------------------------
(* The fleet.                                                              *)

(* The record of the past is kept, and no node has room later than now.    *)
PastIsKept ==
  \A g \in Nodes : roomAt[g] <= now /\ (Room(load[g]) => roomAt[g] = now)

BeatIsRecent ==
  \A p \in Peers : beat[p] # <<>> =>
    /\ beat[p][1].sent <= now /\ now <= beat[p][1].sent + Flight
    /\ Room(beat[p][1].sessions) => beat[p][1].sent <= roomAt[p]

SelfIsRecent ==
  \A h \in Handlers :
    handler[h].step = "register" /\ Room(handler[h].sessions) => roomAt[Self] = now

EntryHadRoom ==
  \A g \in Nodes :
    reg[g] # <<>> /\ Room(reg[g][1].sessions) => reg[g][1].at <= roomAt[g] + Flight

FleetInv == FleetTypeOK /\ PastIsKept /\ BeatIsRecent /\ SelfIsRecent /\ EntryHadRoom

-----------------------------------------------------------------------------

(* A new registry knows this node's own sessions only.                     *)
LEMMA FleetStartInv == load \in [Nodes -> Nat] /\ FleetStart => FleetInv
<1> SUFFICES ASSUME load \in [Nodes -> Nat], FleetStart PROVE FleetInv
  OBVIOUS
<1> USE FleetAssumption DEF FleetStart, Nodes, Idle, Never
<1>1. load \in [Nodes -> Nat]
  OBVIOUS
<1>2. FleetTypeOK
  <2>1. \A g \in Nodes : reg[g] # <<>> => reg[g][1] \in Entries
    BY <1>1 DEF Entries
  <2>2. handler \in [Handlers -> [step : {"idle", "selfInfo", "register"}, sessions : Nat]]
    OBVIOUS
  <2>3. roomAt \in [Nodes -> Int]
    OBVIOUS
  <2> QED
    BY <1>1, <2>1, <2>2, <2>3 DEF FleetTypeOK
<1>3. PastIsKept
  BY <1>1 DEF PastIsKept
<1>4. BeatIsRecent
  BY DEF BeatIsRecent
<1>5. SelfIsRecent
  BY DEF SelfIsRecent
<1>6. EntryHadRoom
  BY <1>1 DEF EntryHadRoom
<1> QED
  BY <1>2, <1>3, <1>4, <1>5, <1>6 DEF FleetInv

(* What Note does to the record: it is kept, never falls, and is the new   *)
(* time wherever there is room.                                            *)
LEMMA NoteKeepsPast ==
  ASSUME FleetTypeOK, PastIsKept, Note, now' \in Nat, now <= now'
  PROVE  /\ roomAt' \in [Nodes -> Int]
         /\ \A g \in Nodes : roomAt[g] <= roomAt'[g]
         /\ PastIsKept'
<1>1. roomAt \in [Nodes -> Int] /\ now \in Nat
  BY DEF FleetTypeOK
<1>2. \A g \in Nodes : roomAt'[g] = IF Room(load'[g]) THEN now' ELSE roomAt[g]
  BY DEF Note
<1>3. roomAt' \in [Nodes -> Int]
  BY <1>1 DEF Note
<1>4. \A g \in Nodes : roomAt[g] <= now
  BY DEF PastIsKept
<1>5. \A g \in Nodes : roomAt[g] <= roomAt'[g]
  BY <1>1, <1>2, <1>4
<1>6. \A g \in Nodes : roomAt'[g] <= now' /\ (Room(load'[g]) => roomAt'[g] = now')
  BY <1>1, <1>2, <1>4
<1> QED
  BY <1>3, <1>5, <1>6 DEF PastIsKept, Room

(* What is known of the past stays known while the record only grows.      *)
LEMMA EntryKept ==
  ASSUME FleetTypeOK, EntryHadRoom, reg' = reg, roomAt' \in [Nodes -> Int],
         \A g \in Nodes : roomAt[g] <= roomAt'[g]
  PROVE  EntryHadRoom'
<1> SUFFICES ASSUME NEW g \in Nodes, reg[g] # <<>>, Room(reg[g][1].sessions)
             PROVE  reg[g][1].at <= roomAt'[g] + Flight
  BY DEF EntryHadRoom, Room
<1>1. reg[g][1].at \in Nat /\ roomAt[g] \in Int /\ roomAt'[g] \in Int /\ roomAt[g] <= roomAt'[g]
  BY DEF FleetTypeOK, Entries
<1>2. reg[g][1].at <= roomAt[g] + Flight
  BY DEF EntryHadRoom
<1> QED
  BY <1>1, <1>2, FleetAssumption

(* The same of a heartbeat that is on its way.                             *)
LEMMA BeatKept ==
  ASSUME FleetTypeOK, BeatIsRecent, beat' = beat, now' = now, roomAt' \in [Nodes -> Int],
         \A g \in Nodes : roomAt[g] <= roomAt'[g]
  PROVE  BeatIsRecent'
<1> SUFFICES ASSUME NEW p \in Peers, beat[p] # <<>>
             PROVE  /\ beat[p][1].sent <= now /\ now <= beat[p][1].sent + Flight
                    /\ Room(beat[p][1].sessions) => beat[p][1].sent <= roomAt'[p]
  BY DEF BeatIsRecent, Room
<1>1. beat[p][1].sent \in Nat /\ p \in Nodes
  BY DEF FleetTypeOK, Nodes
<1>2. roomAt[p] \in Int /\ roomAt'[p] \in Int /\ roomAt[p] <= roomAt'[p]
  BY <1>1 DEF FleetTypeOK
<1> QED
  BY <1>1, <1>2 DEF BeatIsRecent

(* Registering an entry whose sessions were true at most Flight ago.       *)
LEMMA RegisterKeeps ==
  ASSUME FleetTypeOK, EntryHadRoom, NEW g \in Nodes, NEW n \in Nat,
         Register(g, n), Room(n) => now <= roomAt[g] + Flight,
         UNCHANGED roomAt
  PROVE  /\ DOMAIN reg' = Nodes
         /\ \A k \in Nodes : reg'[k] # <<>> => reg'[k][1] \in Entries
         /\ EntryHadRoom'
<1>1. DOMAIN reg = Nodes /\ now \in Nat
  BY DEF FleetTypeOK
<1>2. DOMAIN reg' = Nodes
  BY <1>1 DEF Register
<1>3. \A k \in Nodes : reg'[k] = IF k = g THEN <<[sessions |-> n, at |-> now]>> ELSE reg[k]
  BY <1>1 DEF Register
<1>4. \A k \in Nodes : reg'[k] # <<>> => reg'[k][1] \in Entries
  BY <1>1, <1>3 DEF FleetTypeOK, Entries
<1>5. \A k \in Nodes :
        reg'[k] # <<>> /\ Room(reg'[k][1].sessions) => reg'[k][1].at <= roomAt'[k] + Flight
  BY <1>3 DEF EntryHadRoom
<1> QED
  BY <1>2, <1>4, <1>5 DEF EntryHadRoom, Room

(* Sessions that begin or end anywhere change the record and nothing else. *)
LEMMA LoadKeeps ==
  ASSUME FleetInv, UNCHANGED <<now, reg, beat, handler>>, Note, load' \in [Nodes -> Nat]
  PROVE  FleetInv'
<1> USE FleetAssumption
<1>0. FleetTypeOK /\ PastIsKept /\ BeatIsRecent /\ SelfIsRecent /\ EntryHadRoom
  BY DEF FleetInv
<1>t. now \in Nat /\ roomAt \in [Nodes -> Int]
  BY <1>0 DEF FleetTypeOK
<1>1. /\ roomAt' \in [Nodes -> Int]
      /\ \A k \in Nodes : roomAt[k] <= roomAt'[k]
      /\ PastIsKept'
  BY <1>0, <1>t, NoteKeepsPast
<1>2. FleetTypeOK'
  BY <1>0, <1>1 DEF FleetTypeOK
<1>3. BeatIsRecent'
  BY <1>0, <1>1, BeatKept
<1>4. SelfIsRecent'
  <2>1. Self \in Nodes /\ roomAt'[Self] <= now' /\ roomAt[Self] <= roomAt'[Self]
    BY <1>1 DEF Nodes, PastIsKept
  <2> QED
    BY <1>0, <1>t, <1>1, <2>1 DEF SelfIsRecent, Room
<1>5. EntryHadRoom'
  BY <1>0, <1>1, EntryKept
<1> QED
  BY <1>1, <1>2, <1>3, <1>4, <1>5 DEF FleetInv

(* Every step keeps the invariant.                                         *)
LEMMA FleetStepInv == FleetInv /\ [FleetNext]_fleetVars => FleetInv'
<1> SUFFICES ASSUME FleetInv, [FleetNext]_fleetVars PROVE FleetInv'
  OBVIOUS
<1> USE FleetAssumption
<1>0. FleetTypeOK /\ PastIsKept /\ BeatIsRecent /\ SelfIsRecent /\ EntryHadRoom
  BY DEF FleetInv
<1>t. now \in Nat /\ roomAt \in [Nodes -> Int] /\ load \in [Nodes -> Nat]
  BY <1>0 DEF FleetTypeOK
<1>1. CASE Tick
  <2>1. now' = now + 1 /\ now' \in Nat /\ UNCHANGED <<load, reg, beat, handler>> /\ Note
    BY <1>1, <1>t DEF Tick
  <2>2. /\ roomAt' \in [Nodes -> Int]
        /\ \A g \in Nodes : roomAt[g] <= roomAt'[g]
        /\ PastIsKept'
    BY <1>0, <1>t, <2>1, NoteKeepsPast
  <2>3. FleetTypeOK'
    BY <1>0, <2>1, <2>2 DEF FleetTypeOK
  <2>4. BeatIsRecent'
    <3> SUFFICES ASSUME NEW p \in Peers, beat[p] # <<>>
                 PROVE  /\ beat[p][1].sent <= now' /\ now' <= beat[p][1].sent + Flight
                        /\ Room(beat[p][1].sessions) => beat[p][1].sent <= roomAt'[p]
      BY <2>1 DEF BeatIsRecent, Room
    <3>1. beat[p][1].sent \in Nat /\ p \in Nodes
      BY <1>0 DEF FleetTypeOK, Nodes
    <3>2. now < beat[p][1].sent + Flight /\ Flight \in Nat
      BY <1>1 DEF Tick
    <3>3. /\ beat[p][1].sent <= now
          /\ Room(beat[p][1].sessions) => beat[p][1].sent <= roomAt[p]
      BY <1>0 DEF BeatIsRecent
    <3>4. roomAt[p] <= roomAt'[p] /\ roomAt[p] \in Int /\ roomAt'[p] \in Int
      BY <1>t, <2>2, <3>1
    <3> QED
      BY <1>t, <2>1, <3>1, <3>2, <3>3, <3>4
  <2>5. SelfIsRecent'
    BY <1>1, <2>1 DEF Tick, SelfIsRecent
  <2>6. EntryHadRoom'
    BY <1>0, <2>1, <2>2, EntryKept
  <2> QED
    BY <2>2, <2>3, <2>4, <2>5, <2>6 DEF FleetInv
<1>2. CASE \E g \in Nodes, n \in Loads : LoadChanges(g, n)
  <2>1. PICK g \in Nodes, n \in Loads : LoadChanges(g, n)
    BY <1>2
  <2>2. UNCHANGED <<now, reg, beat, handler>> /\ Note /\ load' \in [Nodes -> Nat]
    BY <1>t, <2>1 DEF LoadChanges
  <2> QED
    BY <2>2, LoadKeeps
<1>3. ASSUME NEW p \in Peers, SendBeat(p) PROVE FleetInv'
  <2>1. UNCHANGED <<now, load, reg, handler, roomAt>>
    BY <1>3 DEF SendBeat
  <2>2. /\ DOMAIN beat' = Peers
        /\ \A q \in Peers : beat'[q] = IF q = p THEN <<[sessions |-> load[p], sent |-> now]>>
                                       ELSE beat[q]
    BY <1>0, <1>3 DEF SendBeat, FleetTypeOK
  <2>3. load[p] \in Nat /\ p \in Nodes
    BY <1>t DEF Nodes
  <2>4. FleetTypeOK'
    BY <1>0, <1>t, <2>1, <2>2, <2>3 DEF FleetTypeOK
  <2>5. BeatIsRecent'
    <3>1. Room(load[p]) => roomAt[p] = now
      BY <1>0, <2>3 DEF PastIsKept
    <3>2. \A q \in Peers : q # p => beat'[q] = beat[q]
      BY <2>2
    <3>3. beat'[p] = <<[sessions |-> load[p], sent |-> now]>>
      BY <2>2
    <3> SUFFICES ASSUME NEW q \in Peers, beat'[q] # <<>>
                 PROVE  /\ beat'[q][1].sent <= now /\ now <= beat'[q][1].sent + Flight
                        /\ Room(beat'[q][1].sessions) => beat'[q][1].sent <= roomAt[q]
      BY <2>1 DEF BeatIsRecent, Room
    <3>4. CASE q = p
      BY <1>t, <2>3, <3>1, <3>3, <3>4
    <3>5. CASE q # p
      BY <1>0, <3>2, <3>5 DEF BeatIsRecent
    <3> QED
      BY <3>4, <3>5
  <2> QED
    BY <1>0, <2>1, <2>4, <2>5 DEF FleetInv, PastIsKept, SelfIsRecent, EntryHadRoom, Room
<1>4. ASSUME NEW p \in Peers, LoseBeat(p) PROVE FleetInv'
  <2>1. UNCHANGED <<now, load, reg, handler, roomAt>>
    BY <1>4 DEF LoseBeat
  <2>2. /\ DOMAIN beat' = Peers
        /\ \A q \in Peers : beat'[q] = IF q = p THEN <<>> ELSE beat[q]
    BY <1>0, <1>4 DEF LoseBeat, FleetTypeOK
  <2>3. FleetTypeOK' /\ BeatIsRecent'
    BY <1>0, <2>1, <2>2 DEF FleetTypeOK, BeatIsRecent, Room
  <2> QED
    BY <1>0, <2>1, <2>3 DEF FleetInv, PastIsKept, SelfIsRecent, EntryHadRoom, Room
<1>5. ASSUME NEW p \in Peers, NEW h \in Handlers, Heartbeat(p, h) PROVE FleetInv'
  <2>1. UNCHANGED <<now, load, roomAt>> /\ Register(p, beat[p][1].sessions) /\ beat[p] # <<>>
    BY <1>5 DEF Heartbeat
  <2>2. /\ p \in Nodes /\ beat[p][1].sessions \in Nat /\ beat[p][1].sent \in Nat
        /\ roomAt[p] \in Int
    BY <1>0, <1>t, <2>1 DEF FleetTypeOK, Nodes
  <2>3. Room(beat[p][1].sessions) => now <= roomAt[p] + Flight
    BY <1>0, <1>t, <2>1, <2>2 DEF BeatIsRecent
  <2>4. /\ DOMAIN reg' = Nodes
        /\ \A k \in Nodes : reg'[k] # <<>> => reg'[k][1] \in Entries
        /\ EntryHadRoom'
    BY <1>0, <2>1, <2>2, <2>3, RegisterKeeps
  <2>5. /\ DOMAIN beat' = Peers
        /\ \A q \in Peers : beat'[q] = IF q = p THEN <<>> ELSE beat[q]
    BY <1>0, <1>5 DEF Heartbeat, FleetTypeOK
  <2>6. handler' = [handler EXCEPT ![h] = [step |-> "selfInfo", sessions |-> 0]]
    BY <1>5 DEF Heartbeat
  <2>7. FleetTypeOK' /\ BeatIsRecent'
    BY <1>0, <2>1, <2>4, <2>5, <2>6 DEF FleetTypeOK, BeatIsRecent, Room
  <2>8. SelfIsRecent'
    BY <1>0, <2>1, <2>6 DEF SelfIsRecent, FleetTypeOK, Room
  <2> QED
    BY <1>0, <2>1, <2>4, <2>7, <2>8 DEF FleetInv, PastIsKept, Room
<1>6. ASSUME NEW h \in Handlers, SelfInfo(h) PROVE FleetInv'
  <2>1. UNCHANGED <<now, load, reg, beat, roomAt>>
    BY <1>6 DEF SelfInfo
  <2>2. handler' = [handler EXCEPT ![h] = [step |-> "register", sessions |-> load[Self]]]
    BY <1>6 DEF SelfInfo
  <2>3. load[Self] \in Nat /\ (Room(load[Self]) => roomAt[Self] = now)
    BY <1>0, <1>t DEF Nodes, PastIsKept
  <2>4. FleetTypeOK'
    BY <1>0, <2>1, <2>2, <2>3 DEF FleetTypeOK
  <2>5. SelfIsRecent'
    BY <1>0, <2>1, <2>2, <2>3 DEF SelfIsRecent, FleetTypeOK, Room
  <2> QED
    BY <1>0, <2>1, <2>4, <2>5 DEF FleetInv, PastIsKept, BeatIsRecent, EntryHadRoom, Room
<1>7. ASSUME NEW h \in Handlers, RegisterSelf(h) PROVE FleetInv'
  <2>1. /\ UNCHANGED <<now, load, beat, roomAt>> /\ Register(Self, handler[h].sessions)
        /\ handler[h].step = "register"
    BY <1>7 DEF RegisterSelf
  <2>2. Self \in Nodes /\ handler[h].sessions \in Nat
    BY <1>0 DEF FleetTypeOK, Nodes
  <2>3. Room(handler[h].sessions) => now <= roomAt[Self] + Flight
    BY <1>0, <1>t, <2>1 DEF SelfIsRecent
  <2>4. /\ DOMAIN reg' = Nodes
        /\ \A k \in Nodes : reg'[k] # <<>> => reg'[k][1] \in Entries
        /\ EntryHadRoom'
    BY <1>0, <2>1, <2>2, <2>3, RegisterKeeps
  <2>5. handler' = [handler EXCEPT ![h] = [step |-> "idle", sessions |-> 0]]
    BY <1>7 DEF RegisterSelf, Idle
  <2>6. FleetTypeOK'
    BY <1>0, <2>1, <2>4, <2>5 DEF FleetTypeOK
  <2>7. SelfIsRecent'
    BY <1>0, <2>1, <2>5 DEF SelfIsRecent, FleetTypeOK, Room
  <2> QED
    BY <1>0, <2>1, <2>4, <2>6, <2>7 DEF FleetInv, PastIsKept, BeatIsRecent, Room
<1>8. ASSUME NEW g \in Nodes, Deregister(g) PROVE FleetInv'
  <2>1. UNCHANGED <<now, load, beat, handler, roomAt>>
    BY <1>8 DEF Deregister
  <2>2. /\ DOMAIN reg' = Nodes
        /\ \A k \in Nodes : reg'[k] = IF k = g THEN <<>> ELSE reg[k]
    BY <1>0, <1>8 DEF Deregister, FleetTypeOK
  <2>3. FleetTypeOK' /\ EntryHadRoom'
    BY <1>0, <2>1, <2>2 DEF FleetTypeOK, EntryHadRoom, Entries, Room
  <2> QED
    BY <1>0, <2>1, <2>3 DEF FleetInv, PastIsKept, BeatIsRecent, SelfIsRecent, Room
<1>9. CASE UNCHANGED fleetVars
  BY <1>0, <1>9 DEF FleetInv, fleetVars, FleetTypeOK, PastIsKept, BeatIsRecent, SelfIsRecent,
                    EntryHadRoom, Room, Entries
<1> QED
  BY <1>1, <1>2, <1>3, <1>4, <1>5, <1>6, <1>7, <1>8, <1>9 DEF FleetNext

(* Among the entries that List shows, those with room are recent enough.   *)
LEMMA FleetInvChosen == FleetInv => ChosenHadRoom
<1> SUFFICES ASSUME FleetInv, NEW g \in Candidates PROVE now <= roomAt[g] + TTL + Flight
  BY DEF ChosenHadRoom
<1> USE FleetAssumption
<1>1. g \in Nodes /\ reg[g] # <<>> /\ now <= reg[g][1].at + TTL /\ Room(reg[g][1].sessions)
  BY DEF Candidates, List
<1>2. now \in Nat /\ roomAt[g] \in Int /\ reg[g][1].at \in Nat
  BY <1>1 DEF FleetInv, FleetTypeOK, Entries
<1>3. reg[g][1].at <= roomAt[g] + Flight
  BY <1>1 DEF FleetInv, EntryHadRoom
<1> QED
  BY <1>1, <1>2, <1>3

(* A gateway that GatewaySelector.Select returns had room for a session    *)
(* within the last TTL + Flight ticks.                                     *)
THEOREM FleetChosenHadRoom == FleetSpec => []ChosenHadRoom
<1>1. FleetInit => FleetInv
  BY FleetStartInv, FleetAssumption DEF FleetInit
<1>2. FleetInv /\ [FleetNext]_fleetVars => FleetInv'
  BY FleetStepInv
<1>3. FleetInv => ChosenHadRoom
  BY FleetInvChosen
<1> QED
  BY <1>1, <1>2, <1>3, PTL DEF FleetSpec

-----------------------------------------------------------------------------
(* The clients of the DCSF.                                                *)

(* Clients: a call only stores a client where there is none, and then no   *)
(* call has used one.                                                      *)
ClientInv == DOMAIN used = Calls /\ OneClientPerHost

(* Steps that touch neither the client nor the calls it was used for.      *)
LEMMA ClientUntouched ==
  ASSUME ClientInv, UNCHANGED <<client, used>> PROVE ClientInv'
BY DEF ClientInv, OneClientPerHost

(* No call has been sent when the gateway starts.                          *)
LEMMA InitClient == Init => ClientInv
BY DEF Init, ClientInv, OneClientPerHost

(* Every step keeps the invariant.                                         *)
LEMMA StepClient == ClientInv /\ [Next]_vars => ClientInv'
<1> SUFFICES ASSUME ClientInv, [Next]_vars PROVE ClientInv'
  OBVIOUS
<1>0. DOMAIN used = Calls /\ \A c \in Calls : used[c] # <<>> => used[c] = client
  BY DEF ClientInv, OneClientPerHost
<1>1. CASE FleetStep
  BY <1>1, ClientUntouched DEF FleetStep, ctlVars
<1>2. CASE ClockStep
  BY <1>2, ClientUntouched DEF ClockStep, ctlVars
<1>3. CASE WatchNext
  <2>1. UNCHANGED ctlVars
    BY <1>3 DEF WatchNext, Connected, ConnectFails, TriedAgain, GoAway, CalledByStream,
                StartWatch, SeesChange, Look, Connect, Network, Fault, InWatch
  <2> QED
    BY <2>1, ClientUntouched DEF ctlVars
<1>4. ASSUME NEW w \in Workers, Report(w) \/ WorkerDies(w) \/ DeregisterWorker(w)
      PROVE  ClientInv'
  BY <1>4, ClientUntouched DEF Report, WorkerDies, DeregisterWorker, ctlVars
<1>5. ASSUME NEW c \in Calls, CheckSessions(c) PROVE ClientInv'
  <2>1. client' = client /\ used' = [used EXCEPT ![c] = <<>>]
    BY <1>5 DEF CheckSessions
  <2> QED
    BY <1>0, <2>1 DEF ClientInv, OneClientPerHost
<1>6. ASSUME NEW c \in Calls,
             CheckStreams(c) \/ Create(c) \/ StartFails(c) \/ StartWorks(c) \/ Delete(c)
      PROVE  ClientInv'
  <2>1. UNCHANGED <<client, used>>
    BY <1>6 DEF CheckStreams, Create, StartFails, StartWorks, Delete, Refuse, ctlVars
  <2> QED
    BY <2>1, ClientUntouched
<1>7. ASSUME NEW c \in Calls, NEW l \in Legs, StreamEnds(c, l) PROVE ClientInv'
  BY <1>7, ClientUntouched DEF StreamEnds, ctlVars
<1>8. ASSUME NEW c \in Calls, Lookup(c) PROVE ClientInv'
  <2>1. client' = client /\ used' = [used EXCEPT ![c] = client]
    BY <1>8 DEF Lookup
  <2> QED
    BY <1>0, <2>1 DEF ClientInv, OneClientPerHost
<1>9. ASSUME NEW c \in Calls, Make(c) PROVE ClientInv'
  <2>1. used' = [used EXCEPT ![c] = client']
    BY <1>9 DEF Make
  <2>2. CASE client = <<>>
    BY <1>0, <2>1, <2>2 DEF ClientInv, OneClientPerHost
  <2>3. CASE client # <<>>
    <3>1. client' = client
      BY <1>9, <2>3 DEF Make, Recheck
    <3> QED
      BY <1>0, <2>1, <3>1 DEF ClientInv, OneClientPerHost
  <2> QED
    BY <2>2, <2>3
<1>10. ASSUME NEW c \in Calls, PostWorks(c) \/ PostFails(c) PROVE ClientInv'
  BY <1>10, ClientUntouched DEF PostWorks, PostFails
<1>11. CASE UNCHANGED vars
  BY <1>11, ClientUntouched DEF vars, ctlVars
<1> QED
  BY <1>1, <1>2, <1>3, <1>4, <1>5, <1>6, <1>7, <1>8, <1>9, <1>10, <1>11 DEF Next, CallNext

(* DCSFPool.clientFor gives all calls to one host the same client.         *)
THEOREM ClientIsShared == Spec => []OneClientPerHost
<1>1. Init => ClientInv
  BY InitClient
<1>2. ClientInv /\ [Next]_vars => ClientInv'
  BY StepClient
<1>3. ClientInv => OneClientPerHost
  BY DEF ClientInv
<1> QED
  BY <1>1, <1>2, <1>3, PTL DEF Spec

-----------------------------------------------------------------------------
(* The invariant.                                                          *)

Slots == Calls \X Legs

OpenLegs == {s \in Slots : s[2] \in legs[s[1]]}

OpenStreams == {s \in Slots : stream[s[1]][s[2]] # <<>>}

Entry == [active : Nat, at : Nat]

CallsTyped ==
  /\ cfg \in Configs
  /\ pc \in [Calls -> {"idle", "streams", "create", "start", "up"}]
  /\ req \in [Calls -> Requests] /\ legs \in [Calls -> SUBSET Legs]
  /\ why \in [Calls -> {"none", "sessions", "streams", "worker", "dial"}]
  /\ ctl \in [Calls -> {"none", "lookup", "make", "post"}]
  /\ crowd \in Nat
  /\ DOMAIN stream = Calls /\ \A c \in Calls : DOMAIN stream[c] = Legs
  /\ \A c \in Calls, l \in Legs :
       stream[c][l] # <<>> => stream[c][l][1] \in [worker : Workers, at : Nat]

WorkersTyped ==
  /\ DOMAIN worker = Workers /\ DOMAIN died = Workers
  /\ \A w \in Workers : worker[w] # <<>> => worker[w][1] \in Entry
  /\ \A w \in Workers : died[w] # <<>> => died[w][1] \in Nat

ConnStates == {"Idle", "Connecting", "Ready", "TransientFailure"}

WatchTyped ==
  /\ conn \in ConnStates
  /\ watch \in [step : {"start", "waiting", "looking", "connect"}, seen : ConnStates]

(* The legs and streams a call has at each step of its handler.            *)
StepsOfCalls ==
  \A c \in Calls :
    /\ pc[c] # "idle" => cfg.scene = "calls"
    /\ pc[c] \in {"idle", "streams"} => legs[c] = {}
    /\ pc[c] = "create" => legs[c] \in {{}, {"tcore"}}
    /\ pc[c] \in {"start", "up"} => legs[c] = Legs
    /\ pc[c] \in {"streams", "create"} => \A l \in Legs : stream[c][l] = <<>>
    /\ pc[c] = "start" => stream[c]["taccess"] = <<>>

(* Sessions are counted; the fleet changes them as it likes.               *)
LegsCounted ==
  cfg.scene = "fleet" \/ load[Self] = cfg.sessions + Cardinality(OpenLegs)

StreamsBound == Streams <= cfg.maxStreams

(* The legs that calls have or are still to open, and the streams.         *)
Claimed == {s \in Slots : s[2] \in legs[s[1]] \/ pc[s[1]] \in {"streams", "create"}}

ClaimedStreams ==
  {s \in Slots : stream[s[1]][s[2]] # <<>> \/ pc[s[1]] \in {"create", "start"}}

(* No more handlers are between check and use than ever before.            *)
CrowdSeen == Cardinality(Between) <= crowd

(* What the checks that a call has passed leave for those who claim it.    *)
SessionsReserved ==
  (\E c \in Calls : pc[c] \in {"streams", "create"}) =>
    100 * (cfg.sessions + Cardinality(Claimed)) <= 90 * Capacity + 200 * crowd

StreamsReserved ==
  (\E c \in Calls : pc[c] \in {"create", "start"}) =>
    100 * (cfg.others + Cardinality(ClaimedStreams)) <= 95 * cfg.maxStreams + 200 * crowd

Reserved == CrowdSeen /\ SessionsReserved /\ StreamsReserved

(* Workers and streams are no younger than the clock, and no worker is     *)
(* heard of after its death.                                               *)
Reports ==
  /\ \A w \in Workers : worker[w] # <<>> =>
       worker[w][1].at <= now /\ (died[w] # <<>> => worker[w][1].at <= died[w][1])
  /\ \A c \in Calls, l \in Legs : stream[c][l] # <<>> => stream[c][l][1].at <= now
  /\ died[Static] = <<>>

(* Without workers that report themselves the registry is as main made it. *)
StaticRegistry ==
  cfg.scene = "calls" /\ ~cfg.dynamic =>
    /\ now = 0
    /\ \A w \in Workers :
         worker[w] = IF cfg.routing /\ w = Static THEN <<[active |-> 0, at |-> 0]>> ELSE <<>>

IInv ==
  /\ FleetInv /\ CallsTyped /\ WorkersTyped /\ WatchTyped /\ StepsOfCalls /\ LegsCounted /\ StreamsBound
  /\ Reserved /\ Reports /\ StaticRegistry /\ RoutedToTheLiving /\ AdmittedFindsRoom

-----------------------------------------------------------------------------
(* Counting over the slots.                                                *)

USE AdmissionAssumption, FleetAssumption DEF WorkersOK

(* A call has two legs.                                                    *)
LEMMA TwoLegs == IsFiniteSet(Legs) /\ Cardinality(Legs) = 2
<1>1. IsFiniteSet({"tcore"}) /\ Cardinality({"tcore"}) = 1
  BY FS_Singleton
<1>2. "taccess" \notin {"tcore"}
  OBVIOUS
<1>3. /\ IsFiniteSet({"tcore"} \cup {"taccess"})
      /\ Cardinality({"tcore"} \cup {"taccess"}) = 1 + 1
  BY <1>1, <1>2, FS_AddElement
<1>4. Legs = {"tcore"} \cup {"taccess"}
  BY DEF Legs
<1> QED
  BY <1>3, <1>4

(* Two slots for every call, and finitely many.                            *)
LEMMA SlotsCount ==
  /\ IsFiniteSet(Slots)
  /\ Cardinality(Slots) = Cardinality(Calls) * 2
  /\ Cardinality(Calls) \in Nat
<1> QED
  BY TwoLegs, FS_Product, FS_CardinalityType DEF Slots

(* A set of slots is finite.                                               *)
LEMMA SlotsFinite ==
  ASSUME NEW X \in SUBSET Slots
  PROVE  IsFiniteSet(X) /\ Cardinality(X) \in Nat
  BY SlotsCount, FS_Subset, FS_CardinalityType

(* Both slots of some of the calls.                                        *)
LEMMA SlotsOf ==
  ASSUME NEW X \in SUBSET Calls
  PROVE  /\ X \X Legs \in SUBSET Slots
         /\ Cardinality(X) \in Nat /\ Cardinality(X \X Legs) = 2 * Cardinality(X)
<1>1. IsFiniteSet(X) /\ Cardinality(X) \in Nat
  BY FS_Subset, FS_CardinalityType
<1>2. Cardinality(X \X Legs) = Cardinality(X) * Cardinality(Legs)
  BY <1>1, TwoLegs, FS_Product
<1> QED
  BY <1>1, <1>2, TwoLegs DEF Slots

(* Claims that were counted before, and both slots of every handler in X.  *)
LEMMA ClaimsCount ==
  ASSUME NEW C \in SUBSET Slots, NEW D \in SUBSET Slots, NEW X \in SUBSET Calls,
         C \subseteq D \cup (X \X Legs)
  PROVE  /\ Cardinality(C) \in Nat /\ Cardinality(D) \in Nat /\ Cardinality(X) \in Nat
         /\ Cardinality(C) <= Cardinality(D) + 2 * Cardinality(X)
<1> DEFINE E == X \X Legs
<1>1. /\ E \in SUBSET Slots /\ Cardinality(X) \in Nat /\ Cardinality(E) = 2 * Cardinality(X)
  BY SlotsOf
<1> HIDE DEF E
<1>2. /\ IsFiniteSet(C) /\ Cardinality(C) \in Nat
      /\ IsFiniteSet(D) /\ Cardinality(D) \in Nat
      /\ IsFiniteSet(E) /\ Cardinality(E) \in Nat
  BY <1>1, SlotsFinite
<1>3. /\ IsFiniteSet(D \cup E) /\ Cardinality(D \cap E) \in Nat
      /\ Cardinality(D \cup E) = Cardinality(D) + Cardinality(E) - Cardinality(D \cap E)
  <2>1. IsFiniteSet(D \cap E) /\ Cardinality(D \cap E) \in Nat
    BY SlotsFinite
  <2> QED
    BY <1>2, <2>1, FS_Union
<1>4. C \subseteq D \cup E
  BY DEF E
<1>5. Cardinality(C) <= Cardinality(D \cup E)
  BY <1>3, <1>4, FS_Subset
<1> QED
  BY <1>1, <1>2, <1>3, <1>5

(* A claim that is not held yet: there is one more claim than is held.     *)
LEMMA ClaimsLeft ==
  ASSUME NEW D \in SUBSET Slots, NEW C \in SUBSET Slots, NEW s \in Slots,
         D \subseteq C, s \in C, s \notin D
  PROVE  /\ Cardinality(C) \in Nat /\ Cardinality(D) \in Nat
         /\ Cardinality(D) + 1 <= Cardinality(C)
<1>1. IsFiniteSet(C) /\ Cardinality(C) \in Nat /\ IsFiniteSet(D) /\ Cardinality(D) \in Nat
  BY SlotsFinite
<1>2. Cardinality(D \cup {s}) = Cardinality(D) + 1
  BY <1>1, FS_AddElement
<1>3. D \cup {s} \subseteq C
  OBVIOUS
<1>4. Cardinality(D \cup {s}) <= Cardinality(C)
  BY <1>1, <1>3, FS_Subset
<1> QED
  BY <1>1, <1>2, <1>4

(* A handler that goes on: the record of the crowd is kept.                *)
LEMMA CrowdGrows ==
  ASSUME CallsTyped, NEW c \in Calls, NEW step, GoTo(c, step)
  PROVE  crowd' \in Nat /\ crowd <= crowd' /\ CrowdSeen'
<1>1. Between' \in SUBSET Calls
  BY DEF Between
<1>2. Cardinality(Between') \in Nat /\ crowd \in Nat
  BY <1>1, SlotsOf DEF CallsTyped
<1>3. crowd' = IF Cardinality(Between') > crowd THEN Cardinality(Between') ELSE crowd
  BY DEF GoTo
<1> HIDE DEF Between
<1> QED
  BY <1>2, <1>3 DEF CrowdSeen

(* Nobody claims anew: what the checks have left still holds.              *)
LEMMA SessionsReservedKept ==
  ASSUME CallsTyped, SessionsReserved, UNCHANGED cfg, crowd' \in Nat, crowd <= crowd',
         Claimed' \subseteq Claimed,
         \A c \in Calls : pc'[c] \in {"streams", "create"} => pc[c] \in {"streams", "create"}
  PROVE  SessionsReserved'
<1> SUFFICES ASSUME \E c \in Calls : pc'[c] \in {"streams", "create"}
             PROVE  100 * (cfg.sessions + Cardinality(Claimed')) <= 90 * Capacity + 200 * crowd'
  BY DEF SessionsReserved
<1>1. 100 * (cfg.sessions + Cardinality(Claimed)) <= 90 * Capacity + 200 * crowd
  BY DEF SessionsReserved
<1>2. Claimed \in SUBSET Slots /\ Claimed' \in SUBSET Slots
  BY DEF Claimed
<1>3. /\ IsFiniteSet(Claimed) /\ Cardinality(Claimed) \in Nat /\ Cardinality(Claimed') \in Nat
  BY <1>2, SlotsFinite
<1>4. Cardinality(Claimed') <= Cardinality(Claimed)
  BY <1>3, FS_Subset
<1>5. cfg.sessions \in Nat /\ crowd \in Nat /\ Capacity \in Nat
  BY DEF CallsTyped, ConfigOK
<1> QED
  BY <1>1, <1>3, <1>4, <1>5

(* The same of streams.                                                    *)
LEMMA StreamsReservedKept ==
  ASSUME CallsTyped, StreamsReserved, UNCHANGED cfg, crowd' \in Nat, crowd <= crowd',
         ClaimedStreams' \subseteq ClaimedStreams,
         \A c \in Calls : pc'[c] \in {"create", "start"} => pc[c] \in {"create", "start"}
  PROVE  StreamsReserved'
<1> SUFFICES ASSUME \E c \in Calls : pc'[c] \in {"create", "start"}
             PROVE  100 * (cfg.others + Cardinality(ClaimedStreams'))
                      <= 95 * cfg.maxStreams + 200 * crowd'
  BY DEF StreamsReserved
<1>1. 100 * (cfg.others + Cardinality(ClaimedStreams)) <= 95 * cfg.maxStreams + 200 * crowd
  BY DEF StreamsReserved
<1>2. ClaimedStreams \in SUBSET Slots /\ ClaimedStreams' \in SUBSET Slots
  BY DEF ClaimedStreams
<1>3. /\ IsFiniteSet(ClaimedStreams) /\ Cardinality(ClaimedStreams) \in Nat
      /\ Cardinality(ClaimedStreams') \in Nat
  BY <1>2, SlotsFinite
<1>4. Cardinality(ClaimedStreams') <= Cardinality(ClaimedStreams)
  BY <1>3, FS_Subset
<1>5. cfg.others \in Nat /\ crowd \in Nat /\ cfg.maxStreams \in Nat
  BY DEF CallsTyped, ConfigOK
<1> QED
  BY <1>1, <1>3, <1>4, <1>5

(* A crowd that was too large stays on record.                             *)
LEMMA LargerStays ==
  ASSUME NEW a \in Nat, NEW b \in Nat, NEW max \in Nat, a <= b
  PROVE  /\ 100 * 2 * a > (100 - 90) * max => 100 * 2 * b > (100 - 90) * max
         /\ 100 * 2 * a > (100 - 95) * max => 100 * 2 * b > (100 - 95) * max
OBVIOUS

(* So does one that a refusal was put down to.                             *)
LEMMA CrowdedKept ==
  ASSUME NEW max \in Nat, crowd \in Nat, crowd' \in Nat, crowd <= crowd'
  PROVE  /\ Crowded(max, 90) => 100 * 2 * crowd' > (100 - 90) * max
         /\ Crowded(max, 95) => 100 * 2 * crowd' > (100 - 95) * max
<1>1. /\ 100 * 2 * crowd > (100 - 90) * max => 100 * 2 * crowd' > (100 - 90) * max
      /\ 100 * 2 * crowd > (100 - 95) * max => 100 * 2 * crowd' > (100 - 95) * max
  BY LargerStays, Zenon
<1> QED
  BY <1>1 DEF Crowded

(* The reasons for which calls were refused before are still the same.     *)
LEMMA RoomKept ==
  ASSUME CallsTyped, AdmittedFindsRoom, UNCHANGED cfg, crowd' \in Nat, crowd <= crowd',
         \A c \in Calls : why'[c] = why[c] \/ why'[c] \in {"none", "dial"}
                          \/ (why'[c] = "sessions" /\ Crowded(Capacity, 90))
                          \/ (why'[c] = "streams" /\ Crowded(cfg.maxStreams, 95))
                          \/ (why'[c] = "worker" /\ cfg.dynamic)
  PROVE  AdmittedFindsRoom'
<1>1. Capacity \in Nat /\ cfg.maxStreams \in Nat /\ crowd \in Nat
  BY DEF CallsTyped, ConfigOK
<1>2. Crowded(Capacity, 90) => 100 * 2 * crowd' > (100 - 90) * Capacity
  BY <1>1, CrowdedKept
<1>3. Crowded(cfg.maxStreams, 95) => 100 * 2 * crowd' > (100 - 95) * cfg.maxStreams
  BY <1>1, CrowdedKept
<1>4. ASSUME NEW c \in Calls, why'[c] = "sessions" PROVE Crowded(Capacity, 90)
  BY <1>4 DEF AdmittedFindsRoom
<1>5. ASSUME NEW c \in Calls, why'[c] = "streams" PROVE Crowded(cfg.maxStreams, 95)
  BY <1>5 DEF AdmittedFindsRoom
<1>6. ASSUME NEW c \in Calls, why'[c] = "worker" PROVE cfg.dynamic
  BY <1>6 DEF AdmittedFindsRoom
<1>7. \A c \in Calls : why'[c] = "sessions" => 100 * 2 * crowd' > (100 - 90) * Capacity
  BY <1>2, <1>4
<1>8. \A c \in Calls : why'[c] = "streams" => 100 * 2 * crowd' > (100 - 95) * cfg'.maxStreams
  BY <1>3, <1>5
<1> QED
  BY <1>6, <1>7, <1>8 DEF AdmittedFindsRoom, Crowded

(* A call that opens a leg is one more.                                    *)
LEMMA LegOpens ==
  ASSUME CallsTyped, NEW c \in Calls, NEW l \in Legs, l \notin legs[c],
         legs' = [legs EXCEPT ![c] = @ \cup {l}]
  PROVE  Cardinality(OpenLegs') = Cardinality(OpenLegs) + 1
<1>1. OpenLegs' = OpenLegs \cup {<<c, l>>} /\ <<c, l>> \notin OpenLegs
  BY DEF OpenLegs, Slots, CallsTyped
<1>2. IsFiniteSet(OpenLegs)
  BY SlotsFinite DEF OpenLegs
<1> QED
  BY <1>1, <1>2, FS_AddElement

(* A call that ends gives all its legs back.                               *)
LEMMA LegsEnd ==
  ASSUME CallsTyped, NEW c \in Calls, legs[c] \in {{}, {"tcore"}, Legs},
         legs' = [legs EXCEPT ![c] = {}]
  PROVE  /\ Cardinality(OpenLegs') \in Nat /\ Cardinality(OpenLegs) \in Nat
         /\ Cardinality(legs[c]) \in Nat
         /\ Cardinality(OpenLegs') = Cardinality(OpenLegs) - Cardinality(legs[c])
<1> DEFINE core == <<c, "tcore">>
           access == <<c, "taccess">>
<1>1. OpenLegs' = (OpenLegs \ {core}) \ {access}
  BY DEF OpenLegs, Slots, CallsTyped, Legs
<1>2. IsFiniteSet(OpenLegs) /\ Cardinality(OpenLegs) \in Nat
  BY SlotsFinite DEF OpenLegs
<1>3. /\ IsFiniteSet(OpenLegs \ {core})
      /\ Cardinality(OpenLegs \ {core}) = IF core \in OpenLegs THEN Cardinality(OpenLegs) - 1
                                                            ELSE Cardinality(OpenLegs)
  BY <1>2, FS_RemoveElement
<1>4. /\ IsFiniteSet(OpenLegs')
      /\ Cardinality(OpenLegs') = IF access \in OpenLegs \ {core}
                                  THEN Cardinality(OpenLegs \ {core}) - 1
                                  ELSE Cardinality(OpenLegs \ {core})
  BY <1>1, <1>3, FS_RemoveElement
<1>5. /\ core \in OpenLegs <=> "tcore" \in legs[c]
      /\ access \in OpenLegs \ {core} <=> "taccess" \in legs[c]
  BY DEF OpenLegs, Slots, Legs
<1>6. CASE legs[c] = {}
  <2>1. Cardinality(legs[c]) = 0
    BY <1>6, FS_EmptySet
  <2> QED
    BY <1>2, <1>3, <1>4, <1>5, <1>6, <2>1
<1>7. CASE legs[c] = {"tcore"}
  <2>1. Cardinality(legs[c]) = 1
    BY <1>7, FS_Singleton
  <2>2. Cardinality(OpenLegs') \in Nat
    BY <1>4, FS_CardinalityType
  <2> QED
    BY <1>2, <1>3, <1>4, <1>5, <1>7, <2>1, <2>2
<1>8. CASE legs[c] = Legs
  <2>1. Cardinality(legs[c]) = 2
    BY <1>8, TwoLegs
  <2>2. Cardinality(OpenLegs') \in Nat
    BY <1>4, FS_CardinalityType
  <2>3. "tcore" \in legs[c] /\ "taccess" \in legs[c]
    BY <1>8 DEF Legs
  <2> QED
    BY <1>2, <1>3, <1>4, <1>5, <2>1, <2>2, <2>3
<1> QED
  BY <1>6, <1>7, <1>8

-----------------------------------------------------------------------------
(* Steps that leave the calls alone.                                       *)

(* The fleet, the clock, the connection and the senders of call-control    *)
(* touch neither what calls hold nor what the checks were about.           *)
LEMMA Quiet ==
  ASSUME IInv, FleetInv', WatchTyped', UNCHANGED <<cfg, callVars, workerVars>>,
         ctl' \in [Calls -> {"none", "lookup", "make", "post"}],
         cfg.scene = "fleet" \/ load'[Self] = load[Self],
         now <= now',
         cfg.scene = "calls" /\ ~cfg.dynamic => now' = now
  PROVE  IInv'
<1> USE DEF callVars, workerVars
<1>1. CallsTyped' /\ WorkersTyped' /\ StepsOfCalls' /\ AdmittedFindsRoom'
  BY DEF IInv, CallsTyped, WorkersTyped, StepsOfCalls, AdmittedFindsRoom, Crowded, Entry
<1>7. Reserved'
  BY DEF IInv, Reserved, CrowdSeen, Between, SessionsReserved, StreamsReserved, Claimed,
         ClaimedStreams
<1>2. LegsCounted'
  BY DEF IInv, LegsCounted, OpenLegs
<1>3. StreamsBound'
  BY DEF IInv, StreamsBound, Streams
<1>4. Reports'
  <2>1. now \in Nat /\ now' \in Nat
    BY DEF IInv, FleetInv, FleetTypeOK
  <2>2. \A w \in Workers : worker[w] # <<>> => worker[w][1].at \in Nat
    BY DEF IInv, WorkersTyped, Entry
  <2>3. \A c \in Calls, l \in Legs : stream[c][l] # <<>> => stream[c][l][1].at \in Nat
    BY DEF IInv, CallsTyped
  <2> QED
    BY <2>1, <2>2, <2>3 DEF IInv, Reports
<1>5. StaticRegistry'
  BY DEF IInv, StaticRegistry
<1>6. RoutedToTheLiving'
  BY DEF IInv, RoutedToTheLiving
<1> QED
  BY <1>1, <1>2, <1>3, <1>4, <1>5, <1>6, <1>7 DEF IInv

(* The fleet's own steps: heartbeats, registrations, other nodes' load.    *)
LEMMA FleetQuiet == IInv /\ FleetStep => IInv'
<1> SUFFICES ASSUME IInv, FleetStep PROVE IInv'
  OBVIOUS
<1>1. FleetInv' /\ now \in Nat
  BY FleetStepInv DEF FleetStep, IInv, FleetInv, FleetTypeOK
<1>2. now' = now \/ now' = now + 1
  BY DEF FleetStep, FleetNext, Tick, LoadChanges, SendBeat, LoseBeat, Heartbeat, SelfInfo,
         RegisterSelf, Deregister
<1>3. now <= now'
  BY <1>1, <1>2
<1>4. WatchTyped' /\ ctl' \in [Calls -> {"none", "lookup", "make", "post"}]
  BY DEF FleetStep, IInv, WatchTyped, CallsTyped, connVars, ctlVars
<1> QED
  BY <1>1, <1>3, <1>4, Quiet DEF FleetStep

(* Time passes for the calls.                                              *)
LEMMA ClockQuiet == IInv /\ ClockStep => IInv'
<1> SUFFICES ASSUME IInv, ClockStep PROVE IInv'
  OBVIOUS
<1>1. Tick
  BY DEF ClockStep
<1>2. FleetInv' /\ now \in Nat
  BY <1>1, FleetStepInv DEF FleetNext, IInv, FleetInv, FleetTypeOK
<1>3. now <= now' /\ load' = load
  BY <1>1, <1>2 DEF Tick
<1>4. WatchTyped' /\ ctl' \in [Calls -> {"none", "lookup", "make", "post"}]
  BY DEF ClockStep, IInv, WatchTyped, CallsTyped, connVars, ctlVars
<1> QED
  BY <1>2, <1>3, <1>4, Quiet DEF ClockStep

(* Steps of a call or a worker do not move the fleet's clock or registry.  *)
LEMMA FleetStays ==
  ASSUME IInv, UNCHANGED fleetVars
  PROVE  FleetInv' /\ UNCHANGED <<now, load>> /\ now <= now'
<1>1. FleetInv'
  BY FleetStepInv DEF IInv
<1>2. now \in Nat
  BY DEF IInv, FleetInv, FleetTypeOK
<1> QED
  BY <1>1, <1>2 DEF fleetVars

(* The connection to the worker and the goroutine that watches it.         *)
LEMMA WatchQuiet == IInv /\ WatchNext => IInv'
<1> SUFFICES ASSUME IInv, WatchNext PROVE IInv'
  OBVIOUS
<1>1. UNCHANGED <<fleetVars, cfg, callVars, workerVars, ctlVars>>
  BY DEF WatchNext, Connected, ConnectFails, TriedAgain, GoAway, CalledByStream, StartWatch,
         SeesChange, Look, Connect, Network, Fault, InWatch
<1>2. conn \in ConnStates
  BY DEF IInv, WatchTyped
<1>3. watch \in [step : {"start", "waiting", "looking", "connect"}, seen : ConnStates]
  BY DEF IInv, WatchTyped
<1>4. conn' \in ConnStates
  BY <1>2
  DEF WatchNext, Connected, ConnectFails, TriedAgain, GoAway, CalledByStream, StartWatch,
      SeesChange, Look, Connect, AfterConnect, Network, Fault, ConnStates
<1>5. watch' \in [step : {"start", "waiting", "looking", "connect"}, seen : ConnStates]
  BY <1>2, <1>3
  DEF WatchNext, Connected, ConnectFails, TriedAgain, GoAway, CalledByStream, StartWatch,
      SeesChange, Look, Connect, Network, Fault
<1>6. ctl' \in [Calls -> {"none", "lookup", "make", "post"}]
  BY <1>1 DEF IInv, CallsTyped, ctlVars
<1> QED
  BY <1>1, <1>4, <1>5, <1>6, FleetStays, Quiet DEF WatchTyped

(* Call-control to the DCSF, as long as it does not fail.                  *)
LEMMA CtlQuiet ==
  ASSUME IInv, NEW c \in Calls, Lookup(c) \/ Make(c) \/ PostWorks(c)
  PROVE  IInv'
<1>1. UNCHANGED <<fleetVars, cfg, callVars, workerVars, connVars>>
  BY DEF Lookup, Make, PostWorks, CtlStep, CallStep, InCalls, KeepSessions, fleetVars
<1>2. \E step \in {"none", "make", "post"} : ctl' = [ctl EXCEPT ![c] = step]
  BY DEF Lookup, Make, PostWorks, CtlStep
<1>3. ctl' \in [Calls -> {"none", "lookup", "make", "post"}]
  BY <1>2 DEF IInv, CallsTyped
<1>4. WatchTyped'
  BY <1>1 DEF IInv, WatchTyped, connVars
<1> QED
  BY <1>1, <1>3, <1>4, FleetStays, Quiet

-----------------------------------------------------------------------------
(* Workers come and go.                                                    *)

(* Workers report themselves, die and are taken off the registry.          *)
LEMMA WorkersStep ==
  ASSUME IInv, NEW w \in Workers, Report(w) \/ WorkerDies(w) \/ DeregisterWorker(w)
  PROVE  IInv'
<1>1. UNCHANGED <<fleetVars, cfg, callVars, ctlVars, connVars>> /\ cfg.dynamic
  BY DEF Report, WorkerDies, DeregisterWorker, InCalls
<1>2. FleetInv' /\ UNCHANGED <<now, load>>
  BY <1>1, FleetStays
<1>n. now \in Nat
  BY DEF IInv, FleetInv, FleetTypeOK
<1> USE DEF callVars, ctlVars, connVars
<1>r. Reserved'
  BY <1>1
  DEF IInv, Reserved, CrowdSeen, Between, SessionsReserved, StreamsReserved, Claimed,
      ClaimedStreams
<1>3. WatchTyped' /\ StepsOfCalls' /\ LegsCounted' /\ Reserved' /\ AdmittedFindsRoom'
  BY <1>1, <1>2, <1>r
  DEF IInv, WatchTyped, StepsOfCalls, LegsCounted, OpenLegs, AdmittedFindsRoom, Crowded
<1>4. StreamsBound' /\ StaticRegistry'
  BY <1>1 DEF IInv, StreamsBound, Streams, StaticRegistry
<1>d. CallsTyped' /\ DOMAIN worker = Workers /\ DOMAIN died = Workers
  BY <1>1 DEF IInv, CallsTyped, WorkersTyped
<1>5. CASE Report(w)
  <2>1. died[w] = <<>> /\ UNCHANGED died
    BY <1>5 DEF Report
  <2>2. Active(w) \in Nat
    <3>1. {s \in Calls \X Legs : stream[s[1]][s[2]] # <<>> /\ stream[s[1]][s[2]][1].worker = w}
            \in SUBSET Slots
      BY DEF Slots
    <3> QED
      BY <3>1, SlotsFinite DEF Active
  <2>3. /\ DOMAIN worker' = Workers
        /\ \A v \in Workers : worker'[v] = IF v = w THEN <<[active |-> Active(w), at |-> now]>>
                                           ELSE worker[v]
    BY <1>5, <1>d DEF Report
  <2>4. WorkersTyped'
    BY <1>n, <2>1, <2>2, <2>3 DEF IInv, WorkersTyped, Entry
  <2>5. Reports'
    BY <1>1, <1>2, <1>n, <2>1, <2>3 DEF IInv, Reports
  <2>6. RoutedToTheLiving'
    BY <1>1, <2>1 DEF IInv, RoutedToTheLiving
  <2> QED
    BY <1>2, <1>3, <1>4, <1>d, <2>4, <2>5, <2>6 DEF IInv
<1>6. CASE WorkerDies(w)
  <2>1. w # Static /\ died[w] = <<>> /\ UNCHANGED worker
    BY <1>6 DEF WorkerDies
  <2>2. /\ DOMAIN died' = Workers
        /\ \A v \in Workers : died'[v] = IF v = w THEN <<now>> ELSE died[v]
    BY <1>6, <1>d DEF WorkerDies
  <2>3. WorkersTyped'
    BY <1>n, <2>1, <2>2 DEF IInv, WorkersTyped
  <2>4. Reports'
    <3>1. \A v \in Workers : worker[v] # <<>> => worker[v][1].at <= now
      BY DEF IInv, Reports
    <3>2. \A v \in Workers : worker[v] # <<>> /\ died'[v] # <<>> => worker[v][1].at <= died'[v][1]
      BY <2>2, <3>1 DEF IInv, Reports
    <3>3. \A c \in Calls, l \in Legs : stream[c][l] # <<>> => stream[c][l][1].at <= now
      BY DEF IInv, Reports
    <3>4. died'[Static] = <<>>
      BY <2>1, <2>2 DEF IInv, Reports
    <3> QED
      BY <1>1, <1>2, <2>1, <3>1, <3>2, <3>3, <3>4 DEF Reports
  <2>5. RoutedToTheLiving'
    <3> SUFFICES ASSUME NEW c \in Calls, NEW l \in Legs, stream[c][l] # <<>>
                 PROVE  LET s == stream[c][l][1] IN
                        /\ cfg.routing => Supports(s.worker, req[c])
                        /\ cfg.ttl > 0 /\ died'[s.worker] # <<>> =>
                             s.at <= died'[s.worker][1] + cfg.ttl
      BY <1>1 DEF RoutedToTheLiving
    <3> DEFINE s == stream[c][l][1]
    <3>1. s.worker \in Workers /\ s.at \in Nat /\ s.at <= now /\ cfg.ttl \in Nat
      BY DEF IInv, CallsTyped, Reports, ConfigOK
    <3>2. /\ cfg.routing => Supports(s.worker, req[c])
          /\ cfg.ttl > 0 /\ died[s.worker] # <<>> => s.at <= died[s.worker][1] + cfg.ttl
      BY DEF IInv, RoutedToTheLiving
    <3>3. CASE s.worker = w
      BY <1>n, <2>2, <3>1, <3>2, <3>3
    <3>4. CASE s.worker # w
      BY <2>2, <3>1, <3>2, <3>4
    <3> QED
      BY <3>3, <3>4
  <2> QED
    BY <1>2, <1>3, <1>4, <1>d, <2>3, <2>4, <2>5 DEF IInv
<1>7. CASE DeregisterWorker(w)
  <2>1. UNCHANGED died
    BY <1>7 DEF DeregisterWorker
  <2>2. /\ DOMAIN worker' = Workers
        /\ \A v \in Workers : worker'[v] = IF v = w THEN <<>> ELSE worker[v]
    BY <1>7, <1>d DEF DeregisterWorker
  <2>3. WorkersTyped'
    BY <2>1, <2>2 DEF IInv, WorkersTyped, Entry
  <2>4. Reports'
    BY <1>1, <1>2, <2>1, <2>2 DEF IInv, Reports
  <2>5. RoutedToTheLiving'
    BY <1>1, <2>1 DEF IInv, RoutedToTheLiving
  <2> QED
    BY <1>2, <1>3, <1>4, <1>d, <2>3, <2>4, <2>5 DEF IInv
<1> QED
  BY <1>5, <1>6, <1>7

-----------------------------------------------------------------------------
(* Steps of a handler.                                                     *)

(* What no step of a call can disturb.                                     *)
LEMMA CallStepKeeps ==
  ASSUME IInv, CallStep, UNCHANGED workerVars
  PROVE  /\ WatchTyped' /\ WorkersTyped' /\ StaticRegistry'
         /\ cfg.scene = "calls" /\ ConfigOK(cfg) /\ UNCHANGED <<cfg, now>>
<1>1. cfg.scene = "calls" /\ UNCHANGED <<cfg, connVars, now>>
  BY DEF CallStep, InCalls
<1>2. WatchTyped' /\ WorkersTyped'
  BY <1>1 DEF IInv, WatchTyped, WorkersTyped, connVars, workerVars
<1>3. StaticRegistry'
  BY <1>1 DEF IInv, StaticRegistry, workerVars
<1>4. ConfigOK(cfg)
  BY DEF IInv, CallsTyped
<1> QED
  BY <1>1, <1>2, <1>3, <1>4

(* Steps of a call that take no session and give none back.                *)
LEMMA SessionsKept ==
  ASSUME IInv, CallStep, KeepSessions
  PROVE  FleetInv' /\ (UNCHANGED legs => LegsCounted')
<1>1. UNCHANGED fleetVars /\ UNCHANGED cfg
  BY DEF CallStep, InCalls, KeepSessions, fleetVars
<1>2. FleetInv' /\ UNCHANGED load
  BY <1>1, FleetStays
<1> QED
  BY <1>1, <1>2 DEF IInv, LegsCounted, OpenLegs

(* Steps of a call that leave its streams alone and route nothing anew.    *)
LEMMA StreamsKept ==
  ASSUME IInv, CallStep, UNCHANGED <<stream, workerVars>>,
         \A c \in Calls : req'[c] = req[c] \/ \A l \in Legs : stream[c][l] = <<>>
  PROVE  StreamsBound' /\ Reports' /\ RoutedToTheLiving'
<1>1. UNCHANGED <<cfg, now, worker, died>>
  BY DEF CallStep, InCalls, workerVars
<1>2. StreamsBound'
  BY <1>1 DEF IInv, StreamsBound, Streams
<1>3. Reports'
  BY <1>1 DEF IInv, Reports
<1>4. RoutedToTheLiving'
  BY <1>1 DEF IInv, RoutedToTheLiving
<1> QED
  BY <1>2, <1>3, <1>4

(* AdmissionController.Check, of sessions.                                 *)
LEMMA StepCheckSessions ==
  ASSUME IInv, NEW c \in Calls, CheckSessions(c) PROVE IInv'
<1>1. CallStep /\ KeepSessions /\ UNCHANGED <<legs, stream, ctl>> /\ UNCHANGED workerVars
  BY DEF CheckSessions
<1>2. /\ WatchTyped' /\ WorkersTyped' /\ StaticRegistry'
      /\ cfg.scene = "calls" /\ ConfigOK(cfg) /\ UNCHANGED <<cfg, now>>
  BY <1>1, CallStepKeeps
<1>3. FleetInv' /\ LegsCounted'
  BY <1>1, SessionsKept
<1>4. /\ pc' = [pc EXCEPT ![c] = "streams"] /\ pc[c] = "idle"
      /\ why' = [why EXCEPT ![c] = "none"]
      /\ \A l \in Legs : stream[c][l] = <<>>
  BY DEF CheckSessions, GoTo
<1>5. PICK r \in Requests : req' = [req EXCEPT ![c] = r]
  BY DEF CheckSessions
<1>c. crowd' \in Nat /\ crowd <= crowd' /\ CrowdSeen'
  BY CrowdGrows DEF CheckSessions, IInv
<1>6. StreamsBound' /\ Reports' /\ RoutedToTheLiving'
  BY <1>1, <1>4, <1>5, StreamsKept DEF IInv, CallsTyped
<1>7. CallsTyped'
  BY <1>1, <1>2, <1>4, <1>5, <1>c DEF IInv, CallsTyped
<1>8. StepsOfCalls'
  BY <1>1, <1>2, <1>4 DEF IInv, StepsOfCalls, CallsTyped
<1>9. SessionsReserved'
  <2> SUFFICES 100 * (cfg.sessions + Cardinality(Claimed')) <= 90 * Capacity + 200 * crowd'
    BY <1>2 DEF SessionsReserved
  <2>1. load[Self] = cfg.sessions + Cardinality(OpenLegs) /\ cfg.sessions \in Nat
    BY <1>2 DEF IInv, LegsCounted, ConfigOK
  <2>2. 100 * load[Self] <= 90 * Capacity
    <3>1. load[Self] \in Nat
      BY DEF IInv, FleetInv, FleetTypeOK, Nodes
    <3> QED
      BY <3>1 DEF CheckSessions, SessionsBusy, AtLeast
  <2>3. Claimed' \subseteq OpenLegs \cup (Between' \X Legs)
    BY <1>1 DEF Claimed, OpenLegs, Between, Slots
  <2>4. Claimed' \in SUBSET Slots /\ OpenLegs \in SUBSET Slots /\ Between' \in SUBSET Calls
    BY DEF Claimed, OpenLegs, Between, Slots
  <2>5. /\ Cardinality(Claimed') \in Nat /\ Cardinality(OpenLegs) \in Nat
        /\ Cardinality(Between') \in Nat
        /\ Cardinality(Claimed') <= Cardinality(OpenLegs) + 2 * Cardinality(Between')
    BY <2>3, <2>4, ClaimsCount
  <2>6. Cardinality(Between') <= crowd' /\ crowd' \in Nat
    BY <1>c DEF CrowdSeen
  <2> QED
    BY <2>1, <2>2, <2>5, <2>6
<1>10. StreamsReserved'
  <2>1. ClaimedStreams' \subseteq ClaimedStreams
    BY <1>1, <1>4 DEF ClaimedStreams, Slots, IInv, CallsTyped
  <2>2. \A d \in Calls : pc'[d] \in {"create", "start"} => pc[d] \in {"create", "start"}
    BY <1>4 DEF IInv, CallsTyped
  <2> QED
    BY <1>2, <1>c, <2>1, <2>2, StreamsReservedKept DEF IInv, Reserved
<1>11. AdmittedFindsRoom'
  BY <1>2, <1>4, <1>c, RoomKept DEF IInv, CallsTyped
<1> QED
  BY <1>2, <1>3, <1>6, <1>7, <1>8, <1>9, <1>10, <1>11, <1>c DEF IInv, Reserved

(* AdmissionController.Check, of streams and workers.                      *)
LEMMA StepCheckStreams ==
  ASSUME IInv, NEW c \in Calls, CheckStreams(c) PROVE IInv'
<1>1. CallStep /\ KeepSessions /\ UNCHANGED <<req, legs, stream, why, ctl>> /\ UNCHANGED workerVars
  BY DEF CheckStreams, ctlVars
<1>2. /\ WatchTyped' /\ WorkersTyped' /\ StaticRegistry'
      /\ cfg.scene = "calls" /\ ConfigOK(cfg) /\ UNCHANGED <<cfg, now>>
  BY <1>1, CallStepKeeps
<1>3. FleetInv' /\ LegsCounted'
  BY <1>1, SessionsKept
<1>4. StreamsBound' /\ Reports' /\ RoutedToTheLiving'
  BY <1>1, StreamsKept
<1>5. pc[c] = "streams" /\ \E p \in {"idle", "create"} : pc' = [pc EXCEPT ![c] = p]
  BY DEF CheckStreams, GoTo
<1>c. crowd' \in Nat /\ crowd <= crowd' /\ CrowdSeen'
  BY CrowdGrows DEF CheckStreams, IInv
<1>6. CallsTyped'
  BY <1>1, <1>2, <1>5, <1>c DEF IInv, CallsTyped
<1>7. StepsOfCalls'
  BY <1>1, <1>2, <1>5 DEF IInv, StepsOfCalls, CallsTyped
<1>p. pc' = [pc EXCEPT ![c] = IF AtLeast(Streams, cfg.maxStreams, 95) \/ NoWorker
                               THEN "idle" ELSE "create"]
  BY DEF CheckStreams, GoTo
<1>8. SessionsReserved'
  <2>1. Claimed' \subseteq Claimed
    BY <1>1, <1>5 DEF Claimed, Slots, IInv, CallsTyped
  <2>2. \A d \in Calls : pc'[d] \in {"streams", "create"} => pc[d] \in {"streams", "create"}
    BY <1>5 DEF IInv, CallsTyped
  <2> QED
    BY <1>2, <1>c, <2>1, <2>2, SessionsReservedKept DEF IInv, Reserved
<1>9. StreamsReserved'
  <2>1. CASE AtLeast(Streams, cfg.maxStreams, 95) \/ NoWorker
    <3>0. pc' = [pc EXCEPT ![c] = "idle"]
      BY <1>p, <2>1
    <3>1. ClaimedStreams' \subseteq ClaimedStreams
      BY <1>1, <3>0 DEF ClaimedStreams, Slots, IInv, CallsTyped
    <3>2. \A d \in Calls : pc'[d] \in {"create", "start"} => pc[d] \in {"create", "start"}
      BY <3>0 DEF IInv, CallsTyped
    <3> QED
      BY <1>2, <1>c, <3>1, <3>2, StreamsReservedKept DEF IInv, Reserved
  <2>2. CASE ~AtLeast(Streams, cfg.maxStreams, 95)
    <3> SUFFICES 100 * (cfg.others + Cardinality(ClaimedStreams'))
                   <= 95 * cfg.maxStreams + 200 * crowd'
      BY <1>2 DEF StreamsReserved
    <3>1. cfg.maxStreams \in Nat /\ cfg.others \in Nat
      BY <1>2 DEF ConfigOK
    <3>2. Streams = cfg.others + Cardinality(OpenStreams)
      BY DEF Streams, OpenStreams, Slots
    <3>3. ClaimedStreams' \subseteq OpenStreams \cup (Between' \X Legs)
      BY <1>1 DEF ClaimedStreams, OpenStreams, Between, Slots
    <3>4. /\ ClaimedStreams' \in SUBSET Slots /\ OpenStreams \in SUBSET Slots
          /\ Between' \in SUBSET Calls
      BY DEF ClaimedStreams, OpenStreams, Between, Slots
    <3>5. /\ Cardinality(ClaimedStreams') \in Nat /\ Cardinality(OpenStreams) \in Nat
          /\ Cardinality(Between') \in Nat
          /\ Cardinality(ClaimedStreams') <= Cardinality(OpenStreams) + 2 * Cardinality(Between')
      BY <3>3, <3>4, ClaimsCount
    <3>6. Cardinality(Between') <= crowd' /\ crowd' \in Nat
      BY <1>c DEF CrowdSeen
    <3>7. 100 * Streams <= 95 * cfg.maxStreams
      BY <2>2, <3>1, <3>2, <3>5 DEF AtLeast
    <3> QED
      BY <3>1, <3>2, <3>5, <3>6, <3>7
  <2> QED
    BY <2>1, <2>2
<1>10. AdmittedFindsRoom'
  BY <1>1, <1>2, <1>c, RoomKept DEF IInv
<1> QED
  BY <1>2, <1>3, <1>4, <1>6, <1>7, <1>8, <1>9, <1>10, <1>c DEF IInv, Reserved

(* Coordinator.Create is refused only for the crowd: the leg it wants is   *)
(* claimed, and what is held and claimed together is bounded.              *)
LEMMA CreateIsCrowded ==
  ASSUME IInv, NEW c \in Calls, NEW l \in Legs, pc[c] = "create", l \notin legs[c],
         load[Self] >= Capacity
  PROVE  Crowded(Capacity, 90)
<1>1. cfg.scene = "calls" /\ cfg.sessions \in Nat /\ crowd \in Nat
  BY DEF IInv, StepsOfCalls, CallsTyped, ConfigOK
<1>2. load[Self] = cfg.sessions + Cardinality(OpenLegs)
  BY <1>1 DEF IInv, LegsCounted
<1>3. 100 * (cfg.sessions + Cardinality(Claimed)) <= 90 * Capacity + 200 * crowd
  BY DEF IInv, Reserved, SessionsReserved
<1>4. <<c, l>> \in Slots /\ <<c, l>> \notin OpenLegs /\ <<c, l>> \in Claimed
  BY DEF Slots, OpenLegs, Claimed
<1>5. OpenLegs \in SUBSET Slots /\ Claimed \in SUBSET Slots /\ OpenLegs \subseteq Claimed
  BY DEF OpenLegs, Claimed
<1>6. /\ Cardinality(Claimed) \in Nat /\ Cardinality(OpenLegs) \in Nat
      /\ Cardinality(OpenLegs) + 1 <= Cardinality(Claimed)
  BY <1>4, <1>5, ClaimsLeft
<1> QED
  BY <1>1, <1>2, <1>3, <1>6 DEF Crowded

(* A call ends, by a refusal, DELETE or a failed call-control: all its     *)
(* sessions are given back at once.                                        *)
LEMMA CallEnds ==
  ASSUME IInv, NEW c \in Calls, pc[c] \in {"create", "start", "up"}, CallStep,
         GoTo(c, "idle"), legs' = [legs EXCEPT ![c] = {}],
         Sessions(load[Self] - Cardinality(legs[c])),
         UNCHANGED <<req, stream>>, UNCHANGED workerVars,
         ctl' \in [Calls -> {"none", "lookup", "make", "post"}],
         why' \in [Calls -> {"none", "sessions", "streams", "worker", "dial"}],
         crowd' \in Nat /\ crowd <= crowd' => AdmittedFindsRoom'
  PROVE  IInv'
<1>c. crowd' \in Nat /\ crowd <= crowd' /\ CrowdSeen'
  BY CrowdGrows DEF IInv
<1>p. pc' = [pc EXCEPT ![c] = "idle"]
  BY DEF GoTo
<1>1. /\ WatchTyped' /\ WorkersTyped' /\ StaticRegistry'
      /\ cfg.scene = "calls" /\ ConfigOK(cfg) /\ UNCHANGED <<cfg, now>>
  BY CallStepKeeps
<1>2. /\ Cardinality(OpenLegs') \in Nat /\ Cardinality(OpenLegs) \in Nat
      /\ Cardinality(legs[c]) \in Nat
      /\ Cardinality(OpenLegs') = Cardinality(OpenLegs) - Cardinality(legs[c])
  <2>1. legs[c] \in {{}, {"tcore"}, Legs}
    BY DEF IInv, StepsOfCalls
  <2> QED
    BY <2>1, LegsEnd DEF IInv
<1>3. load[Self] = cfg.sessions + Cardinality(OpenLegs) /\ cfg.sessions \in Nat
  BY <1>1 DEF IInv, LegsCounted, ConfigOK
<1>4. load' = [load EXCEPT ![Self] = load[Self] - Cardinality(legs[c])] /\ Note
  BY DEF Sessions
<1>5. load \in [Nodes -> Nat] /\ Self \in Nodes
  BY DEF IInv, FleetInv, FleetTypeOK, Nodes
<1>6. load[Self] - Cardinality(legs[c]) = cfg.sessions + Cardinality(OpenLegs')
  BY <1>2, <1>3
<1>7. load[Self] - Cardinality(legs[c]) \in Nat
  BY <1>2, <1>3, <1>6
<1>8. FleetInv'
  <2>1. load' \in [Nodes -> Nat]
    BY <1>4, <1>5, <1>7
  <2>2. UNCHANGED <<now, reg, beat, handler>>
    BY DEF CallStep
  <2> QED
    BY <1>4, <2>1, <2>2, LoadKeeps DEF IInv
<1>9. LegsCounted'
  <2>1. load'[Self] = load[Self] - Cardinality(legs[c])
    BY <1>4, <1>5
  <2> QED
    BY <1>1, <1>6, <2>1 DEF LegsCounted
<1>10. StreamsBound' /\ Reports' /\ RoutedToTheLiving'
  BY StreamsKept
<1>11. CallsTyped'
  BY <1>1, <1>c, <1>p DEF IInv, CallsTyped
<1>12. StepsOfCalls'
  BY <1>1, <1>p DEF IInv, StepsOfCalls, CallsTyped
<1>13. SessionsReserved' /\ StreamsReserved'
  <2>1. Claimed' \subseteq Claimed
    BY <1>p DEF Claimed, Slots, IInv, CallsTyped
  <2>2. ClaimedStreams' \subseteq ClaimedStreams
    BY <1>p DEF ClaimedStreams, Slots, IInv, CallsTyped
  <2>3. \A d \in Calls : pc'[d] = pc[d] \/ pc'[d] = "idle"
    BY <1>p DEF IInv, CallsTyped
  <2>4. SessionsReserved'
    BY <1>1, <1>c, <2>1, <2>3, SessionsReservedKept DEF IInv, Reserved
  <2>5. StreamsReserved'
    BY <1>1, <1>c, <2>2, <2>3, StreamsReservedKept DEF IInv, Reserved
  <2> QED
    BY <2>4, <2>5
<1> QED
  BY <1>1, <1>8, <1>9, <1>10, <1>11, <1>12, <1>13, <1>c DEF IInv, Reserved

(* Coordinator.Create of the next leg, with room for it.                   *)
LEMMA StepCreated ==
  ASSUME IInv, NEW c \in Calls, Create(c), load[Self] < Capacity PROVE IInv'
<1> DEFINE l == IF legs[c] = {} THEN "tcore" ELSE "taccess"
<1>1. pc[c] = "create" /\ CallStep /\ legs[c] \in {{}, {"tcore"}}
      /\ \A k \in Legs : stream[c][k] = <<>>
  BY DEF Create, IInv, StepsOfCalls
<1>2. l \in Legs /\ l \notin legs[c] /\ legs[c] \cup {l} = (IF l = "tcore" THEN {"tcore"} ELSE Legs)
  BY <1>1 DEF Legs
<1>4. load \in [Nodes -> Nat] /\ Self \in Nodes
  BY DEF IInv, FleetInv, FleetTypeOK, Nodes
<1>5. ~(load[Self] >= Capacity)
  BY <1>4
<1>6. /\ legs' = [legs EXCEPT ![c] = @ \cup {l}]
      /\ Sessions(load[Self] + 1)
      /\ pc' = [pc EXCEPT ![c] = IF l = "tcore" THEN "create" ELSE "start"]
      /\ UNCHANGED <<req, stream, why, workerVars, ctlVars>>
  BY <1>5 DEF Create, GoTo
<1>c. crowd' \in Nat /\ crowd <= crowd' /\ CrowdSeen'
  <2>1. GoTo(c, IF l = "tcore" THEN "create" ELSE "start")
    BY <1>5 DEF Create
  <2> QED
    BY <2>1, CrowdGrows DEF IInv
<1>7. /\ WatchTyped' /\ WorkersTyped' /\ StaticRegistry'
      /\ cfg.scene = "calls" /\ ConfigOK(cfg) /\ UNCHANGED <<cfg, now>>
  BY <1>1, <1>6, CallStepKeeps
<1>8. FleetInv'
  <2>1. load' = [load EXCEPT ![Self] = load[Self] + 1] /\ Note
    BY <1>6 DEF Sessions
  <2>2. load' \in [Nodes -> Nat]
    BY <1>4, <2>1
  <2>3. UNCHANGED <<now, reg, beat, handler>>
    BY <1>1 DEF CallStep
  <2> QED
    BY <2>1, <2>2, <2>3, LoadKeeps DEF IInv
<1>9. LegsCounted'
  <2>1. load'[Self] = load[Self] + 1
    BY <1>4, <1>6 DEF Sessions
  <2>2. Cardinality(OpenLegs') = Cardinality(OpenLegs) + 1
    BY <1>2, <1>6, LegOpens DEF IInv
  <2>3. Cardinality(OpenLegs) \in Nat /\ cfg.sessions \in Nat
    BY <1>7, SlotsFinite DEF OpenLegs, ConfigOK
  <2> QED
    BY <1>7, <2>1, <2>2, <2>3 DEF IInv, LegsCounted
<1>10. StreamsBound' /\ Reports' /\ RoutedToTheLiving'
  BY <1>1, <1>6, StreamsKept
<1>11. CallsTyped'
  BY <1>2, <1>6, <1>7, <1>c DEF IInv, CallsTyped, ctlVars
<1>12. StepsOfCalls'
  <2>1. pc'[c] = (IF l = "tcore" THEN "create" ELSE "start") /\ legs'[c] = legs[c] \cup {l}
    BY <1>6 DEF IInv, CallsTyped
  <2>2. \A d \in Calls : d # c => pc'[d] = pc[d] /\ legs'[d] = legs[d]
    BY <1>6 DEF IInv, CallsTyped
  <2>3. "taccess" \in Legs
    BY DEF Legs
  <2> QED
    BY <1>1, <1>2, <1>6, <1>7, <2>1, <2>2, <2>3 DEF IInv, StepsOfCalls
<1>13. SessionsReserved' /\ StreamsReserved'
  <2>1. pc'[c] \in {"create", "start"} /\ legs'[c] = legs[c] \cup {l}
    BY <1>6 DEF IInv, CallsTyped
  <2>2. \A d \in Calls : d # c => pc'[d] = pc[d] /\ legs'[d] = legs[d]
    BY <1>6 DEF IInv, CallsTyped
  <2>3. Claimed' \subseteq Claimed
    BY <1>1, <2>2 DEF Claimed, Slots
  <2>4. ClaimedStreams' \subseteq ClaimedStreams
    BY <1>1, <1>6, <2>2 DEF ClaimedStreams, Slots
  <2>5. SessionsReserved'
    BY <1>1, <1>7, <1>c, <2>2, <2>3, SessionsReservedKept DEF IInv, Reserved
  <2>6. StreamsReserved'
    BY <1>1, <1>7, <1>c, <2>2, <2>4, StreamsReservedKept DEF IInv, Reserved
  <2> QED
    BY <2>5, <2>6
<1>14. AdmittedFindsRoom'
  BY <1>6, <1>7, <1>c, RoomKept DEF IInv
<1> QED
  BY <1>7, <1>8, <1>9, <1>10, <1>11, <1>12, <1>13, <1>14, <1>c DEF IInv, Reserved

(* Coordinator.Create of the next leg.                                     *)
LEMMA StepCreate ==
  ASSUME IInv, NEW c \in Calls, Create(c) PROVE IInv'
<1>1. pc[c] = "create" /\ CallStep
  BY DEF Create
<1>2. load[Self] \in Nat /\ Capacity \in Nat
  BY DEF IInv, FleetInv, FleetTypeOK, Nodes
<1>3. CASE load[Self] >= Capacity
  <2>1. PICK l \in Legs : l \notin legs[c]
    BY <1>1 DEF IInv, StepsOfCalls, Legs
  <2>2. Crowded(Capacity, 90)
    BY <1>1, <1>3, <2>1, CreateIsCrowded
  <2>3. Refuse(c, "sessions")
    BY <1>3 DEF Create
  <2>4. /\ GoTo(c, "idle") /\ legs' = [legs EXCEPT ![c] = {}]
        /\ why' = [why EXCEPT ![c] = "sessions"]
        /\ Sessions(load[Self] - Cardinality(legs[c]))
        /\ UNCHANGED <<req, stream>> /\ UNCHANGED workerVars /\ UNCHANGED ctl
    BY <2>3 DEF Refuse, ctlVars
  <2>5. /\ why' \in [Calls -> {"none", "sessions", "streams", "worker", "dial"}]
        /\ ctl' \in [Calls -> {"none", "lookup", "make", "post"}]
        /\ \A d \in Calls : why'[d] = IF d = c THEN "sessions" ELSE why[d]
    BY <2>4 DEF IInv, CallsTyped
  <2>6. UNCHANGED cfg
    BY <1>1 DEF CallStep, InCalls
  <2>7. crowd' \in Nat /\ crowd <= crowd' => AdmittedFindsRoom'
    BY <2>2, <2>5, <2>6, RoomKept DEF IInv
  <2> QED
    BY <1>1, <2>4, <2>5, <2>7, CallEnds
<1>4. CASE load[Self] < Capacity
  BY <1>4, StepCreated
<1> QED
  BY <1>2, <1>3, <1>4

(* Manager.Open is refused only for the crowd.                             *)
LEMMA OpenIsCrowded ==
  ASSUME IInv, NEW c \in Calls, pc[c] = "start", StreamsFull
  PROVE  Crowded(cfg.maxStreams, 95)
<1>1. cfg.maxStreams \in Nat /\ cfg.others \in Nat /\ crowd \in Nat
  BY DEF IInv, CallsTyped, ConfigOK
<1>2. 100 * (cfg.others + Cardinality(ClaimedStreams)) <= 95 * cfg.maxStreams + 200 * crowd
  BY DEF IInv, Reserved, StreamsReserved
<1>3. /\ <<c, "taccess">> \in Slots /\ <<c, "taccess">> \notin OpenStreams
      /\ <<c, "taccess">> \in ClaimedStreams
  BY DEF IInv, StepsOfCalls, Slots, OpenStreams, ClaimedStreams, Legs
<1>4. /\ OpenStreams \in SUBSET Slots /\ ClaimedStreams \in SUBSET Slots
      /\ OpenStreams \subseteq ClaimedStreams
  BY DEF OpenStreams, ClaimedStreams
<1>5. /\ Cardinality(ClaimedStreams) \in Nat /\ Cardinality(OpenStreams) \in Nat
      /\ Cardinality(OpenStreams) + 1 <= Cardinality(ClaimedStreams)
  BY <1>3, <1>4, ClaimsLeft
<1>6. Streams = cfg.others + Cardinality(OpenStreams) /\ Streams >= cfg.maxStreams
  BY DEF Streams, OpenStreams, Slots, StreamsFull
<1> QED
  BY <1>1, <1>2, <1>5, <1>6 DEF Crowded

(* RoutingDialer finds the worker of the configuration for any call.       *)
LEMMA StaticIsSuitable ==
  ASSUME IInv, cfg.scene = "calls", ~cfg.dynamic, cfg.routing, NEW r
  PROVE  Static \in Suitable(r)
<1>1. now = 0 /\ worker[Static] = <<[active |-> 0, at |-> 0]>>
      /\ \A w \in Workers : w # Static => worker[w] = <<>>
  BY DEF IInv, StaticRegistry
<1>2. cfg.maxStreams \in Nat /\ cfg.ttl \in Nat
  BY DEF IInv, CallsTyped, ConfigOK
<1>3. ListFresh = {Static}
  <2>1. worker[Static] # <<>> /\ worker[Static][1].at = 0
    BY <1>1
  <2>2. now <= worker[Static][1].at + cfg.ttl
    BY <1>1, <1>2, <2>1
  <2> QED
    BY <1>1, <2>1, <2>2 DEF ListFresh
<1>4. Supports(Static, r)
  BY DEF Supports, Matches
<1>5. ~AtCapacity(Static)
  BY <1>1, <1>2 DEF AtCapacity, Limit
<1>6. ~Less(Score(Static), Score(Static))
  <2> DEFINE b == IF Limit(Static) = 0 THEN 1 ELSE Limit(Static)
             s == Score(Static)
  <2>1. b \in Int /\ Static.gpu \in Int
    BY <1>2 DEF Limit
  <2>2. Static.gpu * b \in Int
    BY <2>1
  <2>3. 700 * 0 + 3 * Static.gpu * b \in Int
    BY <2>1, <2>2
  <2>4. s.num \in Int /\ s.den \in Int
    BY <1>1, <2>1, <2>3 DEF Score
  <2>5. s.num * s.den \in Int
    BY <2>4
  <2> HIDE DEF s
  <2> QED
    BY <2>5 DEF Less, s
<1> QED
  BY <1>3, <1>4, <1>5, <1>6 DEF Suitable

(* Startup.Start that does not get its stream.                             *)
LEMMA StepStartFails ==
  ASSUME IInv, NEW c \in Calls, StartFails(c) PROVE IInv'
<1>1. pc[c] = "start" /\ CallStep
  BY DEF StartFails
<1>2. PICK reason \in {"streams", "worker", "dial"} :
        /\ Refuse(c, reason)
        /\ reason = "streams" => StreamsFull
        /\ reason = "worker" => cfg.routing /\ Suitable(req[c]) = {}
  BY DEF StartFails
<1>3. /\ GoTo(c, "idle") /\ legs' = [legs EXCEPT ![c] = {}]
      /\ why' = [why EXCEPT ![c] = reason]
      /\ Sessions(load[Self] - Cardinality(legs[c]))
      /\ UNCHANGED <<req, stream>> /\ UNCHANGED workerVars /\ UNCHANGED ctl
  BY <1>2 DEF Refuse, ctlVars
<1>4. cfg.scene = "calls" /\ ConfigOK(cfg) /\ UNCHANGED cfg
  BY <1>1, <1>3, CallStepKeeps
<1>5. /\ why' \in [Calls -> {"none", "sessions", "streams", "worker", "dial"}]
      /\ ctl' \in [Calls -> {"none", "lookup", "make", "post"}]
      /\ \A d \in Calls : why'[d] = IF d = c THEN reason ELSE why[d]
  BY <1>3 DEF IInv, CallsTyped
<1>6. reason = "streams" => Crowded(cfg.maxStreams, 95)
  BY <1>1, <1>2, OpenIsCrowded
<1>7. reason = "worker" => cfg.dynamic
  BY <1>2, <1>4, StaticIsSuitable DEF ConfigOK
<1>8. crowd' \in Nat /\ crowd <= crowd' => AdmittedFindsRoom'
  <2>1. reason \in {"streams", "worker", "dial"}
    BY <1>2
  <2> QED
    BY <1>4, <1>5, <1>6, <1>7, <2>1, RoomKept DEF IInv
<1> QED
  BY <1>1, <1>3, <1>5, <1>8, CallEnds

(* DELETE of a call.                                                       *)
LEMMA StepDelete ==
  ASSUME IInv, NEW c \in Calls, Delete(c) PROVE IInv'
<1>1. /\ pc[c] = "up" /\ CallStep
      /\ GoTo(c, "idle") /\ legs' = [legs EXCEPT ![c] = {}]
      /\ Sessions(load[Self] - Cardinality(legs[c]))
      /\ UNCHANGED <<req, stream, why>> /\ UNCHANGED workerVars /\ UNCHANGED ctl
  BY DEF Delete, EndLegs, ctlVars
<1>2. UNCHANGED cfg
  BY <1>1 DEF CallStep, InCalls
<1>3. /\ why' \in [Calls -> {"none", "sessions", "streams", "worker", "dial"}]
      /\ ctl' \in [Calls -> {"none", "lookup", "make", "post"}]
  BY <1>1 DEF IInv, CallsTyped
<1>4. crowd' \in Nat /\ crowd <= crowd' => AdmittedFindsRoom'
  BY <1>1, <1>2, RoomKept DEF IInv
<1> QED
  BY <1>1, <1>3, <1>4, CallEnds

(* A call-control that fails ends the call, if it is still up.             *)
LEMMA StepPostFails ==
  ASSUME IInv, NEW c \in Calls, PostFails(c) PROVE IInv'
<1>1. CallStep /\ ctl' = [ctl EXCEPT ![c] = "none"]
  BY DEF PostFails, CtlStep
<1>2. ctl' \in [Calls -> {"none", "lookup", "make", "post"}]
  BY <1>1 DEF IInv, CallsTyped
<1>3. UNCHANGED <<cfg, connVars>>
  BY <1>1 DEF CallStep, InCalls
<1>4. CASE pc[c] = "up"
  <2>1. /\ GoTo(c, "idle") /\ legs' = [legs EXCEPT ![c] = {}]
        /\ Sessions(load[Self] - Cardinality(legs[c]))
        /\ UNCHANGED <<req, stream, why>> /\ UNCHANGED workerVars
    BY <1>4 DEF PostFails, EndLegs
  <2>2. why' \in [Calls -> {"none", "sessions", "streams", "worker", "dial"}]
    BY <2>1 DEF IInv, CallsTyped
  <2>3. crowd' \in Nat /\ crowd <= crowd' => AdmittedFindsRoom'
    BY <1>3, <2>1, RoomKept DEF IInv
  <2> QED
    BY <1>1, <1>2, <1>4, <2>1, <2>2, <2>3, CallEnds
<1>5. CASE pc[c] # "up"
  <2>1. UNCHANGED <<callVars, workerVars>> /\ KeepSessions
    BY <1>5 DEF PostFails
  <2>2. UNCHANGED fleetVars
    BY <1>1, <2>1 DEF CallStep, KeepSessions, fleetVars
  <2>3. WatchTyped'
    BY <1>3 DEF IInv, WatchTyped, connVars
  <2> QED
    BY <1>2, <1>3, <2>1, <2>2, <2>3, FleetStays, Quiet
<1> QED
  BY <1>4, <1>5

(* Manager.Open of the next stream, by the worker that RoutingDialer took. *)
LEMMA StepStartWorks ==
  ASSUME IInv, NEW c \in Calls, StartWorks(c) PROVE IInv'
<1> DEFINE k == NextLeg(c)
<1>1. pc[c] = "start" /\ CallStep /\ KeepSessions /\ ~StreamsFull
      /\ UNCHANGED <<req, legs, why>> /\ UNCHANGED workerVars
  BY DEF StartWorks
<1>2. /\ WatchTyped' /\ WorkersTyped' /\ StaticRegistry'
      /\ cfg.scene = "calls" /\ ConfigOK(cfg) /\ UNCHANGED <<cfg, now>>
  BY <1>1, CallStepKeeps
<1>3. FleetInv' /\ LegsCounted' /\ now \in Nat
  BY <1>1, SessionsKept DEF IInv, FleetInv, FleetTypeOK
<1>4. k \in Legs /\ stream[c][k] = <<>> /\ stream[c]["taccess"] = <<>> /\ "taccess" \in Legs
  BY <1>1 DEF NextLeg, Legs, IInv, StepsOfCalls
<1>5. PICK w \in IF cfg.routing THEN Suitable(req[c]) ELSE {Static} :
        stream' = [stream EXCEPT ![c][k] = <<[worker |-> w, at |-> now]>>]
  BY DEF StartWorks
<1>6. w \in Workers
  BY <1>5 DEF Suitable, ListFresh
<1>7. /\ DOMAIN stream' = Calls /\ \A d \in Calls : DOMAIN stream'[d] = Legs
      /\ \A d \in Calls, l \in Legs :
           stream'[d][l] = IF d = c /\ l = k THEN <<[worker |-> w, at |-> now]>> ELSE stream[d][l]
  BY <1>4, <1>5 DEF IInv, CallsTyped
<1> HIDE DEF k
<1>8. \E p \in {"start", "up"} : pc' = [pc EXCEPT ![c] = p]
      /\ (p = "start" => k = "tcore")
      /\ \E step \in {"lookup", "none"} : ctl' = ctl \/ ctl' = [ctl EXCEPT ![c] = step]
  <2>1. CASE k = "tcore"
    <3>1. pc' = pc /\ ctl' = ctl
      BY <2>1 DEF StartWorks, ctlVars, k
    <3>2. pc' = [pc EXCEPT ![c] = "start"]
      BY <1>1, <3>1 DEF IInv, CallsTyped
    <3> QED
      BY <2>1, <3>1, <3>2
  <2>2. CASE k # "tcore"
    <3>1. pc' = [pc EXCEPT ![c] = "up"]
          /\ ctl' = [ctl EXCEPT ![c] = IF cfg.dcsf THEN "lookup" ELSE "none"]
      BY <2>2 DEF StartWorks, GoTo, k
    <3> QED
      BY <3>1
  <2> QED
    BY <2>1, <2>2
<1>9. pc' \in [Calls -> {"idle", "streams", "create", "start", "up"}]
      /\ ctl' \in [Calls -> {"none", "lookup", "make", "post"}]
  BY <1>8 DEF IInv, CallsTyped
<1>10. pc'[c] \in {"start", "up"} /\ (pc'[c] = "start" => k = "tcore")
  BY <1>8 DEF IInv, CallsTyped
<1>11. \A d \in Calls : d # c => pc'[d] = pc[d]
  BY <1>8 DEF IInv, CallsTyped
<1>12. \A d \in Calls, l \in Legs :
         stream'[d][l] # <<>> => stream'[d][l][1] \in [worker : Workers, at : Nat]
  <2> SUFFICES ASSUME NEW d \in Calls, NEW l \in Legs, stream'[d][l] # <<>>
               PROVE  stream'[d][l][1] \in [worker : Workers, at : Nat]
    OBVIOUS
  <2>1. CASE d = c /\ l = k
    BY <1>3, <1>6, <1>7, <2>1
  <2>2. CASE ~(d = c /\ l = k)
    BY <1>7, <2>2 DEF IInv, CallsTyped
  <2> QED
    BY <2>1, <2>2
<1>c. crowd' \in Nat /\ crowd <= crowd' /\ CrowdSeen'
  <2>1. crowd \in Nat /\ CrowdSeen
    BY DEF IInv, CallsTyped, Reserved
  <2>2. CASE k = "tcore"
    <3>1. UNCHANGED <<pc, crowd>>
      BY <2>2 DEF StartWorks, k
    <3> QED
      BY <2>1, <3>1 DEF CrowdSeen, Between
  <2>3. CASE k # "tcore"
    <3>1. GoTo(c, "up")
      BY <2>3 DEF StartWorks, k
    <3> QED
      BY <3>1, CrowdGrows DEF IInv
  <2> QED
    BY <2>2, <2>3
<1>13. CallsTyped'
  BY <1>1, <1>2, <1>7, <1>9, <1>12, <1>c DEF IInv, CallsTyped
<1>14. StepsOfCalls'
  <2> SUFFICES ASSUME NEW d \in Calls
               PROVE  /\ pc'[d] # "idle" => cfg.scene = "calls"
                      /\ pc'[d] \in {"idle", "streams"} => legs[d] = {}
                      /\ pc'[d] = "create" => legs[d] \in {{}, {"tcore"}}
                      /\ pc'[d] \in {"start", "up"} => legs[d] = Legs
                      /\ pc'[d] \in {"streams", "create"} => \A l \in Legs : stream'[d][l] = <<>>
                      /\ pc'[d] = "start" => stream'[d]["taccess"] = <<>>
    BY <1>1, <1>2 DEF StepsOfCalls
  <2>1. CASE d = c
    BY <1>1, <1>2, <1>4, <1>7, <1>10, <2>1 DEF IInv, StepsOfCalls
  <2>2. CASE d # c
    BY <1>1, <1>4, <1>7, <1>11, <2>2 DEF IInv, StepsOfCalls
  <2> QED
    BY <2>1, <2>2
<1>15. StreamsBound'
  <2>1. OpenStreams' = OpenStreams \cup {<<c, k>>} /\ <<c, k>> \notin OpenStreams
    <3> DEFINE slot == <<c, k>>
    <3>0. slot \in Slots /\ slot[1] = c /\ slot[2] = k
      BY <1>4 DEF Slots
    <3> HIDE DEF slot
    <3>1. slot \in Slots /\ slot \notin OpenStreams
      BY <1>4, <3>0 DEF OpenStreams
    <3>2. stream'[c][k] # <<>>
      <4>1. stream'[c][k] = <<[worker |-> w, at |-> now]>>
        BY <1>4, <1>7
      <4>2. \A x : <<x>> # <<>>
        OBVIOUS
      <4> QED
        BY <4>1, <4>2
    <3>3. \A d \in Calls, l \in Legs : ~(d = c /\ l = k) => stream'[d][l] = stream[d][l]
      BY <1>7
    <3>4. \A s \in Slots : stream'[s[1]][s[2]] # <<>> <=> s = <<c, k>> \/ stream[s[1]][s[2]] # <<>>
      <4> SUFFICES ASSUME NEW d \in Calls, NEW l \in Legs
                   PROVE  stream'[d][l] # <<>> <=> <<d, l>> = <<c, k>> \/ stream[d][l] # <<>>
        BY DEF Slots
      <4> QED
        BY <3>2, <3>3
    <3> QED
      BY <3>1, <3>4 DEF OpenStreams, slot
  <2>2. IsFiniteSet(OpenStreams) /\ Cardinality(OpenStreams) \in Nat
    BY SlotsFinite DEF OpenStreams
  <2>3. Cardinality(OpenStreams') = Cardinality(OpenStreams) + 1
    BY <2>1, <2>2, FS_AddElement
  <2>4. Streams = cfg.others + Cardinality(OpenStreams)
        /\ Streams' = cfg'.others + Cardinality(OpenStreams')
    BY DEF Streams, OpenStreams, Slots
  <2>5. cfg.others \in Nat /\ cfg.maxStreams \in Nat
    BY <1>2 DEF ConfigOK
  <2> QED
    BY <1>1, <1>2, <2>2, <2>3, <2>4, <2>5 DEF StreamsBound, StreamsFull
<1>16. SessionsReserved' /\ StreamsReserved'
  <2>1. Claimed' \subseteq Claimed
    BY <1>1, <1>10, <1>11 DEF Claimed, Slots
  <2>2. ClaimedStreams' \subseteq ClaimedStreams
    <3> SUFFICES ASSUME NEW d \in Calls, NEW l \in Legs, <<d, l>> \in ClaimedStreams'
                 PROVE  stream[d][l] # <<>> \/ pc[d] \in {"create", "start"}
      BY DEF ClaimedStreams, Slots
    <3>1. stream'[d][l] # <<>> \/ pc'[d] \in {"create", "start"}
      BY DEF ClaimedStreams
    <3>2. CASE d = c
      BY <1>1, <3>2
    <3>3. CASE d # c
      BY <1>7, <1>11, <3>1, <3>3
    <3> QED
      BY <3>2, <3>3
  <2>3. \A d \in Calls : pc'[d] = pc[d] \/ (pc[d] = "start" /\ pc'[d] \in {"start", "up"})
    BY <1>1, <1>10, <1>11
  <2>4. SessionsReserved'
    BY <1>2, <1>c, <2>1, <2>3, SessionsReservedKept DEF IInv, Reserved
  <2>5. StreamsReserved'
    BY <1>2, <1>c, <2>2, <2>3, StreamsReservedKept DEF IInv, Reserved
  <2> QED
    BY <2>4, <2>5
<1>17. Reports'
  <2>1. \A d \in Calls, l \in Legs : stream'[d][l] # <<>> => stream'[d][l][1].at <= now
    BY <1>3, <1>7 DEF IInv, Reports
  <2> QED
    BY <1>1, <1>2, <2>1 DEF IInv, Reports, workerVars
<1>18. /\ cfg.routing => Supports(w, req[c])
       /\ cfg.ttl > 0 /\ died[w] # <<>> => now <= died[w][1] + cfg.ttl
  <2>1. CASE cfg.routing
    <3>1. w \in ListFresh /\ Supports(w, req[c])
      BY <1>5, <2>1 DEF Suitable
    <3>2. worker[w] # <<>> /\ (cfg.ttl = 0 \/ now <= worker[w][1].at + cfg.ttl)
      BY <3>1 DEF ListFresh
    <3>3. worker[w][1].at \in Nat /\ (died[w] # <<>> => died[w][1] \in Nat) /\ cfg.ttl \in Nat
      BY <1>2, <1>6, <3>2 DEF IInv, WorkersTyped, Entry, ConfigOK
    <3>4. died[w] # <<>> => worker[w][1].at <= died[w][1]
      BY <1>6, <3>2 DEF IInv, Reports
    <3> QED
      BY <1>3, <3>1, <3>2, <3>3, <3>4
  <2>2. CASE ~cfg.routing
    BY <1>5, <2>2 DEF IInv, Reports
  <2> QED
    BY <2>1, <2>2
<1>19. RoutedToTheLiving'
  <2> SUFFICES ASSUME NEW d \in Calls, NEW l \in Legs, stream'[d][l] # <<>>
               PROVE  LET s == stream'[d][l][1] IN
                        /\ cfg.routing => Supports(s.worker, req[d])
                        /\ cfg.ttl > 0 /\ died[s.worker] # <<>> =>
                             s.at <= died[s.worker][1] + cfg.ttl
    BY <1>1, <1>2 DEF RoutedToTheLiving, workerVars
  <2>1. CASE d = c /\ l = k
    BY <1>7, <1>18, <2>1
  <2>2. CASE ~(d = c /\ l = k)
    BY <1>7, <2>2 DEF IInv, RoutedToTheLiving
  <2> QED
    BY <2>1, <2>2
<1>20. AdmittedFindsRoom'
  BY <1>1, <1>2, <1>c, RoomKept DEF IInv
<1> QED
  BY <1>2, <1>3, <1>13, <1>14, <1>15, <1>16, <1>17, <1>19, <1>20, <1>c DEF IInv, Reserved

(* The manager forgets a stream whose session has ended.                   *)
LEMMA StepStreamEnds ==
  ASSUME IInv, NEW c \in Calls, NEW k \in Legs, StreamEnds(c, k) PROVE IInv'
<1>1. CallStep /\ KeepSessions /\ k \notin legs[c]
      /\ UNCHANGED <<pc, req, legs, why, crowd, ctl>> /\ UNCHANGED workerVars
  BY DEF StreamEnds, ctlVars
<1>2. /\ WatchTyped' /\ WorkersTyped' /\ StaticRegistry'
      /\ cfg.scene = "calls" /\ ConfigOK(cfg) /\ UNCHANGED <<cfg, now>>
  BY <1>1, CallStepKeeps
<1>3. FleetInv' /\ LegsCounted'
  BY <1>1, SessionsKept
<1>4. /\ DOMAIN stream' = Calls /\ \A d \in Calls : DOMAIN stream'[d] = Legs
      /\ \A d \in Calls, l \in Legs :
           stream'[d][l] = IF d = c /\ l = k THEN <<>> ELSE stream[d][l]
  BY DEF StreamEnds, IInv, CallsTyped
<1>5. \A d \in Calls, l \in Legs : stream'[d][l] = <<>> \/ stream'[d][l] = stream[d][l]
  BY <1>4
<1>6. \A d \in Calls, l \in Legs : stream[d][l] = <<>> => stream'[d][l] = <<>>
  BY <1>4
<1>7. CallsTyped'
  BY <1>1, <1>2, <1>4, <1>5 DEF IInv, CallsTyped
<1>8. StepsOfCalls'
  <2>1. "taccess" \in Legs
    BY DEF Legs
  <2> QED
    BY <1>1, <1>2, <1>6, <2>1 DEF IInv, StepsOfCalls
<1>9. StreamsBound'
  <2>1. OpenStreams' \subseteq OpenStreams
    BY <1>5 DEF OpenStreams, Slots
  <2>2. IsFiniteSet(OpenStreams) /\ Cardinality(OpenStreams) \in Nat
    BY SlotsFinite DEF OpenStreams
  <2>3. Cardinality(OpenStreams') \in Nat /\ Cardinality(OpenStreams') <= Cardinality(OpenStreams)
    BY <2>1, <2>2, FS_Subset, FS_CardinalityType
  <2>4. Streams = cfg.others + Cardinality(OpenStreams)
        /\ Streams' = cfg'.others + Cardinality(OpenStreams')
    BY DEF Streams, OpenStreams, Slots
  <2>5. cfg.others \in Nat /\ cfg.maxStreams \in Nat
    BY <1>2 DEF ConfigOK
  <2> QED
    BY <1>2, <2>2, <2>3, <2>4, <2>5 DEF IInv, StreamsBound
<1>10. Reserved' /\ AdmittedFindsRoom'
  <2>1. crowd \in Nat /\ crowd' = crowd /\ CrowdSeen'
    BY <1>1 DEF IInv, CallsTyped, Reserved, CrowdSeen, Between
  <2>2. Claimed' \subseteq Claimed
    BY <1>1 DEF Claimed
  <2>3. ClaimedStreams' \subseteq ClaimedStreams
    BY <1>1, <1>5 DEF ClaimedStreams, Slots
  <2>4. crowd' \in Nat /\ crowd <= crowd'
    BY <2>1
  <2>5. SessionsReserved'
    BY <1>1, <1>2, <2>2, <2>4, SessionsReservedKept DEF IInv, Reserved
  <2>6. StreamsReserved'
    BY <1>1, <1>2, <2>3, <2>4, StreamsReservedKept DEF IInv, Reserved
  <2>7. AdmittedFindsRoom'
    BY <1>1, <1>2, <2>4, RoomKept DEF IInv
  <2> QED
    BY <2>1, <2>5, <2>6, <2>7 DEF Reserved
<1>11. Reports'
  BY <1>1, <1>2, <1>5 DEF IInv, Reports, workerVars
<1>12. RoutedToTheLiving'
  BY <1>1, <1>2, <1>5 DEF IInv, RoutedToTheLiving, workerVars
<1> QED
  BY <1>2, <1>3, <1>7, <1>8, <1>9, <1>10, <1>11, <1>12 DEF IInv

-----------------------------------------------------------------------------
(* The theorems.                                                           *)

(* The gateway starts with no call, and with the registries main makes.    *)
LEMMA InitIInv == Init => IInv
<1> SUFFICES ASSUME Init PROVE IInv
  OBVIOUS
<1>1. cfg \in Configs /\ ConfigOK(cfg) /\ now = 0
  BY DEF Init, FleetStart
<1>2. FleetInv
  <2>1. load \in [Nodes -> Nat]
    <3>1. CASE cfg.scene = "fleet"
      BY <3>1 DEF Init
    <3>2. CASE cfg.scene # "fleet"
      BY <1>1, <3>2 DEF Init, ConfigOK
    <3> QED
      BY <3>1, <3>2
  <2> QED
    BY <2>1, FleetStartInv DEF Init
<1>3. req \in [Calls -> Requests]
  BY DEF Init
<1>4. /\ pc = [c \in Calls |-> "idle"] /\ legs = [c \in Calls |-> {}]
      /\ why = [c \in Calls |-> "none"] /\ ctl = [c \in Calls |-> "none"]
      /\ stream = [c \in Calls |-> [l \in Legs |-> <<>>]]
      /\ died = [w \in Workers |-> <<>>] /\ crowd = 0
  BY DEF Init
<1>5. CallsTyped /\ StepsOfCalls /\ AdmittedFindsRoom
  BY <1>1, <1>3, <1>4 DEF CallsTyped, StepsOfCalls, AdmittedFindsRoom, Legs
<1>13. Reserved
  <2>1. Between = {}
    BY <1>4 DEF Between
  <2>2. Cardinality(Between) = 0
    BY <2>1, FS_EmptySet
  <2> QED
    BY <1>4, <2>2 DEF Reserved, CrowdSeen, SessionsReserved, StreamsReserved
<1>6. /\ DOMAIN worker = Workers
      /\ \A w \in Workers :
           worker[w] = IF cfg.routing /\ ~cfg.dynamic /\ w = Static
                       THEN <<[active |-> 0, at |-> 0]>> ELSE <<>>
  BY DEF Init
<1>7. WorkersTyped /\ Reports
  <2>1. \A w \in Workers : worker[w] # <<>> => worker[w][1] = [active |-> 0, at |-> 0]
    BY <1>6
  <2> QED
    BY <1>1, <1>4, <1>6, <2>1 DEF WorkersTyped, Reports, Entry
<1>8. StaticRegistry
  BY <1>1, <1>6 DEF StaticRegistry
<1>9. WatchTyped
  BY DEF Init, WatchTyped, ConnStates
<1>10. LegsCounted
  <2>1. OpenLegs = {}
    BY <1>4 DEF OpenLegs, Slots
  <2>2. Cardinality(OpenLegs) = 0
    BY <2>1, FS_EmptySet
  <2> QED
    BY <1>1, <2>2 DEF Init, LegsCounted, Nodes, ConfigOK
<1>11. StreamsBound
  <2>1. OpenStreams = {}
    BY <1>4 DEF OpenStreams, Slots
  <2>2. Cardinality(OpenStreams) = 0
    BY <2>1, FS_EmptySet
  <2> QED
    BY <1>1, <2>2 DEF StreamsBound, Streams, OpenStreams, Slots, ConfigOK
<1>12. RoutedToTheLiving
  BY <1>4 DEF RoutedToTheLiving
<1> QED
  BY <1>2, <1>5, <1>7, <1>8, <1>9, <1>10, <1>11, <1>12, <1>13 DEF IInv

(* Every step keeps the invariant.                                         *)
LEMMA StepIInv == IInv /\ [Next]_vars => IInv'
<1> SUFFICES ASSUME IInv, [Next]_vars PROVE IInv'
  OBVIOUS
<1>1. CASE FleetStep
  BY <1>1, FleetQuiet
<1>2. CASE ClockStep
  BY <1>2, ClockQuiet
<1>3. CASE WatchNext
  BY <1>3, WatchQuiet
<1>4. ASSUME NEW w \in Workers, Report(w) \/ WorkerDies(w) \/ DeregisterWorker(w)
      PROVE  IInv'
  BY <1>4, WorkersStep
<1>5. ASSUME NEW c \in Calls, CheckSessions(c) \/ CheckStreams(c) \/ Create(c) PROVE IInv'
  BY <1>5, StepCheckSessions, StepCheckStreams, StepCreate
<1>6. ASSUME NEW c \in Calls, StartFails(c) \/ StartWorks(c) \/ Delete(c) PROVE IInv'
  BY <1>6, StepStartFails, StepStartWorks, StepDelete
<1>7. ASSUME NEW c \in Calls, NEW l \in Legs, StreamEnds(c, l) PROVE IInv'
  BY <1>7, StepStreamEnds
<1>8. ASSUME NEW c \in Calls, Lookup(c) \/ Make(c) \/ PostWorks(c) PROVE IInv'
  BY <1>8, CtlQuiet
<1>9. ASSUME NEW c \in Calls, PostFails(c) PROVE IInv'
  BY <1>9, StepPostFails
<1>10. CASE UNCHANGED vars
  <2>1. UNCHANGED <<fleetVars, cfg, callVars, workerVars, ctlVars, connVars>>
    BY <1>10 DEF vars
  <2>2. WatchTyped' /\ ctl' \in [Calls -> {"none", "lookup", "make", "post"}]
    BY <2>1 DEF IInv, WatchTyped, CallsTyped, connVars, ctlVars
  <2> QED
    BY <2>1, <2>2, FleetStays, Quiet
<1> QED
  BY <1>1, <1>2, <1>3, <1>4, <1>5, <1>6, <1>7, <1>8, <1>9, <1>10 DEF Next, CallNext

(* The invariant holds at any moment, whatever calls, workers, peers and   *)
(* the network do: in particular every session of this node is one of a    *)
(* call's legs or of the calls outside the slots, however calls end.       *)
THEOREM AdmissionIInv == Spec => []IInv
<1> QED
  BY InitIInv, StepIInv, PTL DEF Spec

(* The streams of the static worker are some of the manager's.             *)
LEMMA StaticWithinLimits ==
  ASSUME IInv, ~cfg.dynamic
  PROVE  cfg.others + Active(Static) <= Limit(Static)
<1> DEFINE mine == {s \in Calls \X Legs : stream[s[1]][s[2]] # <<>>
                                          /\ stream[s[1]][s[2]][1].worker = Static}
<1>1. mine \subseteq OpenStreams
  BY DEF OpenStreams, Slots
<1>2. IsFiniteSet(OpenStreams) /\ Cardinality(OpenStreams) \in Nat
  BY SlotsFinite DEF OpenStreams
<1>3. Cardinality(mine) \in Nat /\ Cardinality(mine) <= Cardinality(OpenStreams)
  BY <1>1, <1>2, FS_Subset, FS_CardinalityType
<1>4. Streams = cfg.others + Cardinality(OpenStreams) /\ Streams <= cfg.maxStreams
  BY DEF Streams, OpenStreams, Slots, IInv, StreamsBound
<1>5. cfg.others \in Nat /\ cfg.maxStreams \in Nat
  BY DEF IInv, CallsTyped, ConfigOK
<1>6. Active(Static) = Cardinality(mine) /\ Limit(Static) = cfg.maxStreams
  BY DEF Active, Limit
<1> HIDE DEF mine
<1> QED
  BY <1>2, <1>3, <1>4, <1>5, <1>6

(* Sessions and streams are counted right and stay within their limits,    *)
(* and RoutingDialer sends a stream to no worker that cannot serve it or   *)
(* has been dead for longer than the TTL.                                  *)
THEOREM WithinAllLimits == Spec => []AdmissionInv
<1>1. IInv => AdmissionInv
  <2> SUFFICES ASSUME IInv PROVE AdmissionInv
    OBVIOUS
  <2>1. TypeOK
    BY DEF IInv, FleetInv, CallsTyped, WatchTyped, LegsCounted, OpenLegs, Slots, ConnStates, TypeOK
  <2>2. WithinLimits
    BY StaticWithinLimits DEF WithinLimits
  <2> QED
    BY <2>1, <2>2 DEF IInv, AdmissionInv
<1> QED
  BY <1>1, AdmissionIInv, PTL

(* For any number of calls: between AdmissionController.Check and its use  *)
(* Create and Open refuse a call for want of room only once the handlers   *)
(* that have been there at the same time want more than the checks keep    *)
(* back, and the worker of the configuration is there for every call.      *)
THEOREM AdmittedIsServed == Spec => []AdmittedFindsRoom
<1>1. IInv => AdmittedFindsRoom
  BY DEF IInv
<1> QED
  BY <1>1, AdmissionIInv, PTL

(* GatewayRegistry.Select is as right beside the calls as it is alone.     *)
THEOREM SelectHadRoom == Spec => []ChosenHadRoom
<1>1. IInv => ChosenHadRoom
  BY FleetInvChosen DEF IInv
<1> QED
  BY <1>1, AdmissionIInv, PTL
=============================================================================
