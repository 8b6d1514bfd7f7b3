------------------------------ MODULE Admission ------------------------------
(***************************************************************************)
(* What a gateway checks before it takes a call, and what it then needs:   *)
(* internal/controlplane (AdmissionController, handleAnswer, DCSFPool) and *)
(* internal/ai (Manager.Open's limit, WorkerRegistry, RoutingDialer, the   *)
(* watch of SharedConnPool).  The sessions of this node are load[Self] of  *)
(* Fleet.                                                                  *)
(*                                                                         *)
(* A slot of Calls stands for a handler and the call it answers, and is    *)
(* used again for another call.  CallControl models how a handler undoes   *)
(* its steps; here the steps are those that take something limited.        *)
(*                                                                         *)
(* The scenes, "fleet", "calls" and "watch", share no step but the clock.  *)
(*                                                                         *)
(* A definition X_Bug is X with a bug that the runs are known to find; no  *)
(* action uses it.                                                         *)
(***************************************************************************)
EXTENDS Fleet, FiniteSets

CONSTANTS
  Configs,     \* scenes and settings: see ConfigOK
  Calls,       \* handlers of ANSWER
  Workers,     \* AI workers: languages, tasks, max (MaxStreams), gpu (%)
  Static,      \* the worker of the configuration
  Requests,    \* language and task of a call
  MaxDrops     \* bound on the changes that a connection's network makes

Legs == {"tcore", "taccess"}

(* sessions and others: sessions and streams of calls outside the slots;   *)
(* maxStreams: ai.Config.MaxActiveStreams; routing: FALSE for NullDialer;  *)
(* dynamic: workers report themselves; ttl of the worker registry, 0 for   *)
(* none; calls: the slots in use; dcsf: calls name a DCSF host; warm: it is *)
(* configured.                                                             *)
ConfigOK(c) ==
  /\ c.scene \in {"fleet", "calls", "watch"}
  /\ c.sessions \in Nat /\ c.others \in Nat /\ c.maxStreams \in Nat
  /\ c.routing \in BOOLEAN /\ c.dynamic \in BOOLEAN
  /\ c.dcsf \in BOOLEAN /\ c.warm \in BOOLEAN /\ c.calls \subseteq Calls
  /\ c.ttl \in Nat
  /\ c.others <= c.maxStreams                     \* the manager has opened them too

(* What a worker reports of itself; main registers the worker of the       *)
(* configuration without languages or tasks, which is any.                 *)
WorkersOK ==
  /\ \A w \in Workers : w.max \in Nat /\ w.gpu \in Nat
  /\ Static \in Workers /\ Static.languages = {} /\ Static.tasks = {}

ASSUME AdmissionAssumption ==
  /\ \A c \in Configs : ConfigOK(c)
  /\ WorkersOK
  /\ IsFiniteSet(Calls) /\ Requests # {}

VARIABLES
  cfg,       \* the configuration
  pc,        \* step of each handler
  req,       \* what each call asks for
  legs,      \* the open sessions of each call
  stream,    \* the AI stream of each leg: a sequence of at most one
  why,       \* why an admitted call was refused
  crowd,     \* a record of the past: see Crowded
  worker,    \* WorkerRegistry.workers: a sequence of at most one each
  died,      \* when each worker died: a sequence of at most one
  ctl,       \* step of the goroutine that sends call-control
  client,    \* DCSFPool.clients of the one host: a sequence of at most one
  used,      \* the client each call was sent with
  made,      \* clients made
  conn,      \* state of the gRPC connection to the worker
  watch,     \* WatchAndReconnect: its step and the state it has seen
  drops,     \* changes that the network has made
  missed     \* a record of the past: see ConnectionSettles

callVars == <<pc, req, legs, stream, why, crowd>>
workerVars == <<worker, died>>
ctlVars == <<ctl, client, used, made>>
connVars == <<conn, watch, drops, missed>>
vars == <<fleetVars, cfg, callVars, workerVars, ctlVars, connVars>>

Init ==
  /\ cfg \in Configs
  /\ load \in IF cfg.scene = "fleet" THEN [Nodes -> Loads]
              ELSE {[g \in Nodes |-> IF g = Self THEN cfg.sessions ELSE 0]}
  /\ FleetStart
  /\ pc = [c \in Calls |-> "idle"]
  /\ req \in [Calls -> {CHOOSE r \in Requests : TRUE}]
  /\ legs = [c \in Calls |-> {}]
  /\ stream = [c \in Calls |-> [l \in Legs |-> <<>>]]
  /\ why = [c \in Calls |-> "none"]
  /\ crowd = 0
  /\ worker = [w \in Workers |->
                IF cfg.routing /\ ~cfg.dynamic /\ w = Static THEN <<[active |-> 0, at |-> 0]>> ELSE <<>>]
  /\ died = [w \in Workers |-> <<>>]
  /\ ctl = [c \in Calls |-> "none"]
  /\ client = IF cfg.warm THEN <<0>> ELSE <<>>
  /\ used = [c \in Calls |-> <<>>]
  /\ made = 0
  /\ conn = "Connecting"                         \* main has called Preconnect
  /\ watch = [step |-> "start", seen |-> "Idle"]
  /\ drops = 0
  /\ missed = FALSE

-----------------------------------------------------------------------------
(* Workers.                                                                *)

Streams == cfg.others + Cardinality({s \in Calls \X Legs : stream[s[1]][s[2]] # <<>>})

Active(w) ==
  Cardinality({s \in Calls \X Legs : stream[s[1]][s[2]] # <<>>
                                     /\ stream[s[1]][s[2]][1].worker = w})

Matches(list, value) == list = {} \/ "*" \in list \/ value \in list

Supports(w, r) == Matches(w.languages, r.language) /\ Matches(w.tasks, r.task)

(* main registers the static worker with the limit of the AI manager.      *)
Limit(w) == IF w = Static THEN cfg.maxStreams ELSE w.max

AtCapacity(w) == Limit(w) > 0 /\ worker[w][1].active >= Limit(w)

ListFresh_All == {w \in Workers : worker[w] # <<>>}
ListFresh == {w \in Workers : worker[w] # <<>>
                              /\ (cfg.ttl = 0 \/ now <= worker[w][1].at + cfg.ttl)}

(* loadScore as num / den, in thousandths.                                 *)
Score(w) ==
  LET a == IF Limit(w) = 0 THEN 0 ELSE worker[w][1].active
      b == IF Limit(w) = 0 THEN 1 ELSE Limit(w)
  IN IF w.gpu > 0 THEN [num |-> 700 * a + 3 * w.gpu * b, den |-> b]
                  ELSE [num |-> 1000 * a, den |-> b]

Less(s, t) == s.num * t.den < t.num * s.den

Suitable(r) ==
  LET able == {w \in ListFresh : Supports(w, r) /\ ~AtCapacity(w)} IN
  {w \in able : \A v \in able : ~Less(Score(v), Score(w))}

InCalls == cfg.scene = "calls" /\ UNCHANGED <<cfg, connVars>>

CallStep == InCalls /\ UNCHANGED <<now, reg, beat, handler>>

(* A worker that is alive registers itself; a dead one is not heard of.    *)
Report(w) ==
  /\ cfg.dynamic /\ w # Static
  /\ died[w] = <<>>
  /\ worker' = [worker EXCEPT ![w] = <<[active |-> Active(w), at |-> now]>>]
  /\ UNCHANGED <<fleetVars, callVars, died, ctlVars>>
  /\ InCalls

WorkerDies(w) ==
  /\ cfg.dynamic /\ w # Static
  /\ died[w] = <<>>
  /\ died' = [died EXCEPT ![w] = <<now>>]
  /\ UNCHANGED <<fleetVars, callVars, worker, ctlVars>>
  /\ InCalls

DeregisterWorker(w) ==
  /\ cfg.dynamic
  /\ worker' = [worker EXCEPT ![w] = <<>>]
  /\ UNCHANGED <<fleetVars, callVars, died, ctlVars>>
  /\ InCalls

-----------------------------------------------------------------------------
(* The handler of an ANSWER.                                               *)

(* count/max >= percent, in floating point: 0/0 is not, n/0 is.            *)
AtLeast(count, max, percent) ==
  IF max = 0 THEN count > 0 ELSE 100 * count >= percent * max

(* The handlers that have been let in and do not have everything yet.      *)
Between == {c \in Calls : pc[c] \in {"streams", "create", "start"}}

GoTo(c, step) ==
  /\ pc' = [pc EXCEPT ![c] = step]
  /\ crowd' = IF Cardinality(Between') > crowd THEN Cardinality(Between') ELSE crowd

Sessions(n) == load' = [load EXCEPT ![Self] = n] /\ Note

KeepSessions == UNCHANGED <<load, roomAt>>

SessionsBusy_Full == load[Self] >= Capacity
SessionsBusy == AtLeast(load[Self], Capacity, 90)

CheckSessions(c) ==
  /\ c \in cfg.calls /\ pc[c] = "idle" /\ ctl[c] = "none"
  /\ \A l \in Legs : stream[c][l] = <<>>
  /\ ~SessionsBusy
  /\ \E r \in Requests : req' = [req EXCEPT ![c] = r]
  /\ GoTo(c, "streams")
  /\ why' = [why EXCEPT ![c] = "none"]
  /\ used' = [used EXCEPT ![c] = <<>>]
  /\ UNCHANGED <<legs, stream, workerVars, ctl, client, made>>
  /\ KeepSessions /\ CallStep

(* The checks of the queue, of memory and of the ports, which could only    *)
(* refuse more, are left out.                                              *)
NoWorker == cfg.routing /\ ListFresh = {}

CheckStreams(c) ==
  /\ pc[c] = "streams"
  /\ GoTo(c, IF AtLeast(Streams, cfg.maxStreams, 95) \/ NoWorker THEN "idle" ELSE "create")
  /\ UNCHANGED <<req, legs, stream, why, workerVars, ctlVars>>
  /\ KeepSessions /\ CallStep

(* An admitted call is refused, and what it has is given back.             *)
Refuse(c, reason) ==
  /\ GoTo(c, "idle")
  /\ why' = [why EXCEPT ![c] = reason]
  /\ legs' = [legs EXCEPT ![c] = {}]
  /\ Sessions(load[Self] - Cardinality(legs[c]))
  /\ UNCHANGED <<req, stream, workerVars, ctlVars>>

Create(c) ==
  /\ pc[c] = "create"
  /\ CallStep
  /\ LET l == IF legs[c] = {} THEN "tcore" ELSE "taccess" IN
     IF load[Self] >= Capacity THEN Refuse(c, "sessions")
     ELSE /\ legs' = [legs EXCEPT ![c] = @ \cup {l}]
          /\ Sessions(load[Self] + 1)
          /\ GoTo(c, IF l = "tcore" THEN "create" ELSE "start")
          /\ UNCHANGED <<req, stream, why, workerVars, ctlVars>>

StreamsFull_Late == Streams > cfg.maxStreams
StreamsFull == Streams >= cfg.maxStreams

NextLeg(c) == IF stream[c]["tcore"] = <<>> THEN "tcore" ELSE "taccess"

StartFails(c) ==
  /\ pc[c] = "start"
  /\ CallStep
  /\ \/ StreamsFull /\ Refuse(c, "streams")
     \/ ~StreamsFull /\ cfg.routing /\ Suitable(req[c]) = {} /\ Refuse(c, "worker")
     \/ ~StreamsFull /\ cfg.routing /\ Suitable(req[c]) # {} /\ Refuse(c, "dial")

StartWorks(c) ==
  /\ pc[c] = "start"
  /\ ~StreamsFull
  /\ \E w \in IF cfg.routing THEN Suitable(req[c]) ELSE {Static} :
       stream' = [stream EXCEPT ![c][NextLeg(c)] = <<[worker |-> w, at |-> now]>>]
  /\ IF NextLeg(c) = "tcore" THEN UNCHANGED <<pc, crowd, ctlVars>>
     ELSE /\ GoTo(c, "up")
          /\ ctl' = [ctl EXCEPT ![c] = IF cfg.dcsf THEN "lookup" ELSE "none"]
          /\ UNCHANGED <<client, used, made>>
  /\ UNCHANGED <<req, legs, why, workerVars>>
  /\ KeepSessions /\ CallStep

(* The sessions of a call end; the manager forgets its streams later.      *)
EndLegs_One(c) ==
  /\ GoTo(c, "idle")
  /\ legs' = [legs EXCEPT ![c] = {}]
  /\ Sessions(load[Self] - 1)
  /\ UNCHANGED <<req, stream, why, workerVars>>
EndLegs(c) ==
  /\ GoTo(c, "idle")
  /\ legs' = [legs EXCEPT ![c] = {}]
  /\ Sessions(load[Self] - Cardinality(legs[c]))
  /\ UNCHANGED <<req, stream, why, workerVars>>

Delete(c) ==
  /\ pc[c] = "up"
  /\ CallStep
  /\ EndLegs(c)
  /\ UNCHANGED ctlVars

StreamEnds(c, l) ==
  /\ stream[c][l] # <<>> /\ l \notin legs[c]
  /\ stream' = [stream EXCEPT ![c][l] = <<>>]
  /\ UNCHANGED <<pc, req, legs, why, crowd, workerVars, ctlVars>>
  /\ KeepSessions /\ CallStep

-----------------------------------------------------------------------------
(* Call-control to the DCSF: clientFor and SendCallControl.                *)

CtlStep(c, step) ==
  /\ ctl' = [ctl EXCEPT ![c] = step]
  /\ CallStep

Lookup(c) ==
  /\ ctl[c] = "lookup"
  /\ CtlStep(c, IF client = <<>> THEN "make" ELSE "post")
  /\ used' = [used EXCEPT ![c] = client]
  /\ UNCHANGED <<callVars, workerVars, client, made>>
  /\ KeepSessions

Recheck_None == TRUE
Recheck == client = <<>>

Make(c) ==
  /\ ctl[c] = "make"
  /\ IF Recheck THEN client' = <<made + 1>> /\ made' = made + 1 ELSE UNCHANGED <<client, made>>
  /\ used' = [used EXCEPT ![c] = client']
  /\ CtlStep(c, "post")
  /\ UNCHANGED <<callVars, workerVars>>
  /\ KeepSessions

PostWorks(c) ==
  /\ ctl[c] = "post"
  /\ CtlStep(c, "none")
  /\ UNCHANGED <<callVars, workerVars, client, used, made>>
  /\ KeepSessions

PostFails(c) ==
  /\ ctl[c] = "post"
  /\ CtlStep(c, "none")
  /\ IF pc[c] = "up" THEN EndLegs(c) ELSE UNCHANGED <<callVars, workerVars>> /\ KeepSessions
  /\ UNCHANGED <<client, used, made>>

-----------------------------------------------------------------------------
(* The connection to the worker.  gRPC leaves Idle only for Connect or for *)
(* a call; a connection that fails is tried again by itself.               *)

InWatch ==
  /\ cfg.scene = "watch"
  /\ UNCHANGED <<fleetVars, cfg, callVars, workerVars, ctlVars>>

Network(from, to) ==
  /\ conn = from
  /\ conn' = to
  /\ UNCHANGED watch
  /\ InWatch

Fault(from, to) ==
  /\ drops < MaxDrops
  /\ drops' = drops + 1
  /\ Network(from, to)

Connected == Network("Connecting", "Ready") /\ UNCHANGED <<drops, missed>>
ConnectFails == Fault("Connecting", "TransientFailure") /\ UNCHANGED missed
TriedAgain == Network("TransientFailure", "Connecting") /\ UNCHANGED <<drops, missed>>
GoAway ==
  /\ Fault("Ready", "Idle")
  /\ missed' = (watch = [step |-> "waiting", seen |-> "Idle"])
CalledByStream == Fault("Idle", "Connecting") /\ missed' = FALSE

StartWatch ==
  /\ watch.step = "start"
  /\ watch' = [step |-> "waiting", seen |-> conn]
  /\ missed' = (conn = "Idle")
  /\ UNCHANGED <<conn, drops>>
  /\ InWatch

(* WaitForStateChange returns once the state is not the one seen.          *)
SeesChange ==
  /\ watch.step = "waiting"
  /\ conn # watch.seen
  /\ watch' = [watch EXCEPT !.step = "looking"]
  /\ UNCHANGED <<conn, drops, missed>>
  /\ InWatch

Look ==
  /\ watch.step = "looking"
  /\ watch' = [step |-> IF conn \in {"Idle", "TransientFailure"} THEN "connect" ELSE "waiting",
               seen |-> conn]
  /\ UNCHANGED <<conn, drops, missed>>
  /\ InWatch

AfterConnect_Nothing == conn
AfterConnect == IF conn = "Idle" THEN "Connecting" ELSE conn

Connect ==
  /\ watch.step = "connect"
  /\ conn' = AfterConnect
  /\ watch' = [watch EXCEPT !.step = "waiting"]
  /\ UNCHANGED <<drops, missed>>
  /\ InWatch

-----------------------------------------------------------------------------

FleetStep == cfg.scene = "fleet" /\ FleetNext /\ UNCHANGED <<cfg, callVars, workerVars, ctlVars, connVars>>

ClockStep == cfg.scene = "calls" /\ cfg.dynamic /\ Tick
             /\ UNCHANGED <<cfg, callVars, workerVars, ctlVars, connVars>>

CallNext ==
  \/ \E w \in Workers : Report(w) \/ WorkerDies(w) \/ DeregisterWorker(w)
  \/ \E c \in Calls :
       \/ CheckSessions(c) \/ CheckStreams(c) \/ Create(c)
       \/ StartFails(c) \/ StartWorks(c) \/ Delete(c)
       \/ \E l \in Legs : StreamEnds(c, l)
       \/ Lookup(c) \/ Make(c) \/ PostWorks(c) \/ PostFails(c)

WatchNext ==
  \/ Connected \/ ConnectFails \/ TriedAgain \/ GoAway \/ CalledByStream
  \/ StartWatch \/ SeesChange \/ Look \/ Connect

Next == FleetStep \/ ClockStep \/ CallNext \/ WatchNext

(* gRPC's own steps go on, and the goroutine of the watch is scheduled.    *)
Spec ==
  Init /\ [][Next]_vars
  /\ WF_vars(Connected \/ TriedAgain \/ StartWatch \/ SeesChange \/ Look \/ Connect)

-----------------------------------------------------------------------------
(* Properties.                                                             *)

TypeOK ==
  /\ FleetTypeOK
  /\ load[Self] = cfg.sessions + Cardinality({s \in Calls \X Legs : s[2] \in legs[s[1]]})
     \/ cfg.scene = "fleet"
  /\ pc \in [Calls -> {"idle", "streams", "create", "start", "up"}]
  /\ req \in [Calls -> Requests] /\ legs \in [Calls -> SUBSET Legs]
  /\ why \in [Calls -> {"none", "sessions", "streams", "worker", "dial"}]
  /\ crowd \in Nat
  /\ ctl \in [Calls -> {"none", "lookup", "make", "post"}]
  /\ conn \in {"Idle", "Connecting", "Ready", "TransientFailure"}
  /\ watch.step \in {"start", "waiting", "looking", "connect"}

(* Nothing is taken at the check, so handlers between check and use may    *)
(* want more than the check keeps back: crowd is the most that have been   *)
(* there at once, and each of them wants two sessions and two streams.     *)
Crowded(max, percent) == 100 * 2 * crowd > (100 - percent) * max

(* A call that passed admission is refused for want of a session or of an  *)
(* AI stream only once so many handlers have been between check and use at *)
(* the same time that they want more than the tenth of the sessions, the   *)
(* twentieth of the streams that the checks keep back; with the one worker *)
(* of the configuration it always finds that worker.                       *)
AdmittedFindsRoom ==
  \A c \in Calls : /\ why[c] = "sessions" => Crowded(Capacity, 90)
                   /\ why[c] = "streams" => Crowded(cfg.maxStreams, 95)
                   /\ why[c] = "worker" => cfg.dynamic

(* The static worker never has more streams than its MaxStreams, though    *)
(* the gateway never tells its registry about the streams it has opened.   *)
WithinLimits == ~cfg.dynamic => cfg.others + Active(Static) <= Limit(Static)

(* A worker only gets streams it can serve, and none later than the TTL    *)
(* after it died.                                                          *)
RoutedToTheLiving ==
  \A c \in Calls, l \in Legs :
    stream[c][l] # <<>> =>
      LET s == stream[c][l][1] IN
        /\ cfg.routing => Supports(s.worker, req[c])
        /\ cfg.ttl > 0 /\ died[s.worker] # <<>> => s.at <= died[s.worker][1] + cfg.ttl

(* All calls to a DCSF host share one client, so one connection, also when *)
(* two calls are the first to name the host.                               *)
OneClientPerHost ==
  \A c \in Calls : used[c] # <<>> => used[c] = client

(* Once the network leaves it alone the connection ends up ready without a *)
(* session to ask for it, except after an Idle that the watch cannot tell  *)
(* from the one it saw before, or that it started with.                    *)
ConnectionSettles ==
  <>[](cfg.scene = "watch" => conn = "Ready" \/ (conn = "Idle" /\ missed))

(* What holds of the calls at any moment, however they overlap: Create and Open *)
(* keep their limits, and RoutingDialer sends no stream to a worker that cannot *)
(* serve it.                                                                    *)
AdmissionInv == TypeOK /\ WithinLimits /\ RoutedToTheLiving
=============================================================================
