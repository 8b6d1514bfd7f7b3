----------------------------- MODULE CallControl -----------------------------
(***************************************************************************)
(* internal/controlplane and internal/ingress/rawrtp: the life of a call.  *)
(*                                                                         *)
(* An ANSWER creates two sessions, {call}-tcore and {call}-taccess, takes  *)
(* two UDP ports from the allocator's stack, binds a listener to each and  *)
(* starts the two pipelines; any step may fail, and the handler then gives *)
(* back what it holds and closes, by ID, the sessions of the call.  A      *)
(* DELETE closes both legs by ID, and so does the goroutine that sends     *)
(* call-control when the peer refuses it; the idle collector closes one    *)
(* leg.  Handlers run concurrently, one goroutine per request, and a Close *)
(* is two steps: the session leaves the manager's map, then its context is *)
(* cancelled.  A listener gives its port back after its socket is closed.  *)
(*                                                                         *)
(* Coordinator.Start appears here by its outcome only; Coordinator models  *)
(* what it does.                                                           *)
(*                                                                         *)
(* A definition X_Bug is X with a bug that the runs are known to find; no  *)
(* action uses it.                                                         *)
(***************************************************************************)
EXTENDS SessionStore, Sequences, SequencesExt

CONSTANTS
  Calls,        \* call IDs
  Answers,      \* notify-event ANSWER requests, each handled once
  Deletes,      \* DELETE requests, each handled once
  Ports         \* the port range of the allocator

Legs == {"tcore", "taccess"}

ASSUME CallAssumption ==
  /\ IDs = Calls \X Legs
  /\ None \notin Ports \cup Calls
  /\ Answers \cap Deletes = {}
  /\ IsFiniteSet(Ports)

VARIABLES
  free,         \* PortAllocator.free, a stack: the last port is taken first
  pc,           \* progress of each ANSWER
  call,         \* callId of each ANSWER and DELETE begun
  leg,          \* the two sessions an ANSWER has created
  others,       \* the ports that calls outside the model hold
  held,         \* the ports an ANSWER holds and no listener owns
  sock,         \* the socket of each session's listener
  port,         \* the port of each session's listener
  toClose,      \* the IDs a handler has yet to close
  closing,      \* the session whose Close a handler is executing
  served,       \* DELETE: has one of the two Close calls found a session
  past          \* a record of the past, which no action reads: see PastAfter

Handlers == Answers \cup Deletes

portVars == <<free, others, held, sock, port>>
handlerVars == <<pc, call, leg>>
closeVars == <<toClose, closing, served>>
vars == <<storeVars, portVars, handlerVars, closeVars, past>>

AnswerSteps == {"idle", "tcore", "taccess", "port1", "port2", "bind1", "bind2",
                "start1", "start2", "ok", "give1", "give2", "undo", "refused"}

TypeOK ==
  /\ stage \in [Objs -> Stages]
  /\ sid \in [Objs -> IDs \cup {None}]
  /\ free \in Seq(Ports) /\ others \subseteq Ports
  /\ pc \in [Answers -> AnswerSteps]
  /\ call \in [Handlers -> Calls \cup {None}]
  /\ leg \in [Answers -> [Legs -> Objs \cup {None}]]
  /\ held \in [Answers -> [Legs -> Ports \cup {None}]]
  /\ sock \in [Objs -> {"none", "open", "closed", "released"}]
  /\ port \in [Objs -> Ports \cup {None}]
  /\ toClose \in [Handlers -> Seq(IDs)]
  /\ closing \in [Handlers -> Objs \cup {None}]
  /\ served \in [Deletes -> BOOLEAN]
  /\ past \in [busy : BOOLEAN, orderly : BOOLEAN]

Init ==
  /\ StoreInit
  /\ others \in SUBSET Ports
  /\ free = SetToSeq(Ports \ others)
  /\ pc = [a \in Answers |-> "idle"]
  /\ call = [h \in Handlers |-> None]
  /\ leg = [a \in Answers |-> [l \in Legs |-> None]]
  /\ held = [a \in Answers |-> [l \in Legs |-> None]]
  /\ sock = [o \in Objs |-> "none"]
  /\ port = [o \in Objs |-> None]
  /\ toClose = [h \in Handlers |-> <<>>]
  /\ closing = [h \in Handlers |-> None]
  /\ served = [d \in Deletes |-> FALSE]
  /\ past = [busy |-> TRUE, orderly |-> TRUE]

-----------------------------------------------------------------------------
(* Close(id), called by a handler: it returns once the context is cancelled. *)

Returned(h) == closing[h] # None => stage[closing[h]] = "ended"

FirstLeg_Both(c) == << <<c, "tcore">>, <<c, "taccess">> >>
FirstLeg(c) == << <<c, "tcore">> >>

BothLegs_TAccess(c) == << <<c, "taccess">> >>
BothLegs(c) == << <<c, "tcore">>, <<c, "taccess">> >>

OpenWith(i) == {o \in OpenSessions : sid[o] = i}

CloseNext(h) ==
  LET found == OpenWith(Head(toClose[h])) IN
  /\ toClose[h] # <<>>
  /\ Returned(h)
  /\ toClose' = [toClose EXCEPT ![h] = Tail(@)]
  /\ \/ \E o \in found :
          /\ Unlink(o)
          /\ closing' = [closing EXCEPT ![h] = o]
     \/ /\ found = {}
        /\ closing' = [closing EXCEPT ![h] = None]
        /\ UNCHANGED storeVars
  /\ served' = [d \in Deletes |-> served[d] \/ (d = h /\ found # {})]
  /\ UNCHANGED <<portVars, handlerVars>>

CloseEnds(o) ==
  /\ End(o)
  /\ UNCHANGED <<portVars, handlerVars, closeVars>>

(* gc closes a session that has been idle for too long, whatever its call does. *)
GCCloses(o) ==
  /\ Unlink(o)
  /\ UNCHANGED <<portVars, handlerVars, closeVars>>

-----------------------------------------------------------------------------
(* handleAnswer.                                                           *)

GoTo(a, step) == pc' = [pc EXCEPT ![a] = step]

(* Which of the requests comes first is only a matter of names.            *)
Answer(a, c) ==
  /\ pc[a] = "idle" /\ a = CHOOSE b \in Answers : pc[b] = "idle"
  /\ call' = [call EXCEPT ![a] = c]
  /\ GoTo(a, "tcore")
  /\ UNCHANGED <<storeVars, portVars, leg, closeVars>>

(* The rollback of a failed step: close the legs named. *)
Undo(a, ids) ==
  /\ GoTo(a, "undo")
  /\ toClose' = [toClose EXCEPT ![a] = ids]
  /\ UNCHANGED <<call, leg, closing, served>>

CanCreate(i) == Cardinality(OpenSessions) < MaxSessions /\ OpenWith(i) = {}

(* Which of the unused objects a Create makes is only a matter of names.   *)
Unused == CHOOSE o \in Objs : stage[o] = "absent"

CreateTCore(a) ==
  LET i == <<call[a], "tcore">> IN
  /\ pc[a] = "tcore"
  /\ \/ \E o \in Objs :
          /\ Allocate(o, i) /\ o = Unused
          /\ leg' = [leg EXCEPT ![a]["tcore"] = o]
          /\ GoTo(a, "taccess")
     \/ /\ ~CanCreate(i)                        \* ErrDuplicateID, ErrMaxSessions
        /\ GoTo(a, "refused")
        /\ UNCHANGED <<storeVars, leg>>
  /\ UNCHANGED <<portVars, call, closeVars>>

CreateTAccess(a) ==
  LET i == <<call[a], "taccess">> IN
  /\ pc[a] = "taccess"
  /\ \/ \E o \in Objs :
          /\ Allocate(o, i) /\ o = Unused
          /\ leg' = [leg EXCEPT ![a]["taccess"] = o]
          /\ GoTo(a, "port1")
          /\ UNCHANGED <<call, closeVars>>
     \/ /\ ~CanCreate(i)
        /\ Undo(a, FirstLeg(call[a]))
        /\ UNCHANGED storeVars
  /\ UNCHANGED portVars

(* PortAllocator.Acquire, for a leg of the call. *)
Acquire(a, l) ==
  /\ free # <<>>
  /\ held' = [held EXCEPT ![a][l] = Last(free)]
  /\ free' = Front(free)
  /\ UNCHANGED <<others, sock, port>>

(* PortAllocator.Release, by the handler. *)
GiveBack(a, l) ==
  /\ free' = Append(free, held[a][l])
  /\ held' = [held EXCEPT ![a][l] = None]
  /\ UNCHANGED <<others, sock, port>>

TakePort1(a) ==
  /\ pc[a] = "port1"
  /\ \/ /\ Acquire(a, "tcore")
        /\ GoTo(a, "port2")
        /\ UNCHANGED <<call, leg, closeVars>>
     \/ /\ free = <<>>                          \* ErrNoPortsAvailable
        /\ Undo(a, BothLegs(call[a]))
        /\ UNCHANGED portVars
  /\ UNCHANGED storeVars

TakePort2(a) ==
  /\ pc[a] = "port2"
  /\ \/ Acquire(a, "taccess") /\ GoTo(a, "bind1")
     \/ free = <<>> /\ GoTo(a, "give1") /\ UNCHANGED portVars
  /\ UNCHANGED <<storeVars, call, leg, closeVars>>

(* StartSessionListener for a leg: bind, then the listener owns the port. *)
Bind(a, l) ==
  LET o == leg[a][l]
      p == held[a][l]
  IN
  /\ \A q \in Objs : ~(sock[q] = "open" /\ port[q] = p)
  /\ sock' = [sock EXCEPT ![o] = "open"]
  /\ port' = [port EXCEPT ![o] = p]
  /\ held' = [held EXCEPT ![a][l] = None]
  /\ UNCHANGED <<free, others>>

BindTCore(a) ==
  /\ pc[a] = "bind1"
  /\ \/ Bind(a, "tcore") /\ GoTo(a, "bind2")
     \/ GoTo(a, "give1") /\ UNCHANGED portVars
  /\ UNCHANGED <<storeVars, call, leg, closeVars>>

BindTAccess_Ignored(a) ==
  /\ pc[a] = "bind2"
  /\ \/ Bind(a, "taccess") /\ GoTo(a, "start1")
     \/ GoTo(a, "start1") /\ UNCHANGED portVars
  /\ UNCHANGED <<storeVars, call, leg, closeVars>>

BindTAccess(a) ==
  /\ pc[a] = "bind2"
  /\ \/ Bind(a, "taccess") /\ GoTo(a, "start1")
     \/ GoTo(a, "give2") /\ UNCHANGED portVars
  /\ UNCHANGED <<storeVars, call, leg, closeVars>>

(* The handler releases the ports that no listener owns, tcore's first.    *)
GiveTCore_Only(a) ==
  /\ pc[a] = "give1"
  /\ GiveBack(a, "tcore")
  /\ Undo(a, BothLegs(call[a]))
  /\ UNCHANGED storeVars

GiveTCore_Always2(a) ==
  /\ pc[a] = "give1"
  /\ GiveBack(a, "tcore")
  /\ GoTo(a, "give2")
  /\ UNCHANGED <<storeVars, call, leg, closeVars>>

GiveTCore(a) ==
  /\ pc[a] = "give1"
  /\ GiveBack(a, "tcore")
  /\ \/ held[a]["taccess"] # None /\ GoTo(a, "give2") /\ UNCHANGED <<call, leg, closeVars>>
     \/ held[a]["taccess"] = None /\ Undo(a, BothLegs(call[a]))
  /\ UNCHANGED storeVars

GiveTAccess(a) ==
  /\ pc[a] = "give2"
  /\ GiveBack(a, "taccess")
  /\ Undo(a, BothLegs(call[a]))
  /\ UNCHANGED storeVars

(* Coordinator.Start on each leg, and the response.                        *)
StartTCore(a) ==
  /\ pc[a] = "start1"
  /\ \/ GoTo(a, "start2") /\ UNCHANGED <<call, leg, closeVars>>
     \/ Undo(a, BothLegs(call[a]))
  /\ UNCHANGED <<storeVars, portVars>>

StartTAccess(a) ==
  /\ pc[a] = "start2"
  /\ \/ GoTo(a, "ok") /\ UNCHANGED <<call, leg, closeVars>>
     \/ Undo(a, BothLegs(call[a]))
  /\ UNCHANGED <<storeVars, portVars>>

Refuse(a) ==
  /\ pc[a] = "undo"
  /\ toClose[a] = <<>>
  /\ Returned(a)
  /\ GoTo(a, "refused")
  /\ UNCHANGED <<storeVars, portVars, call, leg, closeVars>>

(* The call-control goroutine of an answered call, at any later time: the  *)
(* request failed, and the call is released.                               *)
CallControlFails(a) ==
  /\ pc[a] = "ok"
  /\ Undo(a, BothLegs(call[a]))
  /\ UNCHANGED <<storeVars, portVars>>

-----------------------------------------------------------------------------
(* deleteCallSession.                                                      *)

Delete(d, c) ==
  /\ call[d] = None
  /\ call' = [call EXCEPT ![d] = c]
  /\ toClose' = [toClose EXCEPT ![d] = BothLegs(c)]
  /\ UNCHANGED <<storeVars, portVars, pc, leg, closing, served>>

-----------------------------------------------------------------------------
(* The goroutines of a listener: its socket is closed when the context is  *)
(* done, or by the reader when a read fails; the reader then releases.     *)

SocketCloses(o) ==
  /\ sock[o] = "open"
  /\ sock' = [sock EXCEPT ![o] = "closed"]
  /\ UNCHANGED <<storeVars, free, others, held, port, handlerVars, closeVars>>

ReleasePort(o) ==
  /\ sock[o] = "closed"
  /\ sock' = [sock EXCEPT ![o] = "released"]
  /\ free' = Append(free, port[o])
  /\ UNCHANGED <<storeVars, others, held, port, handlerVars, closeVars>>

-----------------------------------------------------------------------------

AnswerStep(a) ==
  \/ CreateTCore(a) \/ CreateTAccess(a) \/ TakePort1(a) \/ TakePort2(a)
  \/ BindTCore(a) \/ BindTAccess(a) \/ GiveTCore(a) \/ GiveTAccess(a)
  \/ StartTCore(a) \/ StartTAccess(a) \/ Refuse(a)

ListenerStep(o) == SocketCloses(o) \/ ReleasePort(o)

Step ==
  \/ \E a \in Answers : \/ \E c \in Calls : Answer(a, c)
                        \/ AnswerStep(a)
                        \/ CallControlFails(a)
  \/ \E d \in Deletes, c \in Calls : Delete(d, c)
  \/ \E h \in Handlers : CloseNext(h)
  \/ \E o \in Objs : CloseEnds(o) \/ GCCloses(o) \/ ListenerStep(o)

Deleting(d) == toClose[d] # <<>> \/ ~Returned(d)

(* What has happened so far: was no session idle for so long that gc closed it *)
(* (every session unlinked is being closed by a handler), and has the peer had *)
(* one request about a call at a time, no DELETE while an ANSWER was setting   *)
(* the call up?                                                                *)
PastAfter ==
  past' = [busy |-> past.busy /\
             \A o \in Objs : stage[o] = "unlinked" => \E h \in Handlers : closing[h] = o,
           orderly |-> past.orderly /\
             \A d \in Deletes, a \in Answers :
               Deleting(d) /\ call[a] = call[d] => pc[a] \in {"ok", "undo", "refused"}]

Next == Step /\ PastAfter

Spec == Init /\ [][Next]_vars

(* A handler begun runs to its end, a Close in progress cancels, and the       *)
(* listener of an ended session sees its context done.  Nothing obliges a peer *)
(* to send a request, a session to become idle or a read to fail.  One         *)
(* condition for all is enough: every request and session lives once.          *)
FairStep ==
  \/ \E a \in Answers : AnswerStep(a)
  \/ \E h \in Handlers : CloseNext(h)
  \/ \E o \in Objs : \/ CloseEnds(o) \/ ReleasePort(o)
                     \/ stage[o] = "ended" /\ SocketCloses(o)

FairSpec == Spec /\ WF_vars(FairStep /\ PastAfter)

-----------------------------------------------------------------------------
(* Properties.                                                             *)

(* The steps at which an ANSWER answers for the ports it holds.                *)
Holding == {"port2", "bind1", "bind2", "give1", "give2"}

(* Who has a port: the allocator's stack, an ANSWER in progress, a listener.   *)
PortOwners(p) ==
  {<<"another call">> : k \in others \cap {p}} \cup
  {<<"free", k>> : k \in {j \in DOMAIN free : free[j] = p}} \cup
  {<<"handler", al[1], al[2]>> : al \in {x \in Answers \X Legs :
                          pc[x[1]] \in Holding /\ held[x[1]][x[2]] = p}} \cup
  {<<"listener", o>> : o \in {q \in Objs : sock[q] \in {"open", "closed"} /\ port[q] = p}}

(* No port is lost and none is handed out twice: each has exactly one owner,   *)
(* at every point of every rollback and whoever closes the sessions.  So a port*)
(* that can be acquired has no socket of the gateway on it, and the listeners  *)
(* of two calls never share one.                                               *)
PortsConserved == \A p \in Ports : Cardinality(PortOwners(p)) = 1

(* An ANSWER that was answered 200 has a listener for each of its legs, on     *)
(* different ports, from the sessions it created for this call.                *)
AnsweredHasTwoLegs ==
  \A a \in Answers :
    pc[a] = "ok" =>
      /\ \A l \in Legs : /\ leg[a][l] # None
                         /\ sid[leg[a][l]] = <<call[a], l>>
                         /\ sock[leg[a][l]] # "none"
      /\ (\A l \in Legs : sock[leg[a][l]] = "open") =>
           port[leg[a]["tcore"]] # port[leg[a]["taccess"]]

CreatedBy(a) == {leg[a][l] : l \in Legs} \ {None}

(* A refused or released ANSWER leaves nothing behind, whichever step failed   *)
(* and whatever closed its sessions meanwhile: both its sessions end, and the  *)
(* ports it took come back to the allocator.                                   *)
RefusedLeavesNothing ==
  <>[]\A a \in Answers :
        pc[a] \in {"undo", "refused"} =>
          /\ \A l \in Legs : held[a][l] = None
          /\ \A o \in CreatedBy(a) : stage[o] = "ended" /\ sock[o] \in {"none", "released"}

(* The legs of a call for which no ANSWER is in progress and none is answered. *)
Abandoned(c) ==
  \A a \in Answers : call[a] = c => pc[a] = "refused"

(* No session outlives the requests that made it: once every ANSWER of a call  *)
(* was refused or released, no leg of that call is open, so that a retry of    *)
(* the ANSWER is not refused as a duplicate.                                   *)
NoStrayLeg ==
  \A c \in Calls : Abandoned(c) => \A l \in Legs : OpenWith(<<c, l>>) = {}

(* What 7.4 of the design says of DELETE: it closes both sessions of the call. *)
(* When a DELETE that found the call has returned, and the only ANSWER of the  *)
(* call has too, no leg of the call is open.                                   *)
DeleteClosesBoth ==
  \A d \in Deletes, a \in Answers :
    /\ past.orderly
    /\ served[d] /\ toClose[d] = <<>>
    /\ pc[a] = "ok" /\ call[a] = call[d]
    /\ \A b \in Answers : call[b] = call[d] => b = a
    => \A l \in Legs : OpenWith(<<call[d], l>>) = {}

(* A handler that rolls back, or releases a call after call-control failed,    *)
(* closes sessions by ID: where neither gc nor a DELETE of the call closes any,*)
(* those it closes are the ones it created, even when the same call is         *)
(* answered again at the same time.                                            *)
ClosesOwn ==
  \A a \in Answers :
    past.busy /\ closing[a] # None /\ (\A d \in Deletes : call[d] # call[a])
    => closing[a] \in CreatedBy(a)

(* What holds of the legs of a call at any moment: an answered call has both, a     *)
(* refused one keeps none, a DELETE after the ANSWER has closed both, and rollbacks *)
(* by ID close only the handler's own.                                              *)
CallControlInv == TypeOK /\ AnsweredHasTwoLegs /\ NoStrayLeg /\ DeleteClosesBoth /\ ClosesOwn
=============================================================================
