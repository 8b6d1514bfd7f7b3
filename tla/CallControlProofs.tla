------------------------- MODULE CallControlProofs -------------------------
(***************************************************************************)
(* Proofs about CallControl: the legs of a call, the ports it holds and    *)
(* what a handler closes, for any number of calls, requests, sessions and  *)
(* ports.                                                                  *)
(***************************************************************************)
EXTENDS CallControl, FiniteSetTheorems, SequenceTheorems, TLAPS

-----------------------------------------------------------------------------
(* The inductive invariant.                                                *)

(* The steps at which an ANSWER has both its legs, and has not given up.   *)
HasBoth == {"port1", "port2", "bind1", "bind2", "start1", "start2", "ok", "give1", "give2"}
Over == {"undo", "refused"}

(* An ANSWER has a call once it has begun, and its legs, once made, are    *)
(* sessions of that call.                                                  *)
LegsMade ==
  \A a \in Answers :
    /\ pc[a] = "idle" <=> call[a] = None
    /\ pc[a] \in {"idle", "tcore"} => \A l \in Legs : leg[a][l] = None
    /\ pc[a] = "taccess" => leg[a]["tcore"] # None /\ leg[a]["taccess"] = None
    /\ pc[a] \in HasBoth => \A l \in Legs : leg[a][l] # None
    /\ \A l \in Legs : leg[a][l] # None => /\ stage[leg[a][l]] # "absent"
                                           /\ sid[leg[a][l]] = <<call[a], l>>

(* No session is the leg of two ANSWERs, or both legs of one.              *)
LegsDiffer ==
  \A a, b \in Answers : \A l, m \in Legs :
    leg[a][l] # None /\ leg[a][l] = leg[b][m] => a = b /\ l = m

(* The manager's map has one session for an ID.                            *)
OneOpen == \A o, p \in OpenSessions : sid[o] = sid[p] => o = p

(* Leg l is still on the handler's list of sessions to close.              *)
On(q, c, l) == \E k \in DOMAIN q : q[k] = <<c, l>>
Waiting(h, l) == On(toClose[h], call[h], l)

(* The lists a handler of call c closes from: what is left of both legs, or*)
(* of the first.                                                           *)
Lists(c) == {<<>>, << <<c, "tcore">> >>, << <<c, "taccess">> >>,
             << <<c, "tcore">>, <<c, "taccess">> >>}

(* A handler closes legs of its own call, an ANSWER only those it made and *)
(* only while it undoes; what it is closing has left the map.              *)
Closes ==
  /\ \A h \in Handlers : toClose[h] \in Lists(call[h])
  /\ \A h \in Handlers : toClose[h] # <<>> \/ closing[h] # None => call[h] # None
  /\ \A h \in Handlers : closing[h] # None => stage[closing[h]] \in {"unlinked", "ended"}
  /\ \A a \in Answers : pc[a] # "undo" => toClose[a] = <<>>
  /\ \A a \in Answers : \A l \in Legs : Waiting(a, l) => leg[a][l] # None

(* A session in the map is a leg of an ANSWER that has not given up, or has*)
(* yet to close it.                                                        *)
Owned ==
  \A o \in OpenSessions : \E a \in Answers : \E l \in Legs :
    leg[a][l] = o /\ (pc[a] \notin Over \/ Waiting(a, l))

(* Every session that has left the map is being closed by a handler.       *)
BusyNow ==
  /\ past.busy
  /\ \A o \in Objs : stage[o] = "unlinked" => \E h \in Handlers : closing[h] = o

NotDeleted(a) == \A d \in Deletes : call[d] # call[a]

(* Where gc has closed nothing and no DELETE names the call, the legs of an*)
(* ANSWER are open until it closes them.                                   *)
Kept ==
  BusyNow =>
    \A a \in Answers : \A l \in Legs :
      leg[a][l] # None /\ NotDeleted(a) /\ (pc[a] \notin Over \/ Waiting(a, l))
        => stage[leg[a][l]] = "open"

(* The requests about a call came one at a time, this state included.      *)
OrderlyNow ==
  /\ past.orderly
  /\ \A d \in Deletes, a \in Answers :
       Deleting(d) /\ call[a] = call[d] => pc[a] \in {"ok", "undo", "refused"}

(* A DELETE that found a session of the call came after an ANSWER of it.   *)
Found ==
  past.orderly =>
    \A d \in Deletes : served[d] =>
      \E b \in Answers : call[b] = call[d] /\ pc[b] \in {"ok", "undo", "refused"}

(* While the only ANSWER of a call stands, the legs that a DELETE has taken*)
(* off its list are not in the map.                                        *)
Deleted ==
  past.orderly =>
    \A d \in Deletes, a \in Answers :
      /\ call[d] # None /\ call[a] = call[d] /\ pc[a] = "ok"
      /\ \A b \in Answers : call[b] = call[d] => b = a
      /\ toClose[d] # <<>> \/ served[d]
      => \A l \in Legs : ~Waiting(d, l) => OpenWith(<<call[d], l>>) = {}

(* The steps at which an ANSWER holds ports, by leg.                       *)
Holds ==
  \A a \in Answers :
    /\ held[a]["tcore"] # None <=> pc[a] \in {"port2", "bind1", "give1"}
    /\ held[a]["taccess"] # None => pc[a] \in {"bind1", "bind2", "give1", "give2"}
    /\ pc[a] \in {"bind1", "bind2", "give2"} => held[a]["taccess"] # None

(* A session gets one listener, from the ANSWER that made it.              *)
Sockets ==
  /\ \A o \in Objs : stage[o] = "absent" => sock[o] = "none"
  /\ \A o \in Objs : sock[o] # "none" => port[o] # None
  /\ \A a \in Answers :
       /\ pc[a] \in {"taccess", "port1", "port2", "bind1"} => sock[leg[a]["tcore"]] = "none"
       /\ pc[a] \in {"port1", "port2", "bind1", "bind2"} => sock[leg[a]["taccess"]] = "none"
       /\ pc[a] \in {"bind2", "start1", "start2", "ok"} => sock[leg[a]["tcore"]] # "none"
       /\ pc[a] \in {"start1", "start2", "ok"} => sock[leg[a]["taccess"]] # "none"

InFree(p, k) == k \in DOMAIN free /\ free[k] = p
HeldBy(p, a, l) == held[a][l] = p
Listening(p, o) == sock[o] \in {"open", "closed"} /\ port[o] = p

(* A port is with another call, in the stack, with an ANSWER or with a     *)
(* listener, and at one place only.                                        *)
HasOwner(p) ==
  \/ p \in others
  \/ \E k \in Nat : InFree(p, k)
  \/ \E a \in Answers : \E l \in Legs : HeldBy(p, a, l)
  \/ \E o \in Objs : Listening(p, o)

NoOther(p) ==
  /\ p \in others => /\ \A k \in Nat : ~InFree(p, k)
                     /\ \A a \in Answers : \A l \in Legs : ~HeldBy(p, a, l)
                     /\ \A o \in Objs : ~Listening(p, o)
  /\ \A k \in Nat : InFree(p, k) =>
       /\ \A j \in Nat : InFree(p, j) => j = k
       /\ \A a \in Answers : \A l \in Legs : ~HeldBy(p, a, l)
       /\ \A o \in Objs : ~Listening(p, o)
  /\ \A a \in Answers : \A l \in Legs : HeldBy(p, a, l) =>
       /\ \A b \in Answers : \A m \in Legs : HeldBy(p, b, m) => b = a /\ m = l
       /\ \A o \in Objs : ~Listening(p, o)
  /\ \A o \in Objs : Listening(p, o) => \A q \in Objs : Listening(p, q) => q = o

OneOwner == \A p \in Ports : HasOwner(p) /\ NoOther(p)

CallIInv ==
  /\ TypeOK /\ LegsMade /\ LegsDiffer /\ OneOpen /\ Closes /\ Owned
  /\ Kept /\ ClosesOwn /\ Found /\ Deleted

IInv == CallIInv /\ Holds /\ Sockets /\ OneOwner

-----------------------------------------------------------------------------
(* The types.                                                              *)

(* The components of the type invariant.                                   *)
LEMMA TypeParts ==
  ASSUME TypeOK
  PROVE  /\ stage \in [Objs -> Stages] /\ sid \in [Objs -> IDs \cup {None}]
         /\ free \in Seq(Ports) /\ others \subseteq Ports
         /\ pc \in [Answers -> AnswerSteps] /\ call \in [Handlers -> Calls \cup {None}]
         /\ leg \in [Answers -> [Legs -> Objs \cup {None}]]
         /\ held \in [Answers -> [Legs -> Ports \cup {None}]]
         /\ sock \in [Objs -> {"none", "open", "closed", "released"}]
         /\ port \in [Objs -> Ports \cup {None}]
         /\ toClose \in [Handlers -> Seq(IDs)] /\ closing \in [Handlers -> Objs \cup {None}]
         /\ served \in [Deletes -> BOOLEAN] /\ past \in [busy : BOOLEAN, orderly : BOOLEAN]
BY DEF TypeOK

(* A leg of a call is a session ID, and so are the elements of the lists.  *)
LEMMA ListsTyped ==
  ASSUME NEW c \in Calls
  PROVE  /\ \A l \in Legs : <<c, l>> \in IDs
         /\ FirstLeg(c) \in Seq(IDs) /\ BothLegs(c) \in Seq(IDs)
<1>1. \A l \in Legs : <<c, l>> \in IDs
  BY CallAssumption
<1>2. <<c, "tcore">> \in IDs /\ <<c, "taccess">> \in IDs
  BY <1>1 DEF Legs
<1> QED
  BY <1>1, <1>2 DEF FirstLeg, BothLegs

(* Taking the last port of the stack, and giving one back.                 *)
LEMMA StackMoves ==
  ASSUME free \in Seq(Ports)
  PROVE  /\ free # <<>> => Last(free) \in Ports /\ Front(free) \in Seq(Ports)
         /\ \A p \in Ports : Append(free, p) \in Seq(Ports)
<1>1. ASSUME free # <<>> PROVE Last(free) \in Ports /\ Front(free) \in Seq(Ports)
  <2>1. Len(free) \in Nat /\ Len(free) > 0 /\ DOMAIN free = 1..Len(free)
    BY <1>1, EmptySeq, LenProperties
  <2>2. Last(free) \in Ports
    BY <2>1 DEF Last
  <2>3. Front(free) \in Seq(Ports)
    BY <2>1, SubSeqProperties DEF Front
  <2> QED
    BY <2>2, <2>3
<1> QED
  BY <1>1

(* The types of the ports' variables.                                      *)
PortTypes ==
  /\ free \in Seq(Ports) /\ others \subseteq Ports
  /\ held \in [Answers -> [Legs -> Ports \cup {None}]]
  /\ sock \in [Objs -> {"none", "open", "closed", "released"}]
  /\ port \in [Objs -> Ports \cup {None}]

(* An ANSWER's dealings with the allocator and with listeners keep them.   *)
LEMMA DealsTyped ==
  ASSUME TypeOK, NEW a \in Answers, NEW l \in Legs,
         Acquire(a, l) \/ (GiveBack(a, l) /\ held[a][l] # None) \/ Bind(a, l)
  PROVE  PortTypes'
<1>1. CASE Acquire(a, l)
  <2>1. Last(free) \in Ports /\ Front(free) \in Seq(Ports)
    BY <1>1, TypeParts, StackMoves DEF Acquire
  <2> QED
    BY <1>1, <2>1, TypeParts DEF Acquire, PortTypes
<1>2. CASE GiveBack(a, l) /\ held[a][l] # None
  <2>1. held[a][l] \in Ports
    BY <1>2, TypeParts
  <2>2. free' \in Seq(Ports)
    BY <1>2, <2>1, TypeParts, StackMoves DEF GiveBack
  <2> QED
    BY <1>2, <2>2, TypeParts DEF GiveBack, PortTypes
<1>3. CASE Bind(a, l)
  <2>1. held[a][l] \in Ports \cup {None}
    BY TypeParts
  <2> QED
    BY <1>3, <2>1, TypeParts DEF Bind, PortTypes
<1> QED
  BY <1>1, <1>2, <1>3

-----------------------------------------------------------------------------
(* The steps, by what they do to the sessions and to the handlers.  What   *)
(* they do to ports is left out: see Deals.                                *)

(* An ANSWER begins.                                                       *)
Begun(a, c) ==
  /\ pc[a] = "idle"
  /\ call' = [call EXCEPT ![a] = c]
  /\ GoTo(a, "tcore")
  /\ UNCHANGED <<storeVars, leg, closeVars>>

(* It makes a leg.                                                         *)
Made(a, l, o) ==
  /\ \/ l = "tcore" /\ pc[a] = "tcore" /\ GoTo(a, "taccess")
     \/ l = "taccess" /\ pc[a] = "taccess" /\ GoTo(a, "port1")
  /\ Allocate(o, <<call[a], l>>)
  /\ leg' = [leg EXCEPT ![a][l] = o]
  /\ UNCHANGED <<call, closeVars>>

(* It goes on, with both legs made.                                        *)
Advanced(a) ==
  /\ pc[a] \in HasBoth \ {"ok"}
  /\ \E s \in HasBoth : GoTo(a, s) /\ (s = "ok" => pc[a] = "start2")
  /\ UNCHANGED <<storeVars, call, leg, closeVars>>

(* It starts to close the legs it has made.                                *)
GaveUp(a) ==
  /\ \/ pc[a] = "taccess" /\ Undo(a, FirstLeg(call[a]))
     \/ pc[a] \in HasBoth /\ Undo(a, BothLegs(call[a]))
  /\ UNCHANGED storeVars

(* It ends, with no leg left to close.                                     *)
RefusedNow(a) ==
  /\ pc[a] = "tcore" \/ (pc[a] = "undo" /\ toClose[a] = <<>>)
  /\ GoTo(a, "refused")
  /\ UNCHANGED <<storeVars, call, leg, closeVars>>

(* A DELETE begins.                                                        *)
Asked(d, c) ==
  /\ call[d] = None
  /\ call' = [call EXCEPT ![d] = c]
  /\ toClose' = [toClose EXCEPT ![d] = BothLegs(c)]
  /\ UNCHANGED <<storeVars, pc, leg, closing, served>>

(* A session ends, or gc closes it.                                        *)
Ended(o) == End(o) /\ UNCHANGED <<handlerVars, closeVars>>
Collected(o) == Unlink(o) /\ UNCHANGED <<handlerVars, closeVars>>

(* A listener's own step.                                                  *)
Heard == UNCHANGED <<storeVars, handlerVars, closeVars>>

Kinds ==
  \/ \E a \in Answers : \/ \E c \in Calls : Begun(a, c)
                        \/ \E l \in Legs : \E o \in Objs : Made(a, l, o)
                        \/ Advanced(a) \/ GaveUp(a) \/ RefusedNow(a)
  \/ \E d \in Deletes : \E c \in Calls : Asked(d, c)
  \/ \E h \in Handlers : CloseNext(h)
  \/ \E o \in Objs : Ended(o) \/ Collected(o)
  \/ Heard

(* Every step is of one of the kinds.                                      *)
LEMMA StepKinds ==
  ASSUME TypeOK, Step
  PROVE  Kinds
<1>1. ASSUME NEW a \in Answers, NEW c \in Calls, Answer(a, c) PROVE Kinds
  BY <1>1 DEF Answer, Begun, Kinds
<1>2. ASSUME NEW a \in Answers, CreateTCore(a) PROVE Kinds
  <2>1. (\E o \in Objs : Made(a, "tcore", o)) \/ RefusedNow(a)
    BY <1>2 DEF CreateTCore, Made, RefusedNow
  <2> QED
    BY <2>1 DEF Kinds, Legs
<1>3. ASSUME NEW a \in Answers, CreateTAccess(a) PROVE Kinds
  <2>1. (\E o \in Objs : Made(a, "taccess", o)) \/ GaveUp(a)
    BY <1>3 DEF CreateTAccess, Made, GaveUp
  <2> QED
    BY <2>1 DEF Kinds, Legs
<1>4. ASSUME NEW a \in Answers,
             \/ TakePort1(a) \/ TakePort2(a) \/ BindTCore(a) \/ BindTAccess(a)
             \/ GiveTCore(a) \/ GiveTAccess(a) \/ StartTCore(a) \/ StartTAccess(a)
      PROVE  Kinds
  <2>1. CASE TakePort1(a)
    <3>1. Advanced(a) \/ GaveUp(a)
      BY <2>1 DEF TakePort1, Advanced, GaveUp, HasBoth
    <3> QED
      BY <3>1 DEF Kinds
  <2>2. CASE TakePort2(a)
    <3>1. Advanced(a)
      BY <2>2 DEF TakePort2, Advanced, HasBoth
    <3> QED
      BY <3>1 DEF Kinds
  <2>3. CASE BindTCore(a)
    <3>1. Advanced(a)
      BY <2>3 DEF BindTCore, Advanced, HasBoth
    <3> QED
      BY <3>1 DEF Kinds
  <2>4. CASE BindTAccess(a)
    <3>1. Advanced(a)
      BY <2>4 DEF BindTAccess, Advanced, HasBoth
    <3> QED
      BY <3>1 DEF Kinds
  <2>5. CASE GiveTCore(a)
    <3>1. Advanced(a) \/ GaveUp(a)
      BY <2>5 DEF GiveTCore, Advanced, GaveUp, HasBoth
    <3> QED
      BY <3>1 DEF Kinds
  <2>6. CASE GiveTAccess(a)
    <3>1. GaveUp(a)
      BY <2>6 DEF GiveTAccess, GaveUp, HasBoth
    <3> QED
      BY <3>1 DEF Kinds
  <2>7. CASE StartTCore(a)
    <3>1. Advanced(a) \/ GaveUp(a)
      BY <2>7 DEF StartTCore, Advanced, GaveUp, HasBoth
    <3> QED
      BY <3>1 DEF Kinds
  <2>8. CASE StartTAccess(a)
    <3>1. Advanced(a) \/ GaveUp(a)
      BY <2>8 DEF StartTAccess, Advanced, GaveUp, HasBoth
    <3> QED
      BY <3>1 DEF Kinds
  <2> QED
    BY <1>4, <2>1, <2>2, <2>3, <2>4, <2>5, <2>6, <2>7, <2>8
<1>5. ASSUME NEW a \in Answers, Refuse(a) PROVE Kinds
  BY <1>5 DEF Refuse, RefusedNow, Kinds
<1>6. ASSUME NEW a \in Answers, CallControlFails(a) PROVE Kinds
  <2>1. GaveUp(a)
    BY <1>6 DEF CallControlFails, GaveUp, HasBoth
  <2> QED
    BY <2>1 DEF Kinds
<1>7. ASSUME NEW d \in Deletes, NEW c \in Calls, Delete(d, c) PROVE Kinds
  BY <1>7 DEF Delete, Asked, Kinds
<1>8. ASSUME NEW h \in Handlers, CloseNext(h) PROVE Kinds
  BY <1>8 DEF Kinds
<1>9. ASSUME NEW o \in Objs, CloseEnds(o) \/ GCCloses(o) \/ ListenerStep(o) PROVE Kinds
  <2>1. CASE CloseEnds(o)
    BY <2>1 DEF CloseEnds, Ended, Kinds
  <2>2. CASE GCCloses(o)
    BY <2>2 DEF GCCloses, Collected, Kinds
  <2>3. CASE ListenerStep(o)
    <3>1. Heard
      BY <2>3 DEF ListenerStep, SocketCloses, ReleasePort, Heard
    <3> QED
      BY <3>1 DEF Kinds
  <2> QED
    BY <1>9, <2>1, <2>2, <2>3
<1> QED
  BY <1>1, <1>2, <1>3, <1>4, <1>5, <1>6, <1>7, <1>8, <1>9 DEF Step, AnswerStep

(* What a step does to the ports.                                          *)
Deals ==
  \/ \E a \in Answers : \E l \in Legs :
       \/ Acquire(a, l) /\ held[a][l] = None
       \/ GiveBack(a, l) /\ held[a][l] # None
       \/ Bind(a, l) /\ held[a][l] # None /\ leg[a][l] # None /\ sock[leg[a][l]] = "none"
  \/ \E o \in Objs : SocketCloses(o) \/ ReleasePort(o)
  \/ UNCHANGED portVars

(* A step moves ports in one of the ways of Deals, from the checks it made. *)
LEMMA StepDeals ==
  ASSUME LegsMade, Holds, Sockets, Step
  PROVE  Deals
<1>a. "tcore" \in Legs /\ "taccess" \in Legs
  BY DEF Legs
<1>0. ASSUME NEW a \in Answers, TakePort1(a) \/ TakePort2(a) PROVE Deals
  <2>1. \/ Acquire(a, "tcore") /\ pc[a] = "port1"
        \/ Acquire(a, "taccess") /\ pc[a] = "port2"
        \/ UNCHANGED portVars
    BY <1>0 DEF TakePort1, TakePort2
  <2>2. /\ pc[a] = "port1" => held[a]["tcore"] = None
        /\ pc[a] = "port2" => held[a]["taccess"] = None
    BY DEF Holds
  <2> QED
    BY <1>a, <2>1, <2>2 DEF Deals
<1>1. ASSUME NEW a \in Answers, BindTCore(a) \/ BindTAccess(a) PROVE Deals
  <2>1. \/ Bind(a, "tcore") /\ pc[a] = "bind1"
        \/ Bind(a, "taccess") /\ pc[a] = "bind2"
        \/ UNCHANGED portVars
    BY <1>1 DEF BindTCore, BindTAccess
  <2>2. /\ pc[a] = "bind1" => held[a]["tcore"] # None
        /\ pc[a] = "bind2" => held[a]["taccess"] # None
    BY DEF Holds
  <2>3. pc[a] \in {"bind1", "bind2"} => leg[a]["tcore"] # None /\ leg[a]["taccess"] # None
    BY <1>a DEF LegsMade, HasBoth
  <2>4. /\ pc[a] = "bind1" => sock[leg[a]["tcore"]] = "none"
        /\ pc[a] = "bind2" => sock[leg[a]["taccess"]] = "none"
    BY DEF Sockets
  <2> QED
    BY <1>a, <2>1, <2>2, <2>3, <2>4 DEF Deals
<1>2. ASSUME NEW a \in Answers, GiveTCore(a) \/ GiveTAccess(a) PROVE Deals
  <2>1. \/ GiveBack(a, "tcore") /\ held[a]["tcore"] # None
        \/ GiveBack(a, "taccess") /\ held[a]["taccess"] # None
    BY <1>2 DEF GiveTCore, GiveTAccess, Holds
  <2> QED
    BY <2>1 DEF Deals, Legs
<1>3. ASSUME NEW a \in Answers,
             \/ CreateTCore(a) \/ CreateTAccess(a) \/ StartTCore(a) \/ StartTAccess(a)
             \/ Refuse(a) \/ CallControlFails(a) \/ \E c \in Calls : Answer(a, c)
      PROVE  UNCHANGED portVars
  BY <1>3 DEF CreateTCore, CreateTAccess, StartTCore, StartTAccess, Refuse, CallControlFails,
              Answer
<1>4. ASSUME NEW d \in Deletes, NEW c \in Calls, Delete(d, c) PROVE UNCHANGED portVars
  BY <1>4 DEF Delete
<1>5. ASSUME NEW h \in Handlers, CloseNext(h) PROVE UNCHANGED portVars
  BY <1>5 DEF CloseNext
<1>6. ASSUME NEW o \in Objs, CloseEnds(o) \/ GCCloses(o) PROVE UNCHANGED portVars
  BY <1>6 DEF CloseEnds, GCCloses
<1>7. ASSUME NEW o \in Objs, ListenerStep(o) PROVE Deals
  BY <1>7 DEF ListenerStep, Deals
<1>8. UNCHANGED portVars => Deals
  BY DEF Deals
<1> QED
  BY <1>0, <1>1, <1>2, <1>3, <1>4, <1>5, <1>6, <1>7, <1>8 DEF Step, AnswerStep

(* The types of the ports' variables are kept.                             *)
LEMMA PortsTyped ==
  ASSUME TypeOK, Sockets, Deals
  PROVE  PortTypes'
<1>1. ASSUME NEW a \in Answers, NEW l \in Legs,
             Acquire(a, l) \/ (GiveBack(a, l) /\ held[a][l] # None) \/ Bind(a, l)
      PROVE  PortTypes'
  BY <1>1, DealsTyped
<1>2. ASSUME NEW o \in Objs, SocketCloses(o) PROVE PortTypes'
  BY <1>2, TypeParts DEF SocketCloses, PortTypes
<1>3. ASSUME NEW o \in Objs, ReleasePort(o) PROVE PortTypes'
  <2>1. port[o] \in Ports
    BY <1>3, TypeParts DEF ReleasePort, Sockets
  <2>2. free' \in Seq(Ports)
    BY <1>3, <2>1, TypeParts, StackMoves DEF ReleasePort
  <2> QED
    BY <1>3, <2>2, TypeParts DEF ReleasePort, PortTypes
<1>4. ASSUME UNCHANGED portVars PROVE PortTypes'
  BY <1>4, TypeParts DEF portVars, PortTypes
<1> QED
  BY <1>1, <1>2, <1>3, <1>4 DEF Deals

(* The types of the other variables.                                       *)
CallTypes ==
  /\ stage \in [Objs -> Stages]
  /\ sid \in [Objs -> IDs \cup {None}]
  /\ pc \in [Answers -> AnswerSteps]
  /\ call \in [Handlers -> Calls \cup {None}]
  /\ leg \in [Answers -> [Legs -> Objs \cup {None}]]
  /\ toClose \in [Handlers -> Seq(IDs)]
  /\ closing \in [Handlers -> Objs \cup {None}]
  /\ served \in [Deletes -> BOOLEAN]

(* Whichever of Kinds a step is, the handlers' variables keep their types. *)
LEMMA HandlersTyped ==
  ASSUME TypeOK, LegsMade, Kinds
  PROVE  CallTypes'
<1> USE DEF Handlers
<1>0. /\ \A a \in Answers : pc[a] # "idle" => call[a] \in Calls
      /\ HasBoth \subseteq AnswerSteps
  BY TypeParts DEF LegsMade, HasBoth, AnswerSteps
<1>1. ASSUME NEW a \in Answers, NEW c \in Calls, Begun(a, c) PROVE CallTypes'
  BY <1>1, TypeParts
     DEF Begun, CallTypes, GoTo, AnswerSteps, storeVars, closeVars
<1>2. ASSUME NEW a \in Answers, NEW l \in Legs, NEW o \in Objs, Made(a, l, o) PROVE CallTypes'
  <2>1. <<call[a], l>> \in IDs
    BY <1>0, <1>2, ListsTyped DEF Made
  <2>2. stage' \in [Objs -> Stages] /\ sid' \in [Objs -> IDs \cup {None}]
    BY <1>2, <2>1, TypeParts DEF Made, Allocate, Stages
  <2>3. pc' \in [Answers -> AnswerSteps]
    BY <1>2, TypeParts DEF Made, GoTo, AnswerSteps
  <2>4. leg' \in [Answers -> [Legs -> Objs \cup {None}]]
    BY <1>2, TypeParts DEF Made
  <2> QED
    BY <1>2, <2>2, <2>3, <2>4, TypeParts DEF Made, CallTypes, closeVars
<1>3. ASSUME NEW a \in Answers, Advanced(a) PROVE CallTypes'
  BY <1>0, <1>3, TypeParts DEF Advanced, GoTo, CallTypes, storeVars, closeVars
<1>4. ASSUME NEW a \in Answers, GaveUp(a) PROVE CallTypes'
  <2>1. pc[a] # "idle"
    BY <1>4 DEF GaveUp, HasBoth
  <2>2. FirstLeg(call[a]) \in Seq(IDs) /\ BothLegs(call[a]) \in Seq(IDs)
    BY <1>0, <2>1, ListsTyped
  <2> QED
    <3>1. pc' = [pc EXCEPT ![a] = "undo"] /\ UNCHANGED <<stage, sid, call, leg, closing, served>>
      BY <1>4 DEF GaveUp, Undo, GoTo, storeVars
    <3>2. pc' \in [Answers -> AnswerSteps]
      BY <3>1, TypeParts DEF AnswerSteps
    <3>3. PICK q \in Seq(IDs) : toClose' = [toClose EXCEPT ![a] = q]
      BY <1>4, <2>2 DEF GaveUp, Undo
    <3>4. toClose' \in [Handlers -> Seq(IDs)]
      BY <3>3, TypeParts
    <3> QED
      BY <3>1, <3>2, <3>4, TypeParts DEF CallTypes
<1>5. ASSUME NEW a \in Answers, RefusedNow(a) PROVE CallTypes'
  BY <1>5, TypeParts DEF RefusedNow, GoTo, CallTypes, AnswerSteps, storeVars, closeVars
<1>6. ASSUME NEW d \in Deletes, NEW c \in Calls, Asked(d, c) PROVE CallTypes'
  <2>1. BothLegs(c) \in Seq(IDs)
    BY ListsTyped
  <2> QED
    BY <1>6, <2>1, TypeParts DEF Asked, CallTypes, storeVars
<1>7. ASSUME NEW h \in Handlers, CloseNext(h) PROVE CallTypes'
  <2>1. Tail(toClose[h]) \in Seq(IDs)
    BY <1>7, TypeParts, HeadTailProperties DEF CloseNext
  <2>2. toClose' \in [Handlers -> Seq(IDs)]
    BY <1>7, <2>1, TypeParts DEF CloseNext
  <2>3. /\ stage' \in [Objs -> Stages] /\ sid' \in [Objs -> IDs \cup {None}]
        /\ closing' \in [Handlers -> Objs \cup {None}]
    <3>1. CASE \E o \in OpenWith(Head(toClose[h])) :
                 Unlink(o) /\ closing' = [closing EXCEPT ![h] = o]
      <4>1. PICK o \in Objs : Unlink(o) /\ closing' = [closing EXCEPT ![h] = o]
        BY <3>1 DEF OpenWith, OpenSessions
      <4> QED
        BY <4>1, TypeParts DEF Unlink, Stages
    <3>2. CASE closing' = [closing EXCEPT ![h] = None] /\ UNCHANGED storeVars
      BY <3>2, TypeParts DEF storeVars
    <3> QED
      BY <1>7, <3>1, <3>2 DEF CloseNext
  <2>4. served' \in [Deletes -> BOOLEAN]
    BY <1>7 DEF CloseNext
  <2> QED
    BY <1>7, <2>2, <2>3, <2>4, TypeParts DEF CloseNext, CallTypes, handlerVars
<1>8. ASSUME NEW o \in Objs, Ended(o) \/ Collected(o) PROVE CallTypes'
  BY <1>8, TypeParts
     DEF Ended, Collected, End, Unlink, CallTypes, Stages, handlerVars, closeVars
<1>9. ASSUME Heard PROVE CallTypes'
  BY <1>9, TypeParts DEF Heard, CallTypes, storeVars, handlerVars, closeVars
<1> QED
  BY <1>1, <1>2, <1>3, <1>4, <1>5, <1>6, <1>7, <1>8, <1>9 DEF Kinds

(* Every step keeps the types.                                             *)
LEMMA StepTyped ==
  ASSUME TypeOK, LegsMade, Holds, Sockets, Next
  PROVE  TypeOK'
<1>1. CallTypes'
  BY StepKinds, HandlersTyped DEF Next
<1>2. PortTypes'
  BY StepDeals, PortsTyped DEF Next
<1>3. past' \in [busy : BOOLEAN, orderly : BOOLEAN]
  BY TypeParts DEF Next, PastAfter
<1> QED
  BY <1>1, <1>2, <1>3 DEF TypeOK, CallTypes, PortTypes

-----------------------------------------------------------------------------
(* The lists of sessions to close.                                         *)

(* Nothing is on the empty list, both legs are on the list of both, and    *)
(* tcore alone is on the list of the first.                                *)
LEMMA OnLists ==
  ASSUME NEW c
  PROVE  /\ \A l \in Legs : ~On(<<>>, c, l) /\ On(BothLegs(c), c, l)
         /\ On(FirstLeg(c), c, "tcore") /\ ~On(FirstLeg(c), c, "taccess")
         /\ <<>> \in Lists(c) /\ BothLegs(c) \in Lists(c) /\ FirstLeg(c) \in Lists(c)
<1>1. \A l \in Legs : ~On(<<>>, c, l)
  BY DEF On
<1>2. ASSUME NEW l \in Legs PROVE On(BothLegs(c), c, l)
  <2>1. /\ 1 \in DOMAIN BothLegs(c) /\ BothLegs(c)[1] = <<c, "tcore">>
        /\ 2 \in DOMAIN BothLegs(c) /\ BothLegs(c)[2] = <<c, "taccess">>
    BY DEF BothLegs
  <2> QED
    BY <2>1 DEF On, Legs
<1>3. On(FirstLeg(c), c, "tcore") /\ ~On(FirstLeg(c), c, "taccess")
  <2>1. /\ 1 \in DOMAIN FirstLeg(c)
        /\ \A k \in DOMAIN FirstLeg(c) : FirstLeg(c)[k] = <<c, "tcore">>
    BY DEF FirstLeg
  <2>2. <<c, "tcore">> # <<c, "taccess">>
    OBVIOUS
  <2> QED
    BY <2>1, <2>2 DEF On
<1>4. <<>> \in Lists(c) /\ BothLegs(c) \in Lists(c) /\ FirstLeg(c) \in Lists(c)
  BY DEF Lists, BothLegs, FirstLeg
<1> QED
  BY <1>1, <1>2, <1>3, <1>4

(* What remains of a list, once its head is taken, has lost that leg only. *)
LEMMA ListTail ==
  ASSUME NEW c, NEW q \in Lists(c), q # <<>>
  PROVE  \E l \in Legs :
           /\ Head(q) = <<c, l>> /\ Tail(q) \in Lists(c) /\ On(q, c, l)
           /\ ~On(Tail(q), c, l)
           /\ \A m \in Legs : m # l => (On(Tail(q), c, m) <=> On(q, c, m))
<1>1. <<c, "tcore">> # <<c, "taccess">>
  OBVIOUS
<1>2. ASSUME NEW l \in Legs, q = << <<c, l>> >>
      PROVE  /\ Head(q) = <<c, l>> /\ Tail(q) \in Lists(c) /\ On(q, c, l)
             /\ ~On(Tail(q), c, l)
             /\ \A m \in Legs : m # l => (On(Tail(q), c, m) <=> On(q, c, m))
  <2>1. Head(q) = <<c, l>> /\ Tail(q) = <<>>
    BY <1>2
  <2>2. 1 \in DOMAIN q /\ \A k \in DOMAIN q : q[k] = <<c, l>>
    BY <1>2
  <2>3. \A m \in Legs : On(q, c, m) <=> m = l
    BY <2>2 DEF On
  <2> QED
    BY <2>1, <2>3, OnLists
<1>3. ASSUME q = << <<c, "tcore">>, <<c, "taccess">> >>
      PROVE  /\ Head(q) = <<c, "tcore">> /\ Tail(q) \in Lists(c) /\ On(q, c, "tcore")
             /\ ~On(Tail(q), c, "tcore")
             /\ \A m \in Legs : m # "tcore" => (On(Tail(q), c, m) <=> On(q, c, m))
  <2>1. Head(q) = <<c, "tcore">> /\ Tail(q) = << <<c, "taccess">> >>
    BY <1>3
  <2>2. q = BothLegs(c)
    BY <1>3 DEF BothLegs
  <2>3. Tail(q) \in Lists(c)
    BY <2>1 DEF Lists
  <2>4. On(Tail(q), c, "taccess") /\ ~On(Tail(q), c, "tcore")
    <3>1. PICK r : r = << <<c, "taccess">> >>
      OBVIOUS
    <3>2. 1 \in DOMAIN r /\ \A k \in DOMAIN r : r[k] = <<c, "taccess">>
      BY <3>1
    <3>3. On(r, c, "taccess") /\ ~On(r, c, "tcore")
      BY <1>1, <3>2 DEF On
    <3> QED
      BY <2>1, <3>1, <3>3
  <2>5. \A m \in Legs : On(q, c, m)
    BY <2>2, OnLists
  <2> QED
    BY <2>1, <2>3, <2>4, <2>5 DEF Legs
<1>4. "tcore" \in Legs /\ "taccess" \in Legs
  BY DEF Legs
<1> QED
  BY <1>2, <1>3, <1>4 DEF Lists

(* Where a handler's list and call stay, so does what it has yet to close. *)
LEMMA SameWait ==
  ASSUME NEW h \in Handlers, toClose'[h] = toClose[h], call'[h] = call[h]
  PROVE  \A l \in Legs : Waiting(h, l)' <=> Waiting(h, l)
BY DEF Waiting

(* A Close takes one leg of the handler's call off its list, and from the  *)
(* map if it is there.                                                     *)
Closing(h, l) ==
  /\ toClose[h] # <<>> /\ Waiting(h, l) /\ ~Waiting(h, l)'
  /\ \A m \in Legs : m # l => (Waiting(h, m)' <=> Waiting(h, m))
  /\ toClose'[h] \in Lists(call[h])
  /\ \A g \in Handlers : g # h => toClose'[g] = toClose[g] /\ closing'[g] = closing[g]
  /\ UNCHANGED <<pc, call, leg>>
  /\ \A d \in Deletes : served'[d] = (served[d] \/ (d = h /\ OpenWith(<<call[h], l>>) # {}))
  /\ \/ \E o \in Objs : /\ stage[o] = "open" /\ sid[o] = <<call[h], l>>
                        /\ stage'[o] = "unlinked" /\ closing'[h] = o
                        /\ \A p \in Objs : p # o => stage'[p] = stage[p]
                        /\ sid' = sid
     \/ /\ OpenWith(<<call[h], l>>) = {} /\ closing'[h] = None
        /\ UNCHANGED <<stage, sid>>

(* The session a handler closes is the head of its list, and leaves it.    *)
LEMMA CloseParts ==
  ASSUME TypeOK, Closes, NEW h \in Handlers, CloseNext(h)
  PROVE  \E l \in Legs : Closing(h, l)
<1>1. toClose[h] # <<>> /\ toClose[h] \in Lists(call[h])
  BY DEF CloseNext, Closes
<1>2. PICK l \in Legs :
        /\ Head(toClose[h]) = <<call[h], l>> /\ Tail(toClose[h]) \in Lists(call[h])
        /\ On(toClose[h], call[h], l) /\ ~On(Tail(toClose[h]), call[h], l)
        /\ \A m \in Legs : m # l =>
             (On(Tail(toClose[h]), call[h], m) <=> On(toClose[h], call[h], m))
  BY <1>1, ListTail
<1>3. toClose'[h] = Tail(toClose[h]) /\ \A g \in Handlers : g # h => toClose'[g] = toClose[g]
  BY TypeParts DEF CloseNext
<1>4. UNCHANGED <<pc, call, leg>>
  BY DEF CloseNext, handlerVars
<1>5. /\ Waiting(h, l) /\ ~Waiting(h, l)'
      /\ \A m \in Legs : m # l => (Waiting(h, m)' <=> Waiting(h, m))
  BY <1>2, <1>3, <1>4 DEF Waiting
<1>6. /\ \/ \E o \in Objs : /\ stage[o] = "open" /\ sid[o] = <<call[h], l>>
                            /\ stage'[o] = "unlinked" /\ closing'[h] = o
                            /\ \A p \in Objs : p # o => stage'[p] = stage[p]
                            /\ sid' = sid
         \/ /\ OpenWith(<<call[h], l>>) = {} /\ closing'[h] = None
            /\ UNCHANGED <<stage, sid>>
      /\ \A g \in Handlers : g # h => closing'[g] = closing[g]
  <2>1. CASE \E o \in OpenWith(Head(toClose[h])) :
               Unlink(o) /\ closing' = [closing EXCEPT ![h] = o]
    <3>1. PICK o \in OpenWith(<<call[h], l>>) :
            Unlink(o) /\ closing' = [closing EXCEPT ![h] = o]
      BY <1>2, <2>1
    <3>2. o \in Objs /\ stage[o] = "open" /\ sid[o] = <<call[h], l>>
      BY DEF OpenWith, OpenSessions
    <3> QED
      BY <3>1, <3>2, TypeParts DEF Unlink
  <2>2. CASE /\ OpenWith(Head(toClose[h])) = {}
             /\ closing' = [closing EXCEPT ![h] = None] /\ UNCHANGED storeVars
    BY <1>2, <2>2, TypeParts DEF storeVars
  <2> QED
    BY <2>1, <2>2 DEF CloseNext
<1>7. \A d \in Deletes : served'[d] = (served[d] \/ (d = h /\ OpenWith(<<call[h], l>>) # {}))
  BY <1>2 DEF CloseNext
<1> QED
  BY <1>1, <1>2, <1>3, <1>4, <1>5, <1>6, <1>7 DEF Closing

-----------------------------------------------------------------------------
(* What each kind of step does, argument by argument.                      *)

(* Only the ANSWER a moves, from one step to another.                      *)
Moves(a, s) == pc'[a] = s /\ \A b \in Answers : b # a => pc'[b] = pc[b]

SameWaits == \A h \in Handlers : \A l \in Legs : Waiting(h, l)' <=> Waiting(h, l)

(* GoTo sets one handler's place.                                          *)
LEMMA GoToMoves ==
  ASSUME TypeOK, NEW a \in Answers, NEW s, GoTo(a, s)
  PROVE  Moves(a, s)
BY TypeParts DEF GoTo, Moves

(* With lists and calls unchanged, what waits to be closed is unchanged.   *)
LEMMA SameLists ==
  ASSUME UNCHANGED <<toClose, call>>
  PROVE  SameWaits
BY DEF SameWaits, Waiting

(* What an ANSWER's first step changes: the handler takes up a call.       *)
LEMMA BegunParts ==
  ASSUME TypeOK, LegsMade, Closes, NEW a \in Answers, NEW c \in Calls, Begun(a, c)
  PROVE  /\ pc[a] = "idle" /\ Moves(a, "tcore") /\ SameWaits
         /\ call[a] = None /\ call'[a] = c /\ closing[a] = None
         /\ \A h \in Handlers : h # a => call'[h] = call[h]
         /\ UNCHANGED <<stage, sid, leg, toClose, closing, served>>
<1> USE DEF Handlers
<1>1. /\ pc[a] = "idle" /\ GoTo(a, "tcore") /\ call' = [call EXCEPT ![a] = c]
      /\ UNCHANGED <<stage, sid, leg, toClose, closing, served>>
  BY DEF Begun, storeVars, closeVars
<1>2. call[a] = None
  BY <1>1 DEF LegsMade
<1>3. closing[a] = None /\ toClose[a] = <<>>
  BY <1>2 DEF Closes
<1>4. call'[a] = c /\ \A h \in Handlers : h # a => call'[h] = call[h]
  BY <1>1, TypeParts
<1>5. \A l \in Legs : ~Waiting(a, l) /\ ~Waiting(a, l)'
  BY <1>1, <1>3, OnLists DEF Waiting
<1>6. SameWaits
  BY <1>1, <1>4, <1>5, SameWait DEF SameWaits
<1> QED
  BY <1>1, <1>2, <1>3, <1>4, <1>6, GoToMoves

(* What creating a leg changes: the next place, and the leg itself.        *)
LEMMA MadeParts ==
  ASSUME TypeOK, LegsMade, NEW a \in Answers, NEW l \in Legs, NEW o \in Objs, Made(a, l, o)
  PROVE  /\ \/ l = "tcore" /\ pc[a] = "tcore" /\ Moves(a, "taccess")
            \/ l = "taccess" /\ pc[a] = "taccess" /\ Moves(a, "port1")
         /\ SameWaits /\ leg[a][l] = None /\ leg'[a][l] = o /\ call[a] # None
         /\ \A b \in Answers : \A m \in Legs : b # a \/ m # l => leg'[b][m] = leg[b][m]
         /\ stage[o] = "absent" /\ stage'[o] = "open" /\ sid'[o] = <<call[a], l>>
         /\ \A p \in Objs : p # o => stage'[p] = stage[p] /\ sid'[p] = sid[p]
         /\ \A p \in OpenSessions : sid[p] # <<call[a], l>>
         /\ UNCHANGED <<call, toClose, closing, served>>
<1>1. UNCHANGED <<call, toClose, closing, served>>
  BY DEF Made, closeVars
<1>2. \/ l = "tcore" /\ pc[a] = "tcore" /\ Moves(a, "taccess")
      \/ l = "taccess" /\ pc[a] = "taccess" /\ Moves(a, "port1")
  BY GoToMoves DEF Made
<1>3. leg[a][l] = None /\ call[a] # None
  BY <1>2 DEF LegsMade
<1>4. /\ leg'[a][l] = o
      /\ \A b \in Answers : \A m \in Legs : b # a \/ m # l => leg'[b][m] = leg[b][m]
  BY TypeParts DEF Made
<1>5. /\ stage[o] = "absent" /\ stage'[o] = "open" /\ sid'[o] = <<call[a], l>>
      /\ \A p \in Objs : p # o => stage'[p] = stage[p] /\ sid'[p] = sid[p]
      /\ \A p \in OpenSessions : sid[p] # <<call[a], l>>
  BY TypeParts DEF Made, Allocate
<1> QED
  BY <1>1, <1>2, <1>3, <1>4, <1>5, SameLists

(* A step past both legs changes the place alone.                          *)
LEMMA AdvancedParts ==
  ASSUME TypeOK, NEW a \in Answers, Advanced(a)
  PROVE  /\ pc[a] \in HasBoth \ {"ok"} /\ SameWaits
         /\ \E s \in HasBoth : Moves(a, s) /\ (s = "ok" => pc[a] = "start2")
         /\ UNCHANGED <<stage, sid, leg, call, toClose, closing, served>>
BY GoToMoves, SameLists DEF Advanced, storeVars, closeVars

(* A rollback starts with the legs made so far on the handler's list.      *)
LEMMA GaveUpParts ==
  ASSUME TypeOK, LegsMade, NEW a \in Answers, GaveUp(a)
  PROVE  /\ pc[a] \notin Over /\ pc[a] \notin {"idle", "tcore"} /\ Moves(a, "undo")
         /\ toClose'[a] \in Lists(call[a])
         /\ \A l \in Legs : Waiting(a, l)' <=> leg[a][l] # None
         /\ \A h \in Handlers : h # a => toClose'[h] = toClose[h]
         /\ \A h \in Handlers : h # a => \A l \in Legs : Waiting(h, l)' <=> Waiting(h, l)
         /\ UNCHANGED <<stage, sid, leg, call, closing, served>>
<1> USE DEF Handlers
<1>1. UNCHANGED <<stage, sid, leg, call, closing, served>>
  BY DEF GaveUp, Undo, storeVars
<1>2. Moves(a, "undo") /\ (pc[a] = "taccess" \/ pc[a] \in HasBoth)
  BY GoToMoves DEF GaveUp, Undo
<1>3. /\ pc[a] = "taccess" => toClose'[a] = FirstLeg(call[a])
      /\ pc[a] # "taccess" => toClose'[a] = BothLegs(call[a])
      /\ \A h \in Handlers : h # a => toClose'[h] = toClose[h]
  BY TypeParts DEF GaveUp, Undo, HasBoth
<1>4. \A l \in Legs : Waiting(a, l)' <=> On(toClose'[a], call[a], l)
  BY <1>1 DEF Waiting
<1>5. ASSUME NEW l \in Legs PROVE Waiting(a, l)' <=> leg[a][l] # None
  <2>1. CASE pc[a] = "taccess"
    BY <1>3, <1>4, <2>1, OnLists DEF LegsMade, Legs
  <2>2. CASE pc[a] # "taccess"
    BY <1>2, <1>3, <1>4, <2>2, OnLists DEF LegsMade
  <2> QED
    BY <2>1, <2>2
<1>6. \A h \in Handlers : h # a => \A l \in Legs : Waiting(h, l)' <=> Waiting(h, l)
  BY <1>1, <1>3, SameWait
<1> QED
  BY <1>1, <1>2, <1>3, <1>5, <1>6, OnLists DEF Over, HasBoth

(* A handler answers with an error only when nothing waits on its list.    *)
LEMMA RefusedParts ==
  ASSUME TypeOK, LegsMade, Closes, NEW a \in Answers, RefusedNow(a)
  PROVE  /\ pc[a] \in {"tcore", "undo"} /\ Moves(a, "refused") /\ SameWaits
         /\ pc[a] = "tcore" => \A l \in Legs : leg[a][l] = None
         /\ toClose[a] = <<>> /\ \A l \in Legs : ~Waiting(a, l)
         /\ UNCHANGED <<stage, sid, leg, call, toClose, closing, served>>
<1>1. UNCHANGED <<stage, sid, leg, call, toClose, closing, served>>
  BY DEF RefusedNow, storeVars, closeVars
<1>2. pc[a] \in {"tcore", "undo"} /\ Moves(a, "refused")
  BY GoToMoves DEF RefusedNow
<1>3. toClose[a] = <<>>
  BY DEF RefusedNow, Closes
<1>4. \A l \in Legs : ~Waiting(a, l)
  BY <1>3, OnLists DEF Waiting
<1> QED
  BY <1>1, <1>2, <1>3, <1>4, SameLists DEF LegsMade

(* A DELETE starts with both legs of its call on the list.                 *)
LEMMA AskedParts ==
  ASSUME TypeOK, NEW d \in Deletes, NEW c \in Calls, Asked(d, c)
  PROVE  /\ call[d] = None /\ call'[d] = c
         /\ toClose'[d] # <<>> /\ toClose'[d] \in Lists(c)
         /\ \A l \in Legs : Waiting(d, l)'
         /\ \A h \in Handlers : h # d => call'[h] = call[h] /\ toClose'[h] = toClose[h]
         /\ \A h \in Handlers : h # d => \A l \in Legs : Waiting(h, l)' <=> Waiting(h, l)
         /\ UNCHANGED <<stage, sid, pc, leg, closing, served>>
<1> USE DEF Handlers
<1>1. UNCHANGED <<stage, sid, pc, leg, closing, served>>
  BY DEF Asked, storeVars
<1>2. /\ call[d] = None /\ call'[d] = c /\ toClose'[d] = BothLegs(c)
      /\ \A h \in Handlers : h # d => call'[h] = call[h] /\ toClose'[h] = toClose[h]
  BY TypeParts DEF Asked
<1>3. BothLegs(c) # <<>>
  BY DEF BothLegs
<1>4. \A l \in Legs : Waiting(d, l)'
  BY <1>2, OnLists DEF Waiting
<1>5. \A h \in Handlers : h # d => \A l \in Legs : Waiting(h, l)' <=> Waiting(h, l)
  BY <1>2, SameWait
<1> QED
  BY <1>1, <1>2, <1>3, <1>4, <1>5, OnLists

(* A session's own steps.                                                  *)
Passes(o, from, to) ==
  /\ stage[o] = from /\ stage'[o] = to
  /\ \A p \in Objs : p # o => stage'[p] = stage[p]
  /\ UNCHANGED <<sid, pc, leg, call, toClose, closing, served>>

(* A session that is collected or ends passes one stage.                   *)
LEMMA PassesParts ==
  ASSUME TypeOK, NEW o \in Objs
  PROVE  /\ Ended(o) => Passes(o, "unlinked", "ended") /\ SameWaits
         /\ Collected(o) => Passes(o, "open", "unlinked") /\ SameWaits
BY TypeParts, SameLists DEF Ended, Collected, End, Unlink, Passes, handlerVars, closeVars

(* What a listener's own steps leave alone.                                *)
LEMMA HeardParts ==
  ASSUME Heard
  PROVE  SameWaits /\ UNCHANGED <<stage, sid, pc, leg, call, toClose, closing, served>>
BY SameLists DEF Heard, storeVars, handlerVars, closeVars

-----------------------------------------------------------------------------
(* The legs of an ANSWER.                                                  *)

(* The sessions an ANSWER has made stay sessions of its call.              *)
LEMMA StepLegsMade ==
  ASSUME TypeOK, LegsMade, Closes, Kinds
  PROVE  LegsMade'
<1> USE DEF Handlers
<1>0. \A a \in Answers : \A l \in Legs : leg[a][l] \in Objs \cup {None}
  BY TypeParts
<1>1. ASSUME NEW a \in Answers, NEW c \in Calls, Begun(a, c) PROVE LegsMade'
  <2>1. /\ pc[a] = "idle" /\ Moves(a, "tcore") /\ call[a] = None /\ call'[a] = c
        /\ \A h \in Handlers : h # a => call'[h] = call[h]
        /\ UNCHANGED <<stage, sid, leg>>
    BY <1>1, BegunParts
  <2>2. c # None
    BY CallAssumption
  <2>3. \A l \in Legs : leg[a][l] = None
    BY <2>1 DEF LegsMade
  <2> QED
    BY <2>1, <2>2, <2>3 DEF LegsMade, Moves, HasBoth
<1>2. ASSUME NEW a \in Answers, NEW l \in Legs, NEW o \in Objs, Made(a, l, o) PROVE LegsMade'
  <2>1. /\ \/ l = "tcore" /\ pc[a] = "tcore" /\ Moves(a, "taccess")
           \/ l = "taccess" /\ pc[a] = "taccess" /\ Moves(a, "port1")
        /\ leg[a][l] = None /\ leg'[a][l] = o
        /\ \A b \in Answers : \A m \in Legs : b # a \/ m # l => leg'[b][m] = leg[b][m]
        /\ stage[o] = "absent" /\ stage'[o] = "open" /\ sid'[o] = <<call[a], l>>
        /\ \A p \in Objs : p # o => stage'[p] = stage[p] /\ sid'[p] = sid[p]
        /\ UNCHANGED call
    BY <1>2, MadeParts
  <2>2. o # None
    BY StoreAssumption
  <2>3. \A b \in Answers : \A m \in Legs :
          leg'[b][m] # None => stage'[leg'[b][m]] # "absent" /\ sid'[leg'[b][m]] = <<call[b], m>>
    <3> SUFFICES ASSUME NEW b \in Answers, NEW m \in Legs, leg'[b][m] # None
                 PROVE  stage'[leg'[b][m]] # "absent" /\ sid'[leg'[b][m]] = <<call[b], m>>
      OBVIOUS
    <3>1. CASE b = a /\ m = l
      BY <2>1, <3>1
    <3>2. CASE b # a \/ m # l
      <4>1. leg'[b][m] = leg[b][m]
        BY <2>1, <3>2
      <4>2. PICK p \in Objs : p = leg[b][m]
        BY <1>0, <4>1
      <4>3. stage[p] # "absent" /\ sid[p] = <<call[b], m>>
        BY <4>1, <4>2 DEF LegsMade
      <4>4. stage'[p] # "absent" /\ sid'[p] = <<call[b], m>>
        BY <2>1, <4>3
      <4> QED
        BY <4>1, <4>2, <4>4
    <3> QED
      BY <3>1, <3>2
  <2>4. \A b \in Answers : b # a =>
          /\ pc'[b] = pc[b] /\ call'[b] = call[b]
          /\ \A m \in Legs : leg'[b][m] = leg[b][m]
    <3>1. \A b \in Answers : b # a => pc'[b] = pc[b]
      BY <2>1 DEF Moves
    <3>2. \A b \in Answers : \A m \in Legs : b # a => leg'[b][m] = leg[b][m]
      BY <2>1
    <3>3. call' = call
      BY <2>1
    <3> QED
      BY <3>1, <3>2, <3>3
  <2>5. pc[a] # "idle" /\ (pc[a] = "taccess" => leg[a]["tcore"] # None)
        /\ (pc[a] = "tcore" => leg[a]["taccess"] = None)
    BY <2>1 DEF LegsMade, Legs
  <2>6. \/ pc'[a] = "taccess" /\ leg'[a]["tcore"] # None /\ leg'[a]["taccess"] = None
        \/ pc'[a] = "port1" /\ \A m \in Legs : leg'[a][m] # None
    BY <2>1, <2>2, <2>5 DEF Moves, Legs
  <2>7. call'[a] # None
    BY <2>1, <2>5 DEF LegsMade
  <2>c. call' = call
    BY <2>1
  <2> QED
    <3> SUFFICES ASSUME NEW b \in Answers
                 PROVE  /\ pc'[b] = "idle" <=> call'[b] = None
                        /\ pc'[b] \in {"idle", "tcore"} => \A m \in Legs : leg'[b][m] = None
                        /\ pc'[b] = "taccess" =>
                             leg'[b]["tcore"] # None /\ leg'[b]["taccess"] = None
                        /\ pc'[b] \in HasBoth => \A m \in Legs : leg'[b][m] # None
      BY <2>c, <2>3 DEF LegsMade
    <3>1. CASE b = a
      BY <2>6, <2>7, <3>1 DEF HasBoth
    <3>2. CASE b # a
      BY <2>4, <3>2 DEF LegsMade, Legs
    <3> QED
      BY <3>1, <3>2
<1>3. ASSUME NEW a \in Answers, Advanced(a) PROVE LegsMade'
  <2>1. /\ pc[a] \in HasBoth /\ UNCHANGED <<stage, sid, leg, call>>
        /\ \E s \in HasBoth : Moves(a, s)
    BY <1>3, AdvancedParts
  <2> QED
    BY <2>1 DEF LegsMade, Moves, HasBoth
<1>4. ASSUME NEW a \in Answers, GaveUp(a) PROVE LegsMade'
  <2>1. /\ pc[a] \notin {"idle", "tcore"} /\ Moves(a, "undo")
        /\ UNCHANGED <<stage, sid, leg, call>>
    BY <1>4, GaveUpParts
  <2> QED
    BY <2>1 DEF LegsMade, Moves, HasBoth
<1>5. ASSUME NEW a \in Answers, RefusedNow(a) PROVE LegsMade'
  <2>1. /\ pc[a] \in {"tcore", "undo"} /\ Moves(a, "refused")
        /\ UNCHANGED <<stage, sid, leg, call>>
    BY <1>5, RefusedParts
  <2> QED
    BY <2>1 DEF LegsMade, Moves, HasBoth
<1>6. ASSUME NEW d \in Deletes, NEW c \in Calls, Asked(d, c) PROVE LegsMade'
  <2>1. /\ \A h \in Handlers : h # d => call'[h] = call[h]
        /\ UNCHANGED <<stage, sid, pc, leg>>
    BY <1>6, AskedParts
  <2>2. \A a \in Answers : call'[a] = call[a]
    BY <2>1, CallAssumption
  <2> QED
    BY <2>1, <2>2 DEF LegsMade
<1>7. ASSUME NEW h \in Handlers, CloseNext(h) PROVE LegsMade'
  <2>1. PICK l \in Legs : Closing(h, l)
    BY <1>7, CloseParts
  <2>2. \A o \in Objs : stage'[o] = "absent" <=> stage[o] = "absent"
    BY <2>1 DEF Closing
  <2>3. UNCHANGED <<sid, pc, leg, call>>
    BY <2>1 DEF Closing
  <2> QED
    BY <1>0, <2>2, <2>3 DEF LegsMade
<1>8. ASSUME NEW o \in Objs, Ended(o) \/ Collected(o) PROVE LegsMade'
  <2>1. Passes(o, "unlinked", "ended") \/ Passes(o, "open", "unlinked")
    BY <1>8, PassesParts
  <2>2. \A p \in Objs : stage'[p] = "absent" <=> stage[p] = "absent"
    BY <2>1 DEF Passes
  <2>3. UNCHANGED <<sid, pc, leg, call>>
    BY <2>1 DEF Passes
  <2> QED
    BY <1>0, <2>2, <2>3 DEF LegsMade
<1>9. ASSUME Heard PROVE LegsMade'
  BY <1>9, HeardParts DEF LegsMade
<1> QED
  BY <1>1, <1>2, <1>3, <1>4, <1>5, <1>6, <1>7, <1>8, <1>9 DEF Kinds

(* Only making a leg changes the legs.                                     *)
LEMMA LegsKept ==
  ASSUME TypeOK, LegsMade, Closes, Kinds
  PROVE  \/ leg' = leg
         \/ \E a \in Answers : \E l \in Legs : \E o \in Objs : Made(a, l, o)
<1>1. ASSUME NEW a \in Answers, NEW c \in Calls, Begun(a, c) PROVE leg' = leg
  BY <1>1, BegunParts
<1>2. ASSUME NEW a \in Answers, Advanced(a) \/ GaveUp(a) \/ RefusedNow(a) PROVE leg' = leg
  BY <1>2, AdvancedParts, GaveUpParts, RefusedParts
<1>3. ASSUME NEW d \in Deletes, NEW c \in Calls, Asked(d, c) PROVE leg' = leg
  BY <1>3, AskedParts
<1>4. ASSUME NEW h \in Handlers, CloseNext(h) PROVE leg' = leg
  BY <1>4, CloseParts DEF Closing
<1>5. ASSUME NEW o \in Objs, Ended(o) \/ Collected(o) PROVE leg' = leg
  BY <1>5, PassesParts DEF Passes
<1>6. ASSUME Heard PROVE leg' = leg
  BY <1>6, HeardParts
<1> QED
  BY <1>1, <1>2, <1>3, <1>4, <1>5, <1>6 DEF Kinds

(* A session is made as the leg of one ANSWER.                             *)
LEMMA StepLegsDiffer ==
  ASSUME TypeOK, LegsMade, LegsDiffer, Closes, Kinds
  PROVE  LegsDiffer'
<1>1. CASE leg' = leg
  BY <1>1 DEF LegsDiffer
<1>2. ASSUME NEW a \in Answers, NEW l \in Legs, NEW o \in Objs, Made(a, l, o)
      PROVE  LegsDiffer'
  <2>1. /\ leg'[a][l] = o /\ stage[o] = "absent"
        /\ \A b \in Answers : \A m \in Legs : b # a \/ m # l => leg'[b][m] = leg[b][m]
    BY <1>2, MadeParts
  <2>2. o # None
    BY StoreAssumption
  <2>3. \A b \in Answers : \A m \in Legs : leg[b][m] # o
    BY <2>1, <2>2 DEF LegsMade
  <2> QED
    BY <2>1, <2>3 DEF LegsDiffer
<1> QED
  BY <1>1, <1>2, LegsKept

(* The manager opens a session only for an ID that none in its map has.    *)
LEMMA StepOneOpen ==
  ASSUME TypeOK, LegsMade, OneOpen, Closes, Kinds
  PROVE  OneOpen'
<1>1. ASSUME NEW a \in Answers, NEW l \in Legs, NEW o \in Objs, Made(a, l, o) PROVE OneOpen'
  <2>1. /\ stage'[o] = "open" /\ sid'[o] = <<call[a], l>>
        /\ \A p \in Objs : p # o => stage'[p] = stage[p] /\ sid'[p] = sid[p]
        /\ \A p \in OpenSessions : sid[p] # <<call[a], l>>
    BY <1>1, MadeParts
  <2> QED
    BY <2>1 DEF OneOpen, OpenSessions
<1>2. ASSUME sid' = sid, \A o \in Objs : stage'[o] = "open" => stage[o] = "open" PROVE OneOpen'
  BY <1>2 DEF OneOpen, OpenSessions
<1>3. ASSUME NEW a \in Answers, NEW c \in Calls, Begun(a, c) PROVE OneOpen'
  BY <1>2, <1>3, BegunParts
<1>4. ASSUME NEW a \in Answers, Advanced(a) \/ GaveUp(a) \/ RefusedNow(a) PROVE OneOpen'
  BY <1>2, <1>4, AdvancedParts, GaveUpParts, RefusedParts
<1>5. ASSUME NEW d \in Deletes, NEW c \in Calls, Asked(d, c) PROVE OneOpen'
  BY <1>2, <1>5, AskedParts
<1>6. ASSUME NEW h \in Handlers, CloseNext(h) PROVE OneOpen'
  <2>1. PICK l \in Legs : Closing(h, l)
    BY <1>6, CloseParts
  <2> QED
    BY <1>2, <2>1 DEF Closing
<1>7. ASSUME NEW o \in Objs, Ended(o) \/ Collected(o) PROVE OneOpen'
  <2>1. Passes(o, "unlinked", "ended") \/ Passes(o, "open", "unlinked")
    BY <1>7, PassesParts
  <2> QED
    BY <1>2, <2>1 DEF Passes
<1>8. ASSUME Heard PROVE OneOpen'
  BY <1>2, <1>8, HeardParts
<1> QED
  BY <1>1, <1>3, <1>4, <1>5, <1>6, <1>7, <1>8 DEF Kinds

-----------------------------------------------------------------------------
(* What a handler has to close.                                            *)

(* What is being closed stays out of the map.                              *)
LEMMA ClosingKept ==
  ASSUME TypeOK, Closes, NEW g \in Handlers, closing'[g] = closing[g],
         \A o \in Objs : stage[o] \in {"unlinked", "ended"} => stage'[o] \in {"unlinked", "ended"}
  PROVE  closing'[g] # None => stage'[closing'[g]] \in {"unlinked", "ended"}
<1>1. closing[g] \in Objs \cup {None}
  BY TypeParts
<1> QED
  BY <1>1 DEF Closes

(* Every step keeps the lists, and what a handler is closing.              *)
LEMMA StepCloses ==
  ASSUME TypeOK, LegsMade, Closes, Kinds
  PROVE  Closes'
<1> USE DEF Handlers
<1>0. /\ \A h \in Handlers : toClose[h] \in Lists(call[h])
      /\ \A h \in Handlers : toClose[h] # <<>> \/ closing[h] # None => call[h] # None
      /\ \A h \in Handlers : closing[h] # None => stage[closing[h]] \in {"unlinked", "ended"}
      /\ \A a \in Answers : pc[a] # "undo" => toClose[a] = <<>>
      /\ \A a \in Answers : \A l \in Legs : Waiting(a, l) => leg[a][l] # None
  BY DEF Closes
<1>1. ASSUME NEW a \in Answers, NEW c \in Calls, Begun(a, c) PROVE Closes'
  <2>1. /\ pc[a] = "idle" /\ Moves(a, "tcore") /\ SameWaits
        /\ call[a] = None /\ call'[a] = c
        /\ \A h \in Handlers : h # a => call'[h] = call[h]
        /\ UNCHANGED <<stage, leg, toClose, closing>>
    BY <1>1, BegunParts
  <2>2. toClose[a] = <<>> /\ c # None /\ <<>> \in Lists(c)
    BY <1>0, <2>1, CallAssumption, OnLists
  <2> QED
    BY <1>0, <2>1, <2>2 DEF Closes, Moves, SameWaits
<1>2. ASSUME NEW a \in Answers, NEW l \in Legs, NEW o \in Objs, Made(a, l, o) PROVE Closes'
  <2>1. /\ pc[a] # "undo" /\ (Moves(a, "taccess") \/ Moves(a, "port1")) /\ SameWaits
        /\ stage[o] = "absent" /\ leg'[a][l] = o
        /\ \A b \in Answers : \A m \in Legs : b # a \/ m # l => leg'[b][m] = leg[b][m]
        /\ \A p \in Objs : p # o => stage'[p] = stage[p]
        /\ UNCHANGED <<call, toClose, closing>>
    BY <1>2, MadeParts
  <2>2. o # None
    BY StoreAssumption
  <2>3. \A h \in Handlers : closing'[h] # None => stage'[closing'[h]] \in {"unlinked", "ended"}
    BY <2>1, ClosingKept
  <2>4. \A b \in Answers : pc'[b] # "undo" => toClose'[b] = <<>>
    BY <1>0, <2>1 DEF Moves
  <2>5. \A b \in Answers : \A m \in Legs : Waiting(b, m)' => leg'[b][m] # None
    <3>1. \A b \in Answers : \A m \in Legs : leg[b][m] # None => leg'[b][m] # None
      BY <2>1, <2>2
    <3> QED
      BY <1>0, <2>1, <3>1 DEF SameWaits
  <2> QED
    BY <1>0, <2>1, <2>3, <2>4, <2>5 DEF Closes
<1>3. ASSUME NEW a \in Answers, Advanced(a) PROVE Closes'
  <2>1. /\ pc[a] \in HasBoth /\ SameWaits /\ \E s \in HasBoth : Moves(a, s)
        /\ UNCHANGED <<stage, leg, call, toClose, closing>>
    BY <1>3, AdvancedParts
  <2> QED
    BY <1>0, <2>1 DEF Closes, Moves, SameWaits, HasBoth
<1>4. ASSUME NEW a \in Answers, GaveUp(a) PROVE Closes'
  <2>1. /\ pc[a] \notin {"idle", "tcore"} /\ Moves(a, "undo")
        /\ toClose'[a] \in Lists(call[a])
        /\ \A l \in Legs : Waiting(a, l)' <=> leg[a][l] # None
        /\ \A h \in Handlers : h # a => toClose'[h] = toClose[h]
        /\ \A h \in Handlers : h # a => \A l \in Legs : Waiting(h, l)' <=> Waiting(h, l)
        /\ UNCHANGED <<stage, leg, call, closing>>
    BY <1>4, GaveUpParts
  <2>2. call[a] # None
    BY <2>1 DEF LegsMade
  <2>3. \A b \in Answers : \A l \in Legs : Waiting(b, l)' => leg'[b][l] # None
    BY <1>0, <2>1
  <2>4. /\ \A h \in Handlers : toClose'[h] \in Lists(call'[h])
        /\ \A h \in Handlers : toClose'[h] # <<>> \/ closing'[h] # None => call'[h] # None
    BY <1>0, <2>1, <2>2
  <2>5. \A b \in Answers : pc'[b] # "undo" => toClose'[b] = <<>>
    BY <1>0, <2>1 DEF Moves
  <2>6. \A h \in Handlers : closing'[h] # None => stage'[closing'[h]] \in {"unlinked", "ended"}
    BY <1>0, <2>1
  <2> QED
    BY <2>3, <2>4, <2>5, <2>6 DEF Closes
<1>5. ASSUME NEW a \in Answers, RefusedNow(a) PROVE Closes'
  <2>1. /\ Moves(a, "refused") /\ SameWaits /\ toClose[a] = <<>>
        /\ UNCHANGED <<stage, leg, call, toClose, closing>>
    BY <1>5, RefusedParts
  <2> QED
    BY <1>0, <2>1 DEF Closes, Moves, SameWaits
<1>6. ASSUME NEW d \in Deletes, NEW c \in Calls, Asked(d, c) PROVE Closes'
  <2>1. /\ call'[d] = c /\ toClose'[d] \in Lists(c)
        /\ \A h \in Handlers : h # d => call'[h] = call[h] /\ toClose'[h] = toClose[h]
        /\ \A h \in Handlers : h # d => \A l \in Legs : Waiting(h, l)' <=> Waiting(h, l)
        /\ UNCHANGED <<stage, pc, leg, closing>>
    BY <1>6, AskedParts
  <2>2. c # None /\ \A a \in Answers : a # d
    BY CallAssumption
  <2>3. /\ \A h \in Handlers : toClose'[h] \in Lists(call'[h])
        /\ \A h \in Handlers : toClose'[h] # <<>> \/ closing'[h] # None => call'[h] # None
    BY <1>0, <2>1, <2>2
  <2>4. \A a \in Answers : pc'[a] # "undo" => toClose'[a] = <<>>
    BY <1>0, <2>1, <2>2
  <2>5. \A a \in Answers : \A l \in Legs : Waiting(a, l)' => leg'[a][l] # None
    BY <1>0, <2>1, <2>2
  <2> QED
    BY <1>0, <2>1, <2>3, <2>4, <2>5 DEF Closes
<1>7. ASSUME NEW h \in Handlers, CloseNext(h) PROVE Closes'
  <2>1. PICK l \in Legs : Closing(h, l)
    BY <1>7, CloseParts
  <2>2. /\ toClose[h] # <<>> /\ toClose'[h] \in Lists(call[h])
        /\ \A g \in Handlers : g # h => toClose'[g] = toClose[g] /\ closing'[g] = closing[g]
        /\ pc' = pc /\ call' = call /\ leg' = leg
    BY <2>1 DEF Closing
  <2>3. \A m \in Legs : Waiting(h, m)' => Waiting(h, m)
    BY <2>1 DEF Closing
  <2>4. \A g \in Handlers : \A m \in Legs : Waiting(g, m)' => Waiting(g, m)
    BY <2>2, <2>3, SameWait
  <2>5. \A o \in Objs : stage[o] \in {"unlinked", "ended"} => stage'[o] \in {"unlinked", "ended"}
    BY <2>1 DEF Closing
  <2>6. closing'[h] # None => stage'[closing'[h]] \in {"unlinked", "ended"}
    BY <2>1 DEF Closing
  <2>7. \A g \in Handlers : closing'[g] # None => stage'[closing'[g]] \in {"unlinked", "ended"}
    BY <2>2, <2>5, <2>6, ClosingKept
  <2>8. /\ \A g \in Handlers : toClose'[g] \in Lists(call'[g])
        /\ \A g \in Handlers : toClose'[g] # <<>> \/ closing'[g] # None => call'[g] # None
    BY <1>0, <2>2
  <2>9. \A a \in Answers : pc'[a] # "undo" => toClose'[a] = <<>>
    BY <1>0, <2>2
  <2> QED
    BY <1>0, <2>2, <2>4, <2>7, <2>8, <2>9 DEF Closes
<1>8. ASSUME NEW o \in Objs, Ended(o) \/ Collected(o) PROVE Closes'
  <2>1. (Passes(o, "unlinked", "ended") \/ Passes(o, "open", "unlinked")) /\ SameWaits
    BY <1>8, PassesParts
  <2>2. \A p \in Objs : stage[p] \in {"unlinked", "ended"} => stage'[p] \in {"unlinked", "ended"}
    BY <2>1 DEF Passes
  <2>3. UNCHANGED <<pc, leg, call, toClose, closing>>
    BY <2>1 DEF Passes
  <2>4. \A h \in Handlers : closing'[h] # None => stage'[closing'[h]] \in {"unlinked", "ended"}
    BY <2>2, <2>3, ClosingKept
  <2> QED
    BY <1>0, <2>1, <2>3, <2>4 DEF Closes, SameWaits
<1>9. ASSUME Heard PROVE Closes'
  <2>1. SameWaits /\ UNCHANGED <<stage, pc, leg, call, toClose, closing>>
    BY <1>9, HeardParts
  <2> QED
    BY <1>0, <2>1 DEF Closes, SameWaits
<1> QED
  BY <1>1, <1>2, <1>3, <1>4, <1>5, <1>6, <1>7, <1>8, <1>9 DEF Kinds

(* A session in the map has an ANSWER that will close it, or stands.       *)
LEMMA StepOwned ==
  ASSUME TypeOK, LegsMade, OneOpen, Closes, Owned, Kinds
  PROVE  Owned'
<1> USE DEF Handlers
<1>0. \A o \in Objs : stage[o] = "open" =>
        \E a \in Answers : \E l \in Legs : leg[a][l] = o /\ (pc[a] \notin Over \/ Waiting(a, l))
  BY DEF Owned, OpenSessions
<1>a. ASSUME \A o \in Objs : stage'[o] = "open" =>
               \E a \in Answers : \E l \in Legs :
                 leg'[a][l] = o /\ (pc'[a] \notin Over \/ Waiting(a, l)')
      PROVE  Owned'
  BY <1>a DEF Owned, OpenSessions
<1>b. ASSUME leg' = leg, \A o \in Objs : stage'[o] = "open" => stage[o] = "open",
             \A a \in Answers : \A l \in Legs :
               leg[a][l] # None /\ (pc[a] \notin Over \/ Waiting(a, l))
                 => (pc'[a] \notin Over \/ Waiting(a, l)')
      PROVE  Owned'
  <2>1. \A o \in Objs : o # None
    BY StoreAssumption
  <2> QED
    BY <1>0, <1>a, <1>b, <2>1
<1>1. ASSUME NEW a \in Answers, NEW c \in Calls, Begun(a, c) PROVE Owned'
  <2>1. Moves(a, "tcore") /\ SameWaits /\ UNCHANGED <<stage, leg>>
    BY <1>1, BegunParts
  <2> QED
    BY <1>b, <2>1 DEF Moves, SameWaits, Over
<1>2. ASSUME NEW a \in Answers, NEW l \in Legs, NEW o \in Objs, Made(a, l, o) PROVE Owned'
  <2>1. /\ (Moves(a, "taccess") \/ Moves(a, "port1")) /\ SameWaits
        /\ leg[a][l] = None /\ leg'[a][l] = o
        /\ \A b \in Answers : \A m \in Legs : b # a \/ m # l => leg'[b][m] = leg[b][m]
        /\ \A p \in Objs : p # o => stage'[p] = stage[p]
    BY <1>2, MadeParts
  <2>2. \A p \in Objs : p # None
    BY StoreAssumption
  <2>3. ASSUME NEW p \in Objs, stage'[p] = "open"
        PROVE  \E b \in Answers : \E m \in Legs :
                 leg'[b][m] = p /\ (pc'[b] \notin Over \/ Waiting(b, m)')
    <3>1. CASE p = o
      BY <2>1, <3>1 DEF Moves, Over
    <3>2. CASE p # o
      <4>1. PICK b \in Answers, m \in Legs :
              leg[b][m] = p /\ (pc[b] \notin Over \/ Waiting(b, m))
        BY <1>0, <2>1, <2>3, <3>2
      <4>2. leg'[b][m] = p
        BY <2>1, <2>2, <4>1
      <4>3. pc'[b] \notin Over \/ Waiting(b, m)'
        BY <2>1, <4>1 DEF Moves, Over, SameWaits
      <4> QED
        BY <4>2, <4>3
    <3> QED
      BY <3>1, <3>2
  <2> QED
    BY <1>a, <2>3
<1>3. ASSUME NEW a \in Answers, Advanced(a) PROVE Owned'
  <2>1. /\ SameWaits /\ \E s \in HasBoth : Moves(a, s)
        /\ UNCHANGED <<stage, leg>>
    BY <1>3, AdvancedParts
  <2> QED
    BY <1>b, <2>1 DEF Moves, SameWaits, Over, HasBoth
<1>4. ASSUME NEW a \in Answers, GaveUp(a) PROVE Owned'
  <2>1. /\ Moves(a, "undo") /\ \A l \in Legs : Waiting(a, l)' <=> leg[a][l] # None
        /\ \A h \in Handlers : h # a => \A l \in Legs : Waiting(h, l)' <=> Waiting(h, l)
        /\ UNCHANGED <<stage, leg>>
    BY <1>4, GaveUpParts
  <2> QED
    BY <1>b, <2>1 DEF Moves
<1>5. ASSUME NEW a \in Answers, RefusedNow(a) PROVE Owned'
  <2>1. /\ pc[a] \in {"tcore", "undo"} /\ Moves(a, "refused") /\ SameWaits
        /\ pc[a] = "tcore" => \A l \in Legs : leg[a][l] = None
        /\ \A l \in Legs : ~Waiting(a, l)
        /\ UNCHANGED <<stage, leg>>
    BY <1>5, RefusedParts
  <2> QED
    BY <1>b, <2>1 DEF Moves, SameWaits, Over
<1>6. ASSUME NEW d \in Deletes, NEW c \in Calls, Asked(d, c) PROVE Owned'
  <2>1. /\ \A h \in Handlers : h # d => \A l \in Legs : Waiting(h, l)' <=> Waiting(h, l)
        /\ UNCHANGED <<stage, pc, leg>>
    BY <1>6, AskedParts
  <2>2. \A a \in Answers : a # d
    BY CallAssumption
  <2> QED
    BY <1>b, <2>1, <2>2
<1>7. ASSUME NEW h \in Handlers, CloseNext(h) PROVE Owned'
  <2>1. PICK l \in Legs : Closing(h, l)
    BY <1>7, CloseParts
  <2>2. /\ pc' = pc /\ call' = call /\ leg' = leg
        /\ \A g \in Handlers : g # h => toClose'[g] = toClose[g]
        /\ \A m \in Legs : m # l => (Waiting(h, m)' <=> Waiting(h, m))
    BY <2>1 DEF Closing
  <2>3. /\ \A p \in Objs : stage'[p] = "open" => stage[p] = "open"
        /\ \A p \in Objs : stage'[p] = "open" => sid[p] # <<call[h], l>>
    BY <2>1 DEF Closing, OneOpen, OpenWith, OpenSessions
  <2>4. ASSUME NEW p \in Objs, stage'[p] = "open"
        PROVE  \E b \in Answers : \E m \in Legs :
                 leg'[b][m] = p /\ (pc'[b] \notin Over \/ Waiting(b, m)')
    <3>1. PICK b \in Answers, m \in Legs :
            leg[b][m] = p /\ (pc[b] \notin Over \/ Waiting(b, m))
      BY <1>0, <2>3, <2>4
    <3>2. p # None
      BY StoreAssumption
    <3>3. sid[p] = <<call[b], m>>
      BY <3>1, <3>2 DEF LegsMade
    <3>4. b # h \/ m # l
      BY <2>3, <2>4, <3>3
    <3>5. Waiting(b, m) => Waiting(b, m)'
      BY <2>2, <3>4, SameWait
    <3> QED
      BY <2>2, <3>1, <3>5
  <2> QED
    BY <1>a, <2>4
<1>8. ASSUME NEW o \in Objs, Ended(o) \/ Collected(o) PROVE Owned'
  <2>1. (Passes(o, "unlinked", "ended") \/ Passes(o, "open", "unlinked")) /\ SameWaits
    BY <1>8, PassesParts
  <2>2. \A p \in Objs : stage'[p] = "open" => stage[p] = "open"
    BY <2>1 DEF Passes
  <2>3. UNCHANGED <<pc, leg>>
    BY <2>1 DEF Passes
  <2> QED
    BY <1>b, <2>1, <2>2, <2>3 DEF SameWaits
<1>9. ASSUME Heard PROVE Owned'
  BY <1>9, <1>b, HeardParts DEF SameWaits
<1> QED
  BY <1>1, <1>2, <1>3, <1>4, <1>5, <1>6, <1>7, <1>8, <1>9 DEF Kinds

-----------------------------------------------------------------------------
(* Handlers close only sessions of their own.                              *)

(* What the record of the past says of the state just left.                *)
LEMMA PastParts ==
  ASSUME TypeOK, PastAfter
  PROVE  (past'.busy => BusyNow) /\ (past'.orderly => OrderlyNow)
<1>1. /\ past'.busy = (past.busy /\
             \A o \in Objs : stage[o] = "unlinked" => \E h \in Handlers : closing[h] = o)
      /\ past'.orderly = (past.orderly /\
             \A d \in Deletes, a \in Answers :
               Deleting(d) /\ call[a] = call[d] => pc[a] \in {"ok", "undo", "refused"})
  BY DEF PastAfter
<1> QED
  BY <1>1 DEF BusyNow, OrderlyNow

(* A handler keeps its call.                                               *)
LEMMA CallsKept ==
  ASSUME TypeOK, LegsMade, Closes, Kinds
  PROVE  \A h \in Handlers : call[h] # None => call'[h] = call[h]
<1>1. ASSUME NEW a \in Answers, NEW c \in Calls, Begun(a, c)
      PROVE  \A h \in Handlers : call[h] # None => call'[h] = call[h]
  <2>1. call[a] = None /\ \A h \in Handlers : h # a => call'[h] = call[h]
    BY <1>1, BegunParts
  <2> QED
    BY <2>1
<1>2. ASSUME NEW a \in Answers, NEW l \in Legs, NEW o \in Objs, Made(a, l, o) PROVE call' = call
  BY <1>2, MadeParts
<1>3. ASSUME NEW a \in Answers, Advanced(a) \/ GaveUp(a) \/ RefusedNow(a) PROVE call' = call
  BY <1>3, AdvancedParts, GaveUpParts, RefusedParts
<1>4. ASSUME NEW d \in Deletes, NEW c \in Calls, Asked(d, c)
      PROVE  \A h \in Handlers : call[h] # None => call'[h] = call[h]
  <2>1. call[d] = None /\ \A h \in Handlers : h # d => call'[h] = call[h]
    BY <1>4, AskedParts
  <2> QED
    BY <2>1
<1>5. ASSUME NEW h \in Handlers, CloseNext(h) PROVE call' = call
  BY <1>5, CloseParts DEF Closing
<1>6. ASSUME NEW o \in Objs, Ended(o) \/ Collected(o) PROVE call' = call
  BY <1>6, PassesParts DEF Passes
<1>7. ASSUME Heard PROVE call' = call
  BY <1>7, HeardParts
<1> QED
  BY <1>1, <1>2, <1>3, <1>4, <1>5, <1>6, <1>7 DEF Kinds

(* An ANSWER whose call no DELETE names had none before.                   *)
LEMMA NotDeletedBefore ==
  ASSUME TypeOK, LegsMade, Closes, Kinds, NEW a \in Answers, call[a] # None, NotDeleted(a)'
  PROVE  NotDeleted(a)
<1> USE DEF Handlers
<1>1. call'[a] = call[a]
  BY CallsKept
<1>2. ASSUME NEW d \in Deletes PROVE call[d] # call[a]
  BY <1>1, <1>2, CallsKept DEF NotDeleted
<1> QED
  BY <1>2 DEF NotDeleted

(* While gc and DELETE keep off a call, its ANSWER's legs stay open.       *)
LEMMA StepKept ==
  ASSUME TypeOK, LegsMade, LegsDiffer, OneOpen, Closes, Kept, Kinds, PastAfter
  PROVE  Kept'
<1> USE DEF Handlers
<1> SUFFICES ASSUME BusyNow' PROVE Kept'
  BY DEF Kept
<1>0. /\ \A a \in Answers : \A l \in Legs :
           leg[a][l] # None /\ NotDeleted(a) /\ (pc[a] \notin Over \/ Waiting(a, l))
             => stage[leg[a][l]] = "open"
      /\ \A a \in Answers : \A l \in Legs : leg[a][l] # None => leg[a][l] \in Objs /\ call[a] # None
      /\ \A o \in Objs : o # None
  <2>1. BusyNow
    BY PastParts DEF BusyNow
  <2>2. \A a \in Answers : \A l \in Legs : leg[a][l] # None => call[a] # None
    BY DEF LegsMade
  <2>3. \A a \in Answers : \A l \in Legs : leg[a][l] \in Objs \cup {None}
    BY TypeParts
  <2> QED
    BY <2>1, <2>2, <2>3, StoreAssumption DEF Kept
<1>a. ASSUME \A a \in Answers : \A l \in Legs :
               leg'[a][l] # None /\ NotDeleted(a)' /\ (pc'[a] \notin Over \/ Waiting(a, l)')
                 => stage'[leg'[a][l]] = "open"
      PROVE  Kept'
  BY <1>a DEF Kept
<1>b. ASSUME leg' = leg, \A o \in Objs : stage[o] = "open" => stage'[o] = "open",
             \A a \in Answers : \A l \in Legs :
               leg[a][l] # None /\ (pc'[a] \notin Over \/ Waiting(a, l)')
                 => (pc[a] \notin Over \/ Waiting(a, l))
      PROVE  Kept'
  <2>1. ASSUME NEW a \in Answers, NEW l \in Legs, leg[a][l] # None, NotDeleted(a)',
               pc'[a] \notin Over \/ Waiting(a, l)'
        PROVE  stage'[leg[a][l]] = "open"
    <3>1. NotDeleted(a)
      BY <1>0, <2>1, NotDeletedBefore
    <3>2. leg[a][l] \in Objs /\ stage[leg[a][l]] = "open"
      BY <1>0, <1>b, <2>1, <3>1
    <3> QED
      BY <1>b, <3>2
  <2> QED
    BY <1>a, <1>b, <2>1
<1>1. ASSUME NEW a \in Answers, NEW c \in Calls, Begun(a, c) PROVE Kept'
  <2>1. pc[a] = "idle" /\ Moves(a, "tcore") /\ SameWaits /\ UNCHANGED <<stage, leg>>
    BY <1>1, BegunParts
  <2> QED
    BY <1>b, <2>1 DEF Moves, SameWaits, Over
<1>2. ASSUME NEW a \in Answers, NEW l \in Legs, NEW o \in Objs, Made(a, l, o) PROVE Kept'
  <2>1. /\ pc[a] \in {"tcore", "taccess"} /\ (Moves(a, "taccess") \/ Moves(a, "port1")) /\ SameWaits
        /\ leg'[a][l] = o
        /\ \A b \in Answers : \A m \in Legs : b # a \/ m # l => leg'[b][m] = leg[b][m]
        /\ stage[o] = "absent" /\ stage'[o] = "open"
        /\ \A p \in Objs : p # o => stage'[p] = stage[p]
    BY <1>2, MadeParts
  <2>2. ASSUME NEW b \in Answers, NEW m \in Legs, leg'[b][m] # None, NotDeleted(b)',
               pc'[b] \notin Over \/ Waiting(b, m)'
        PROVE  stage'[leg'[b][m]] = "open"
    <3>1. CASE b = a /\ m = l
      BY <2>1, <3>1
    <3>2. CASE b # a \/ m # l
      <4>1. leg'[b][m] = leg[b][m]
        BY <2>1, <3>2
      <4>2. pc[b] \notin Over \/ Waiting(b, m)
        BY <2>1, <2>2 DEF Moves, Over, SameWaits
      <4>3. NotDeleted(b)
        BY <1>0, <2>2, <4>1, NotDeletedBefore
      <4>4. leg[b][m] \in Objs /\ stage[leg[b][m]] = "open"
        BY <1>0, <2>2, <4>1, <4>2, <4>3
      <4> QED
        BY <2>1, <4>1, <4>4
    <3> QED
      BY <3>1, <3>2
  <2> QED
    BY <1>a, <2>2
<1>3. ASSUME NEW a \in Answers, Advanced(a) PROVE Kept'
  <2>1. /\ pc[a] \in HasBoth /\ SameWaits /\ \E s \in HasBoth : Moves(a, s)
        /\ UNCHANGED <<stage, leg>>
    BY <1>3, AdvancedParts
  <2> QED
    BY <1>b, <2>1 DEF Moves, SameWaits, Over, HasBoth
<1>4. ASSUME NEW a \in Answers, GaveUp(a) PROVE Kept'
  <2>1. /\ pc[a] \notin Over /\ Moves(a, "undo")
        /\ \A h \in Handlers : h # a => \A l \in Legs : Waiting(h, l)' <=> Waiting(h, l)
        /\ UNCHANGED <<stage, leg>>
    BY <1>4, GaveUpParts
  <2> QED
    BY <1>b, <2>1 DEF Moves
<1>5. ASSUME NEW a \in Answers, RefusedNow(a) PROVE Kept'
  <2>1. /\ Moves(a, "refused") /\ SameWaits /\ UNCHANGED <<stage, leg>>
    BY <1>5, RefusedParts
  <2> QED
    BY <1>b, <2>1 DEF Moves, SameWaits, Over
<1>6. ASSUME NEW d \in Deletes, NEW c \in Calls, Asked(d, c) PROVE Kept'
  <2>1. /\ \A h \in Handlers : h # d => \A l \in Legs : Waiting(h, l)' <=> Waiting(h, l)
        /\ UNCHANGED <<stage, pc, leg>>
    BY <1>6, AskedParts
  <2>2. \A a \in Answers : a # d
    BY CallAssumption
  <2> QED
    BY <1>b, <2>1, <2>2
<1>7. ASSUME NEW h \in Handlers, CloseNext(h) PROVE Kept'
  <2>1. PICK l \in Legs : Closing(h, l)
    BY <1>7, CloseParts
  <2>2. /\ toClose[h] # <<>> /\ Waiting(h, l) /\ ~Waiting(h, l)'
        /\ pc' = pc /\ call' = call /\ leg' = leg
        /\ \A g \in Handlers : g # h => toClose'[g] = toClose[g]
        /\ \A m \in Legs : m # l => (Waiting(h, m)' <=> Waiting(h, m))
        /\ \A p \in Objs : stage[p] = "open" =>
             stage'[p] = "open" \/ sid[p] = <<call[h], l>>
    BY <2>1 DEF Closing
  <2>3. \A g \in Handlers : \A m \in Legs : Waiting(g, m)' => Waiting(g, m)
    BY <2>2, SameWait
  <2>4. ASSUME NEW a \in Answers, NEW m \in Legs, leg[a][m] # None, NotDeleted(a)',
               pc[a] \notin Over \/ Waiting(a, m)'
        PROVE  stage'[leg[a][m]] = "open"
    <3>1. NotDeleted(a) /\ (pc[a] \notin Over \/ Waiting(a, m))
      BY <1>0, <2>3, <2>4, NotDeletedBefore
    <3>2. leg[a][m] \in Objs /\ stage[leg[a][m]] = "open" /\ sid[leg[a][m]] = <<call[a], m>>
      BY <1>0, <2>4, <3>1 DEF LegsMade
    <3>3. ASSUME sid[leg[a][m]] = <<call[h], l>> PROVE FALSE
      <4>1. call[h] = call[a] /\ l = m
        BY <3>2, <3>3
      <4>2. h \in Answers
        BY <3>1, <4>1 DEF NotDeleted
      <4>3. leg[h][l] # None /\ NotDeleted(h)
        BY <2>2, <3>1, <4>1, <4>2 DEF Closes, NotDeleted
      <4>4. leg[h][l] \in Objs /\ stage[leg[h][l]] = "open" /\ sid[leg[h][l]] = <<call[h], l>>
        BY <1>0, <2>2, <4>2, <4>3 DEF LegsMade
      <4>5. leg[h][l] = leg[a][m]
        BY <3>2, <3>3, <4>4 DEF OneOpen, OpenSessions
      <4>6. h = a
        BY <4>2, <4>3, <4>5 DEF LegsDiffer
      <4>7. pc[h] = "undo"
        BY <2>2, <4>2 DEF Closes
      <4> QED
        BY <2>2, <2>4, <4>1, <4>6, <4>7 DEF Over
    <3> QED
      BY <2>2, <3>2, <3>3
  <2> QED
    BY <1>a, <2>2, <2>4
<1>8. ASSUME NEW o \in Objs, Ended(o) PROVE Kept'
  <2>1. Passes(o, "unlinked", "ended") /\ SameWaits
    BY <1>8, PassesParts
  <2>2. \A p \in Objs : stage[p] = "open" => stage'[p] = "open"
    BY <2>1 DEF Passes
  <2>3. UNCHANGED <<pc, leg>>
    BY <2>1 DEF Passes
  <2> QED
    BY <1>b, <2>1, <2>2, <2>3 DEF SameWaits
<1>9. ASSUME NEW o \in Objs, Collected(o) PROVE FALSE
  <2>1. stage[o] = "open" /\ stage'[o] = "unlinked" /\ closing' = closing
    BY <1>9, PassesParts DEF Passes
  <2>2. PICK h \in Handlers : closing[h] = o
    BY <2>1 DEF BusyNow
  <2> QED
    BY <1>0, <2>1, <2>2 DEF Closes
<1>10. ASSUME Heard PROVE Kept'
  BY <1>10, <1>b, HeardParts DEF SameWaits
<1> QED
  BY <1>1, <1>2, <1>3, <1>4, <1>5, <1>6, <1>7, <1>8, <1>9, <1>10 DEF Kinds

(* A handler's next Close hits the leg it has kept.                        *)
LEMMA StepClosesOwn ==
  ASSUME TypeOK, LegsMade, OneOpen, Closes, Kept, ClosesOwn, Kinds, PastAfter
  PROVE  ClosesOwn'
<1> USE DEF Handlers
<1> SUFFICES ASSUME NEW a \in Answers, past'.busy, closing'[a] # None, NotDeleted(a)'
             PROVE  \E l \in Legs : leg'[a][l] = closing'[a]
  BY DEF ClosesOwn, NotDeleted, CreatedBy
<1>0. BusyNow /\ past.busy
  BY PastParts DEF BusyNow
<1>1. CASE closing'[a] = closing[a]
  <2>1. call[a] # None /\ NotDeleted(a)
    BY <1>1, NotDeletedBefore DEF Closes
  <2>2. PICK l \in Legs : leg[a][l] = closing[a]
    BY <1>0, <1>1, <2>1 DEF ClosesOwn, NotDeleted, CreatedBy
  <2>3. leg'[a][l] = leg[a][l]
    <3>1. ASSUME NEW b \in Answers, NEW m \in Legs, NEW o \in Objs, Made(b, m, o)
          PROVE  leg'[a][l] = leg[a][l]
      <4>1. /\ leg[b][m] = None
            /\ \A x \in Answers : \A y \in Legs : x # b \/ y # m => leg'[x][y] = leg[x][y]
        BY <3>1, MadeParts
      <4> QED
        BY <1>1, <2>2, <4>1
    <3> QED
      BY <3>1, LegsKept
  <2> QED
    BY <1>1, <2>2, <2>3
<1>2. CASE closing'[a] # closing[a]
  <2>1. CloseNext(a)
    <3>1. ASSUME NEW b \in Answers, NEW c \in Calls, Begun(b, c) PROVE closing' = closing
      BY <3>1, BegunParts
    <3>2. ASSUME NEW b \in Answers, NEW l \in Legs, NEW o \in Objs, Made(b, l, o)
          PROVE  closing' = closing
      BY <3>2, MadeParts
    <3>3. ASSUME NEW b \in Answers, Advanced(b) \/ GaveUp(b) \/ RefusedNow(b)
          PROVE  closing' = closing
      BY <3>3, AdvancedParts, GaveUpParts, RefusedParts
    <3>4. ASSUME NEW d \in Deletes, NEW c \in Calls, Asked(d, c) PROVE closing' = closing
      BY <3>4, AskedParts
    <3>5. ASSUME NEW h \in Handlers, CloseNext(h) PROVE h = a
      BY <1>2, <3>5, CloseParts DEF Closing
    <3>6. ASSUME NEW o \in Objs, Ended(o) \/ Collected(o) PROVE closing' = closing
      BY <3>6, PassesParts DEF Passes
    <3>7. ASSUME Heard PROVE closing' = closing
      BY <3>7, HeardParts
    <3> QED
      BY <1>2, <3>1, <3>2, <3>3, <3>4, <3>5, <3>6, <3>7 DEF Kinds
  <2>2. PICK l \in Legs : Closing(a, l)
    BY <2>1, CloseParts
  <2>3. /\ toClose[a] # <<>> /\ Waiting(a, l) /\ leg' = leg
        /\ \E o \in Objs : stage[o] = "open" /\ sid[o] = <<call[a], l>> /\ closing'[a] = o
    BY <2>2 DEF Closing
  <2>4. leg[a][l] # None /\ call[a] # None
    BY <2>3 DEF Closes
  <2>5. NotDeleted(a)
    BY <2>4, NotDeletedBefore
  <2>6. stage[leg[a][l]] = "open" /\ sid[leg[a][l]] = <<call[a], l>> /\ leg[a][l] \in Objs
    <3>1. leg[a][l] \in Objs \cup {None}
      BY TypeParts
    <3> QED
      BY <1>0, <2>3, <2>4, <2>5, <3>1 DEF Kept, LegsMade
  <2>7. leg[a][l] = closing'[a]
    BY <2>3, <2>6 DEF OneOpen, OpenSessions
  <2> QED
    BY <2>3, <2>7
<1> QED
  BY <1>1, <1>2

-----------------------------------------------------------------------------
(* A DELETE after the ANSWER closes both legs.                             *)

Settled == {"ok", "undo", "refused"}

(* An ANSWER that was answered, or has given up, does not go back.         *)
LEMMA StaysSettled ==
  ASSUME TypeOK, LegsMade, Closes, Kinds
  PROVE  \A a \in Answers : pc[a] \in Settled => pc'[a] \in Settled
<1>1. ASSUME NEW a \in Answers, NEW c \in Calls, Begun(a, c)
      PROVE  pc[a] \notin Settled /\ \A b \in Answers : b # a => pc'[b] = pc[b]
  BY <1>1, BegunParts DEF Moves, Settled
<1>2. ASSUME NEW a \in Answers, NEW l \in Legs, NEW o \in Objs, Made(a, l, o)
      PROVE  pc[a] \notin Settled /\ \A b \in Answers : b # a => pc'[b] = pc[b]
  <2>1. pc[a] \in {"tcore", "taccess"} /\ (Moves(a, "taccess") \/ Moves(a, "port1"))
    BY <1>2, MadeParts
  <2> QED
    BY <2>1 DEF Moves, Settled
<1>3. ASSUME NEW a \in Answers, Advanced(a)
      PROVE  pc[a] \notin Settled /\ \A b \in Answers : b # a => pc'[b] = pc[b]
  <2>1. pc[a] \in HasBoth \ {"ok"} /\ \E s \in HasBoth : Moves(a, s)
    BY <1>3, AdvancedParts
  <2> QED
    BY <2>1 DEF Moves, HasBoth, Settled
<1>4. ASSUME NEW a \in Answers, GaveUp(a) \/ RefusedNow(a)
      PROVE  pc'[a] \in Settled /\ \A b \in Answers : b # a => pc'[b] = pc[b]
  <2>1. Moves(a, "undo") \/ Moves(a, "refused")
    BY <1>4, GaveUpParts, RefusedParts
  <2> QED
    BY <2>1 DEF Moves, Settled
<1>5. ASSUME NEW d \in Deletes, NEW c \in Calls, Asked(d, c) PROVE pc' = pc
  BY <1>5, AskedParts
<1>6. ASSUME NEW h \in Handlers, CloseNext(h) PROVE pc' = pc
  BY <1>6, CloseParts DEF Closing
<1>7. ASSUME NEW o \in Objs, Ended(o) \/ Collected(o) PROVE pc' = pc
  BY <1>7, PassesParts DEF Passes
<1>8. ASSUME Heard PROVE pc' = pc
  BY <1>8, HeardParts
<1> QED
  BY <1>1, <1>2, <1>3, <1>4, <1>5, <1>6, <1>7, <1>8 DEF Kinds

(* A DELETE finds only what an ANSWER has left in the map.                 *)
LEMMA StepFound ==
  ASSUME TypeOK, LegsMade, Closes, Owned, Found, Kinds, PastAfter
  PROVE  Found'
<1> USE DEF Handlers
<1> SUFFICES ASSUME past'.orderly, NEW d \in Deletes, served'[d]
             PROVE  \E b \in Answers : call'[b] = call'[d] /\ pc'[b] \in Settled
  BY DEF Found, Settled
<1>0. OrderlyNow /\ past.orderly
  BY PastParts DEF OrderlyNow
<1>1. CASE served[d]
  <2>1. PICK b \in Answers : call[b] = call[d] /\ pc[b] \in Settled
    BY <1>0, <1>1 DEF Found, Settled
  <2>2. call[b] # None
    BY <2>1 DEF LegsMade, Settled
  <2> QED
    BY <2>1, <2>2, CallsKept, StaysSettled
<1>2. CASE ~served[d]
  <2>1. PICK h \in Handlers : CloseNext(h)
    <3>1. ASSUME NEW b \in Answers, NEW c \in Calls, Begun(b, c) PROVE served' = served
      BY <3>1, BegunParts
    <3>2. ASSUME NEW b \in Answers, NEW l \in Legs, NEW o \in Objs, Made(b, l, o)
          PROVE  served' = served
      BY <3>2, MadeParts
    <3>3. ASSUME NEW b \in Answers, Advanced(b) \/ GaveUp(b) \/ RefusedNow(b)
          PROVE  served' = served
      BY <3>3, AdvancedParts, GaveUpParts, RefusedParts
    <3>4. ASSUME NEW e \in Deletes, NEW c \in Calls, Asked(e, c) PROVE served' = served
      BY <3>4, AskedParts
    <3>5. ASSUME NEW o \in Objs, Ended(o) \/ Collected(o) PROVE served' = served
      BY <3>5, PassesParts DEF Passes
    <3>6. ASSUME Heard PROVE served' = served
      BY <3>6, HeardParts
    <3> QED
      BY <1>2, <3>1, <3>2, <3>3, <3>4, <3>5, <3>6 DEF Kinds
  <2>2. PICK l \in Legs : Closing(h, l)
    BY <2>1, CloseParts
  <2>3. /\ d = h /\ OpenWith(<<call[d], l>>) # {} /\ toClose[d] # <<>>
        /\ call' = call /\ pc' = pc
    BY <1>2, <2>2 DEF Closing
  <2>4. PICK o \in OpenSessions : sid[o] = <<call[d], l>>
    BY <2>3 DEF OpenWith
  <2>5. PICK a \in Answers, m \in Legs : leg[a][m] = o
    BY DEF Owned
  <2>6. o # None
    BY StoreAssumption DEF OpenSessions
  <2>7. call[a] = call[d]
    BY <2>4, <2>5, <2>6 DEF LegsMade
  <2>8. pc[a] \in Settled
    BY <1>0, <2>3, <2>7 DEF OrderlyNow, Deleting, Settled
  <2> QED
    BY <2>3, <2>7, <2>8
<1> QED
  BY <1>1, <1>2

(* Every step keeps: a DELETE has closed a leg, or has it on its list.     *)
LEMMA StepDeleted ==
  ASSUME TypeOK, LegsMade, OneOpen, Closes, Found, Deleted, Kinds, PastAfter
  PROVE  Deleted'
<1> USE DEF Handlers
<1> SUFFICES ASSUME past'.orderly, NEW d \in Deletes, NEW a \in Answers,
                    call'[d] # None, call'[a] = call'[d], pc'[a] = "ok",
                    \A b \in Answers : call'[b] = call'[d] => b = a,
                    toClose'[d] # <<>> \/ served'[d],
                    NEW l \in Legs, ~Waiting(d, l)'
             PROVE  \A o \in Objs : stage'[o] = "open" => sid'[o] # <<call'[d], l>>
  BY DEF Deleted, OpenWith, OpenSessions
<1>0. OrderlyNow /\ past.orderly
  BY PastParts DEF OrderlyNow
<1>a. ASSUME call[d] # None, call[a] # None, pc[a] = "ok", toClose[d] # <<>> \/ served[d],
             ~Waiting(d, l)
      PROVE  /\ \A o \in Objs : stage[o] = "open" => sid[o] # <<call'[d], l>>
             /\ \A b \in Answers : call[b] = call[d] => b = a
  <2>1. call'[d] = call[d] /\ call'[a] = call[a]
    BY <1>a, CallsKept
  <2>2. \A b \in Answers : call[b] = call[d] => b = a
    BY <1>a, <2>1, CallsKept
  <2>3. OpenWith(<<call[d], l>>) = {}
    BY <1>0, <1>a, <2>1, <2>2 DEF Deleted
  <2> QED
    BY <2>1, <2>2, <2>3 DEF OpenWith, OpenSessions
<1>b. a # d
  BY CallAssumption
<1>1. ASSUME NEW b \in Answers, NEW c \in Calls, Begun(b, c)
      PROVE  \A o \in Objs : stage'[o] = "open" => sid'[o] # <<call'[d], l>>
  <2>1. /\ Moves(b, "tcore") /\ SameWaits
        /\ \A h \in Handlers : h # b => call'[h] = call[h]
        /\ UNCHANGED <<stage, sid, toClose, served>>
    BY <1>1, BegunParts
  <2>2. b # a /\ b # d
    BY <2>1, CallAssumption DEF Moves
  <2> QED
    BY <1>a, <2>1, <2>2 DEF Moves, SameWaits
<1>2. ASSUME NEW b \in Answers, NEW m \in Legs, NEW o \in Objs, Made(b, m, o)
      PROVE  \A p \in Objs : stage'[p] = "open" => sid'[p] # <<call'[d], l>>
  <2>1. /\ (Moves(b, "taccess") \/ Moves(b, "port1")) /\ SameWaits
        /\ sid'[o] = <<call[b], m>>
        /\ \A p \in Objs : p # o => stage'[p] = stage[p] /\ sid'[p] = sid[p]
        /\ UNCHANGED <<call, toClose, served>>
    BY <1>2, MadeParts
  <2>2. b # a /\ pc'[a] = pc[a]
    BY <2>1 DEF Moves
  <2>3. \A p \in Objs : stage[p] = "open" => sid[p] # <<call'[d], l>>
    BY <1>a, <2>1, <2>2 DEF SameWaits
  <2>4. call[b] # call'[d]
    BY <2>1, <2>2
  <2> QED
    BY <2>1, <2>3, <2>4
<1>3. ASSUME NEW b \in Answers, Advanced(b)
      PROVE  \A o \in Objs : stage'[o] = "open" => sid'[o] # <<call'[d], l>>
  <2>1. /\ SameWaits /\ \E s \in HasBoth : Moves(b, s) /\ (s = "ok" => pc[b] = "start2")
        /\ UNCHANGED <<stage, sid, call, toClose, served>>
    BY <1>3, AdvancedParts
  <2>2. CASE b = a
    <3>1. pc[a] = "start2"
      BY <2>1, <2>2 DEF Moves
    <3>2. toClose[d] = <<>>
      BY <1>0, <2>1, <3>1 DEF OrderlyNow, Deleting
    <3>3. PICK x \in Answers : call[x] = call[d] /\ pc[x] \in {"ok", "undo", "refused"}
      BY <1>0, <2>1, <3>2 DEF Found
    <3>4. x = a
      BY <2>1, <3>3
    <3> QED
      BY <3>1, <3>3, <3>4
  <2>3. CASE b # a
    BY <1>a, <2>1, <2>3 DEF Moves, SameWaits
  <2> QED
    BY <2>2, <2>3
<1>4. ASSUME NEW b \in Answers, GaveUp(b)
      PROVE  \A o \in Objs : stage'[o] = "open" => sid'[o] # <<call'[d], l>>
  <2>1. /\ Moves(b, "undo")
        /\ \A h \in Handlers : h # b => toClose'[h] = toClose[h]
        /\ \A h \in Handlers : h # b => \A k \in Legs : Waiting(h, k)' <=> Waiting(h, k)
        /\ UNCHANGED <<stage, sid, call, served>>
    BY <1>4, GaveUpParts
  <2>2. b # a /\ b # d
    BY <2>1, CallAssumption DEF Moves
  <2> QED
    BY <1>a, <2>1, <2>2 DEF Moves
<1>5. ASSUME NEW b \in Answers, RefusedNow(b)
      PROVE  \A o \in Objs : stage'[o] = "open" => sid'[o] # <<call'[d], l>>
  <2>1. /\ Moves(b, "refused") /\ SameWaits
        /\ UNCHANGED <<stage, sid, call, toClose, served>>
    BY <1>5, RefusedParts
  <2>2. b # a
    BY <2>1 DEF Moves
  <2> QED
    BY <1>a, <2>1, <2>2 DEF Moves, SameWaits
<1>6. ASSUME NEW e \in Deletes, NEW c \in Calls, Asked(e, c)
      PROVE  \A o \in Objs : stage'[o] = "open" => sid'[o] # <<call'[d], l>>
  <2>1. /\ \A k \in Legs : Waiting(e, k)'
        /\ \A h \in Handlers : h # e => call'[h] = call[h] /\ toClose'[h] = toClose[h]
        /\ \A h \in Handlers : h # e => \A k \in Legs : Waiting(h, k)' <=> Waiting(h, k)
        /\ UNCHANGED <<stage, sid, pc, served>>
    BY <1>6, AskedParts
  <2>2. e # d /\ e # a
    BY <2>1, CallAssumption
  <2> QED
    BY <1>a, <2>1, <2>2
<1>7. ASSUME NEW h \in Handlers, CloseNext(h)
      PROVE  \A o \in Objs : stage'[o] = "open" => sid'[o] # <<call'[d], l>>
  <2>1. PICK k \in Legs : Closing(h, k)
    BY <1>7, CloseParts
  <2>2. /\ toClose[h] # <<>> /\ pc' = pc /\ call' = call /\ sid' = sid
        /\ \A g \in Handlers : g # h => toClose'[g] = toClose[g]
        /\ \A m \in Legs : m # k => (Waiting(h, m)' <=> Waiting(h, m))
        /\ d # h /\ served'[d] => served[d]
        /\ \A o \in Objs : stage'[o] = "open" => stage[o] = "open"
    BY <2>1 DEF Closing
  <2>3. \A o \in Objs : stage'[o] = "open" => sid[o] # <<call[h], k>>
    <3>1. CASE OpenWith(<<call[h], k>>) = {}
      BY <2>2, <3>1 DEF OpenWith, OpenSessions
    <3>2. CASE OpenWith(<<call[h], k>>) # {}
      <4>1. PICK p \in Objs : /\ stage[p] = "open" /\ sid[p] = <<call[h], k>>
                             /\ stage'[p] = "unlinked"
        BY <2>1, <3>2 DEF Closing
      <4>2. \A o \in Objs : stage[o] = "open" /\ sid[o] = <<call[h], k>> => o = p
        BY <4>1 DEF OneOpen, OpenSessions
      <4> QED
        BY <2>2, <4>1, <4>2
    <3> QED
      BY <3>1, <3>2
  <2>4. CASE d = h /\ l = k
    BY <2>2, <2>3, <2>4
  <2>5. CASE d = h /\ l # k
    <3>1. ~Waiting(d, l)
      BY <2>2, <2>5
    <3> QED
      BY <1>a, <2>2, <2>5, <3>1
  <2>6. CASE d # h
    <3>1. ~Waiting(d, l)
      BY <2>2, <2>6, SameWait
    <3> QED
      BY <1>a, <2>2, <2>6, <3>1
  <2> QED
    BY <2>4, <2>5, <2>6
<1>8. ASSUME NEW p \in Objs, Ended(p) \/ Collected(p)
      PROVE  \A o \in Objs : stage'[o] = "open" => sid'[o] # <<call'[d], l>>
  <2>1. (Passes(p, "unlinked", "ended") \/ Passes(p, "open", "unlinked")) /\ SameWaits
    BY <1>8, PassesParts
  <2>2. \A o \in Objs : stage'[o] = "open" => stage[o] = "open"
    BY <2>1 DEF Passes
  <2>3. UNCHANGED <<sid, pc, call, toClose, served>>
    BY <2>1 DEF Passes
  <2> QED
    BY <1>a, <2>1, <2>2, <2>3 DEF SameWaits
<1>9. ASSUME Heard
      PROVE  \A o \in Objs : stage'[o] = "open" => sid'[o] # <<call'[d], l>>
  BY <1>9, <1>a, HeardParts DEF SameWaits
<1> QED
  BY <1>1, <1>2, <1>3, <1>4, <1>5, <1>6, <1>7, <1>8, <1>9 DEF Kinds

-----------------------------------------------------------------------------
(* The ports an ANSWER holds.                                              *)

(* What taking a port from the stack changes.                              *)
LEMMA AcquireParts ==
  ASSUME TypeOK, NEW a \in Answers, NEW l \in Legs, Acquire(a, l)
  PROVE  /\ free # <<>> /\ free' = Front(free) /\ held'[a][l] = Last(free)
         /\ Last(free) \in Ports /\ Last(free) # None
         /\ \A b \in Answers : \A m \in Legs : b # a \/ m # l => held'[b][m] = held[b][m]
         /\ UNCHANGED <<others, sock, port>>
<1>1. Last(free) \in Ports
  BY TypeParts, StackMoves DEF Acquire
<1>2. Last(free) # None
  BY <1>1, CallAssumption
<1> QED
  BY <1>1, <1>2, TypeParts DEF Acquire

(* What returning an unused port changes.                                  *)
LEMMA GiveBackParts ==
  ASSUME TypeOK, NEW a \in Answers, NEW l \in Legs, GiveBack(a, l)
  PROVE  /\ free' = Append(free, held[a][l]) /\ held'[a][l] = None
         /\ \A b \in Answers : \A m \in Legs : b # a \/ m # l => held'[b][m] = held[b][m]
         /\ UNCHANGED <<others, sock, port>>
BY TypeParts DEF GiveBack

(* What binding a listener changes: the port goes from handler to session. *)
LEMMA BindParts ==
  ASSUME TypeOK, NEW a \in Answers, NEW l \in Legs, Bind(a, l), leg[a][l] # None
  PROVE  /\ leg[a][l] \in Objs /\ held'[a][l] = None
         /\ sock'[leg[a][l]] = "open" /\ port'[leg[a][l]] = held[a][l]
         /\ \A o \in Objs : o # leg[a][l] => sock'[o] = sock[o] /\ port'[o] = port[o]
         /\ \A b \in Answers : \A m \in Legs : b # a \/ m # l => held'[b][m] = held[b][m]
         /\ UNCHANGED <<free, others>>
<1>1. leg[a][l] \in Objs
  BY TypeParts
<1> QED
  BY <1>1, TypeParts DEF Bind

(* Holds, for one ANSWER.                                                  *)
HoldsOf(s, h) ==
  /\ h["tcore"] # None <=> s \in {"port2", "bind1", "give1"}
  /\ h["taccess"] # None => s \in {"bind1", "bind2", "give1", "give2"}
  /\ s \in {"bind1", "bind2", "give2"} => h["taccess"] # None

(* Holds is a matter of each ANSWER by itself.                             *)
LEMMA HoldsByAnswer == Holds <=> \A a \in Answers : HoldsOf(pc[a], held[a])
BY DEF Holds, HoldsOf

(* The same after a step.                                                  *)
LEMMA HoldsNext == Holds' <=> \A a \in Answers : HoldsOf(pc'[a], held'[a])
BY DEF Holds, HoldsOf

(* A step of one ANSWER is a matter of its own ports.                      *)
LEMMA OneHolds ==
  ASSUME Holds, NEW a \in Answers, NEW s, Moves(a, s),
         \A b \in Answers : b # a => \A l \in Legs : held'[b][l] = held[b][l],
         HoldsOf(s, held'[a])
  PROVE  Holds'
<1>1. ASSUME NEW b \in Answers PROVE HoldsOf(pc'[b], held'[b])
  <2>1. CASE b = a
    BY <2>1 DEF Moves
  <2>2. CASE b # a
    <3>1. pc'[b] = pc[b] /\ held'[b]["tcore"] = held[b]["tcore"]
          /\ held'[b]["taccess"] = held[b]["taccess"]
      BY <2>2 DEF Moves, Legs
    <3> QED
      BY <3>1, HoldsByAnswer DEF HoldsOf
  <2> QED
    BY <2>1, <2>2
<1> QED
  BY <1>1, HoldsNext

(* Every step keeps which ports an ANSWER holds at each of its places.     *)
LEMMA StepHolds ==
  ASSUME TypeOK, LegsMade, Holds, Step
  PROVE  Holds'
<1>0. \A a \in Answers : HoldsOf(pc[a], held[a])
  BY HoldsByAnswer
<1>a. "tcore" \in Legs /\ "taccess" \in Legs /\ Legs = {"tcore", "taccess"}
  BY DEF Legs
<1>b. ASSUME NEW a \in Answers, NEW s, GoTo(a, s), UNCHANGED held, HoldsOf(s, held[a])
      PROVE  Holds'
  BY <1>b, GoToMoves, OneHolds
<1>1. ASSUME NEW a \in Answers, NEW c \in Calls, Answer(a, c) PROVE Holds'
  <2>1. pc[a] = "idle" /\ GoTo(a, "tcore") /\ UNCHANGED held
    BY <1>1 DEF Answer, portVars
  <2> QED
    BY <1>0, <1>b, <2>1 DEF HoldsOf
<1>2. ASSUME NEW a \in Answers, CreateTCore(a) \/ CreateTAccess(a) PROVE Holds'
  <2>1. /\ pc[a] \in {"tcore", "taccess"} /\ UNCHANGED held
        /\ \E s \in {"taccess", "port1", "undo", "refused"} : GoTo(a, s)
    BY <1>2 DEF CreateTCore, CreateTAccess, Undo, portVars
  <2> QED
    BY <1>0, <1>b, <2>1 DEF HoldsOf
<1>3. ASSUME NEW a \in Answers, TakePort1(a) PROVE Holds'
  <2>1. CASE Acquire(a, "tcore") /\ GoTo(a, "port2")
    <3>1. /\ held'[a]["tcore"] # None /\ held'[a]["taccess"] = held[a]["taccess"]
          /\ \A b \in Answers : b # a => \A l \in Legs : held'[b][l] = held[b][l]
      BY <1>a, <2>1, AcquireParts
    <3>2. pc[a] = "port1"
      BY <1>3 DEF TakePort1
    <3>3. HoldsOf("port2", held'[a])
      BY <1>0, <3>1, <3>2 DEF HoldsOf
    <3> QED
      BY <2>1, <3>1, <3>3, GoToMoves, OneHolds
  <2>2. CASE pc[a] = "port1" /\ GoTo(a, "undo") /\ UNCHANGED held
    BY <1>0, <1>b, <2>2 DEF HoldsOf
  <2> QED
    BY <1>3, <2>1, <2>2 DEF TakePort1, Undo, portVars
<1>4. ASSUME NEW a \in Answers, TakePort2(a) PROVE Holds'
  <2>1. CASE Acquire(a, "taccess") /\ GoTo(a, "bind1")
    <3>1. /\ held'[a]["taccess"] # None /\ held'[a]["tcore"] = held[a]["tcore"]
          /\ \A b \in Answers : b # a => \A l \in Legs : held'[b][l] = held[b][l]
      BY <1>a, <2>1, AcquireParts
    <3>2. pc[a] = "port2"
      BY <1>4 DEF TakePort2
    <3>3. HoldsOf("bind1", held'[a])
      BY <1>0, <3>1, <3>2 DEF HoldsOf
    <3> QED
      BY <2>1, <3>1, <3>3, GoToMoves, OneHolds
  <2>2. CASE pc[a] = "port2" /\ GoTo(a, "give1") /\ UNCHANGED held
    BY <1>0, <1>b, <2>2 DEF HoldsOf
  <2> QED
    BY <1>4, <2>1, <2>2 DEF TakePort2, portVars
<1>5. ASSUME NEW a \in Answers, BindTCore(a) PROVE Holds'
  <2>0. pc[a] = "bind1" /\ leg[a]["tcore"] # None
    BY <1>5, <1>a DEF BindTCore, LegsMade, HasBoth
  <2>1. CASE Bind(a, "tcore") /\ GoTo(a, "bind2")
    <3>1. /\ held'[a]["tcore"] = None /\ held'[a]["taccess"] = held[a]["taccess"]
          /\ \A b \in Answers : b # a => \A l \in Legs : held'[b][l] = held[b][l]
      BY <1>a, <2>0, <2>1, BindParts
    <3>3. HoldsOf("bind2", held'[a])
      BY <1>0, <3>1, <2>0 DEF HoldsOf
    <3> QED
      BY <2>1, <3>1, <3>3, GoToMoves, OneHolds
  <2>2. CASE GoTo(a, "give1") /\ UNCHANGED held
    BY <1>0, <1>b, <2>0, <2>2 DEF HoldsOf
  <2> QED
    BY <1>5, <2>1, <2>2 DEF BindTCore, portVars
<1>6. ASSUME NEW a \in Answers, BindTAccess(a) PROVE Holds'
  <2>0. pc[a] = "bind2" /\ leg[a]["taccess"] # None
    BY <1>6, <1>a DEF BindTAccess, LegsMade, HasBoth
  <2>1. CASE Bind(a, "taccess") /\ GoTo(a, "start1")
    <3>1. /\ held'[a]["taccess"] = None /\ held'[a]["tcore"] = held[a]["tcore"]
          /\ \A b \in Answers : b # a => \A l \in Legs : held'[b][l] = held[b][l]
      BY <1>a, <2>0, <2>1, BindParts
    <3>3. HoldsOf("start1", held'[a])
      BY <1>0, <3>1, <2>0 DEF HoldsOf
    <3> QED
      BY <2>1, <3>1, <3>3, GoToMoves, OneHolds
  <2>2. CASE GoTo(a, "give2") /\ UNCHANGED held
    BY <1>0, <1>b, <2>0, <2>2 DEF HoldsOf
  <2> QED
    BY <1>6, <2>1, <2>2 DEF BindTAccess, portVars
<1>7. ASSUME NEW a \in Answers, GiveTCore(a) PROVE Holds'
  <2>1. pc[a] = "give1" /\ GiveBack(a, "tcore")
    BY <1>7 DEF GiveTCore
  <2>2. /\ held'[a]["tcore"] = None /\ held'[a]["taccess"] = held[a]["taccess"]
        /\ \A b \in Answers : b # a => \A l \in Legs : held'[b][l] = held[b][l]
    BY <1>a, <2>1, GiveBackParts
  <2>3. CASE held[a]["taccess"] # None /\ GoTo(a, "give2")
    <3>1. HoldsOf("give2", held'[a])
      BY <2>2, <2>3 DEF HoldsOf
    <3> QED
      BY <2>2, <2>3, <3>1, GoToMoves, OneHolds
  <2>4. CASE held[a]["taccess"] = None /\ GoTo(a, "undo")
    <3>1. HoldsOf("undo", held'[a])
      BY <2>2, <2>4 DEF HoldsOf
    <3> QED
      BY <2>2, <2>4, <3>1, GoToMoves, OneHolds
  <2> QED
    BY <1>7, <2>3, <2>4 DEF GiveTCore, Undo
<1>8. ASSUME NEW a \in Answers, GiveTAccess(a) PROVE Holds'
  <2>1. pc[a] = "give2" /\ GiveBack(a, "taccess") /\ GoTo(a, "undo")
    BY <1>8 DEF GiveTAccess, Undo
  <2>2. /\ held'[a]["taccess"] = None /\ held'[a]["tcore"] = held[a]["tcore"]
        /\ \A b \in Answers : b # a => \A l \in Legs : held'[b][l] = held[b][l]
    BY <1>a, <2>1, GiveBackParts
  <2>3. HoldsOf("undo", held'[a])
    BY <1>0, <2>1, <2>2 DEF HoldsOf
  <2> QED
    BY <2>1, <2>2, <2>3, GoToMoves, OneHolds
<1>9. ASSUME NEW a \in Answers,
             StartTCore(a) \/ StartTAccess(a) \/ Refuse(a) \/ CallControlFails(a)
      PROVE  Holds'
  <2>1. /\ pc[a] \in {"start1", "start2", "undo", "ok"} /\ UNCHANGED held
        /\ \E s \in {"start2", "ok", "undo", "refused"} : GoTo(a, s)
    BY <1>9 DEF StartTCore, StartTAccess, Refuse, CallControlFails, Undo, portVars
  <2> QED
    BY <1>0, <1>b, <2>1 DEF HoldsOf
<1>10. ASSUME UNCHANGED <<pc, held>> PROVE Holds'
  BY <1>10 DEF Holds
<1>11. ASSUME NEW d \in Deletes, NEW c \in Calls, Delete(d, c) PROVE Holds'
  BY <1>10, <1>11 DEF Delete, portVars
<1>12. ASSUME NEW h \in Handlers, CloseNext(h) PROVE Holds'
  BY <1>10, <1>12 DEF CloseNext, portVars, handlerVars
<1>13. ASSUME NEW o \in Objs, CloseEnds(o) \/ GCCloses(o) \/ ListenerStep(o) PROVE Holds'
  BY <1>10, <1>13 DEF CloseEnds, GCCloses, ListenerStep, SocketCloses, ReleasePort, portVars,
                      handlerVars
<1> QED
  BY <1>1, <1>2, <1>3, <1>4, <1>5, <1>6, <1>7, <1>8, <1>9, <1>11, <1>12, <1>13
     DEF Step, AnswerStep

-----------------------------------------------------------------------------
(* A port has one owner.                                                   *)

(* A port stays where it is if no place takes or loses it.                 *)
Stays(p) ==
  /\ p \in others' <=> p \in others
  /\ \A k \in Nat : InFree(p, k)' <=> InFree(p, k)
  /\ \A a \in Answers : \A l \in Legs : HeldBy(p, a, l)' <=> HeldBy(p, a, l)
  /\ \A o \in Objs : Listening(p, o)' <=> Listening(p, o)

(* A port that stays where it is keeps its one place.                      *)
LEMMA StaysOwned ==
  ASSUME NEW p \in Ports, Stays(p), HasOwner(p), NoOther(p)
  PROVE  HasOwner(p)' /\ NoOther(p)'
<1>1. HasOwner(p)'
  BY DEF Stays, HasOwner
<1>2. NoOther(p)'
  BY DEF Stays, NoOther
<1> QED
  BY <1>1, <1>2

(* The stack without its top, and with one more port.                      *)
LEMMA FreeAfter ==
  ASSUME free \in Seq(Ports)
  PROVE  /\ Len(free) \in Nat
         /\ free # <<>> => InFree(Last(free), Len(free))
         /\ free # <<>> /\ free' = Front(free) =>
              \A q : \A k \in Nat : InFree(q, k)' <=> InFree(q, k) /\ k # Len(free)
         /\ \A p \in Ports : free' = Append(free, p) =>
              /\ \A q : ~InFree(q, Len(free) + 1)
              /\ \A q : \A k \in Nat :
                   InFree(q, k)' <=> InFree(q, k) \/ (k = Len(free) + 1 /\ q = p)
<1>1. Len(free) \in Nat /\ DOMAIN free = 1..Len(free) /\ \A k \in 1..Len(free) : free[k] \in Ports
  BY LenProperties
<1>2. ASSUME free # <<>>
      PROVE  /\ InFree(Last(free), Len(free))
             /\ free' = Front(free) =>
                  \A q : \A k \in Nat : InFree(q, k)' <=> InFree(q, k) /\ k # Len(free)
  <2>1. Len(free) > 0
    BY <1>1, <1>2, EmptySeq
  <2>2. InFree(Last(free), Len(free))
    BY <1>1, <2>1 DEF InFree, Last
  <2>3. /\ Front(free) \in Seq(Ports) /\ Len(Front(free)) = Len(free) - 1
        /\ \A k \in 1..(Len(free) - 1) : Front(free)[k] = free[k]
    <3>1. \A i \in 1..(Len(free) - 1) : free[i] \in Ports
      BY <1>1
    <3>2. 1 \in Int /\ Len(free) - 1 \in Int
      BY <1>1
    <3>3. /\ SubSeq(free, 1, Len(free) - 1) \in Seq(Ports)
          /\ Len(SubSeq(free, 1, Len(free) - 1))
               = IF 1 <= Len(free) - 1 THEN Len(free) - 1 - 1 + 1 ELSE 0
          /\ \A i \in 1..(Len(free) - 1 - 1 + 1) :
               SubSeq(free, 1, Len(free) - 1)[i] = free[1 + i - 1]
      BY <3>1, <3>2, SubSeqProperties
    <3> QED
      BY <1>1, <2>1, <3>3 DEF Front
  <2>4. DOMAIN Front(free) = 1..(Len(free) - 1)
    BY <2>3, LenProperties
  <2>5. ASSUME free' = Front(free), NEW q, NEW k \in Nat
        PROVE  InFree(q, k)' <=> InFree(q, k) /\ k # Len(free)
    <3>0. PICK n \in Nat : n = Len(free)
      BY <1>1
    <3>a. DOMAIN free = 1..n /\ DOMAIN Front(free) = 1..(n - 1)
      BY <1>1, <2>4, <3>0
    <3>b. k \in 1..(n - 1) <=> k \in 1..n /\ k # n
      OBVIOUS
    <3>1. k \in DOMAIN Front(free) <=> k \in DOMAIN free /\ k # Len(free)
      BY <3>0, <3>a, <3>b
    <3>2. k \in DOMAIN Front(free) => Front(free)[k] = free[k]
      BY <2>3, <2>4
    <3> QED
      BY <2>5, <3>1, <3>2 DEF InFree
  <2> QED
    BY <2>2, <2>5
<1>3. ASSUME NEW p \in Ports, free' = Append(free, p)
      PROVE  /\ \A q : ~InFree(q, Len(free) + 1)
             /\ \A q : \A k \in Nat :
                  InFree(q, k)' <=> InFree(q, k) \/ (k = Len(free) + 1 /\ q = p)
  <2>1. /\ Append(free, p) \in Seq(Ports) /\ Len(Append(free, p)) = Len(free) + 1
        /\ \A i \in 1..Len(free) : Append(free, p)[i] = free[i]
        /\ Append(free, p)[Len(free) + 1] = p
    BY AppendProperties
  <2>2. DOMAIN Append(free, p) = 1..(Len(free) + 1)
    BY <2>1, LenProperties
  <2>3. \A q : ~InFree(q, Len(free) + 1)
    BY <1>1 DEF InFree
  <2>4. ASSUME NEW q, NEW k \in Nat
        PROVE  InFree(q, k)' <=> InFree(q, k) \/ (k = Len(free) + 1 /\ q = p)
    <3>1. k \in DOMAIN Append(free, p) <=> k \in DOMAIN free \/ k = Len(free) + 1
      BY <1>1, <2>2
    <3>2. k \in DOMAIN free => Append(free, p)[k] = free[k] /\ k # Len(free) + 1
      BY <1>1, <2>1
    <3> QED
      BY <1>3, <2>1, <3>1, <3>2 DEF InFree
  <2> QED
    BY <2>3, <2>4
<1> QED
  BY <1>1, <1>2, <1>3

(* Every way to move a port takes it from its one place to another.        *)
LEMMA StepOneOwner ==
  ASSUME TypeOK, Sockets, OneOwner, Deals
  PROVE  OneOwner'
<1>0. \A p \in Ports : HasOwner(p) /\ NoOther(p)
  BY DEF OneOwner
<1>a. ASSUME NEW p \in Ports, \A q \in Ports : q # p => Stays(q), HasOwner(p)' /\ NoOther(p)'
      PROVE  OneOwner'
  BY <1>0, <1>a, StaysOwned DEF OneOwner
<1>b. ASSUME \A q \in Ports : Stays(q) PROVE OneOwner'
  BY <1>0, <1>b, StaysOwned DEF OneOwner
<1>c. free \in Seq(Ports) /\ \A q \in Ports : q # None
  BY TypeParts, CallAssumption
<1>1. ASSUME NEW a \in Answers, NEW l \in Legs, Acquire(a, l), held[a][l] = None PROVE OneOwner'
  <2>1. /\ free # <<>> /\ free' = Front(free) /\ held'[a][l] = Last(free)
        /\ \A b \in Answers : \A m \in Legs : b # a \/ m # l => held'[b][m] = held[b][m]
        /\ UNCHANGED <<others, sock, port>>
    BY <1>1, AcquireParts
  <2>2. PICK p \in Ports : p = Last(free)
    BY <1>1, AcquireParts
  <2>3. PICK n \in Nat : n = Len(free)
    BY <1>c, FreeAfter
  <2>4. InFree(p, n) /\ \A q : \A k \in Nat : InFree(q, k)' <=> InFree(q, k) /\ k # n
    BY <1>c, <2>1, <2>2, <2>3, FreeAfter
  <2>5. /\ \A q \in Ports : q # p => ~InFree(q, n)
        /\ \A q \in Ports : \A o \in Objs : Listening(q, o)' <=> Listening(q, o)
    BY <2>1, <2>4 DEF InFree, Listening
  <2>6. \A q \in Ports : \A b \in Answers : \A m \in Legs :
          HeldBy(q, b, m)' <=> HeldBy(q, b, m) \/ (b = a /\ m = l /\ q = p)
    <3>1. \A q \in Ports : ~HeldBy(q, a, l) /\ (HeldBy(q, a, l)' <=> q = p)
      BY <1>1, <1>c, <2>1, <2>2 DEF HeldBy
    <3>2. \A q \in Ports : \A b \in Answers : \A m \in Legs : b # a \/ m # l =>
            (HeldBy(q, b, m)' <=> HeldBy(q, b, m))
      BY <2>1 DEF HeldBy
    <3> QED
      BY <3>1, <3>2
  <2>7. \A q \in Ports : q # p => Stays(q)
    BY <2>1, <2>4, <2>5, <2>6 DEF Stays
  <2>8. /\ p \notin others' /\ \A k \in Nat : ~InFree(p, k)'
        /\ \A b \in Answers : \A m \in Legs : HeldBy(p, b, m)' <=> b = a /\ m = l
        /\ \A o \in Objs : ~Listening(p, o)'
    BY <1>0, <2>1, <2>4, <2>5, <2>6 DEF NoOther
  <2>9. HasOwner(p)' /\ NoOther(p)'
    BY <2>8 DEF HasOwner, NoOther
  <2> QED
    BY <1>a, <2>7, <2>9
<1>2. ASSUME NEW a \in Answers, NEW l \in Legs, GiveBack(a, l), held[a][l] # None PROVE OneOwner'
  <2>1. /\ free' = Append(free, held[a][l]) /\ held'[a][l] = None
        /\ \A b \in Answers : \A m \in Legs : b # a \/ m # l => held'[b][m] = held[b][m]
        /\ UNCHANGED <<others, sock, port>>
    BY <1>2, GiveBackParts
  <2>2. PICK p \in Ports : p = held[a][l]
    BY <1>2, TypeParts
  <2>3. PICK n \in Nat : n = Len(free) + 1
    BY <1>c, FreeAfter
  <2>4. \A q : \A k \in Nat : InFree(q, k)' <=> InFree(q, k) \/ (k = n /\ q = p)
    BY <1>c, <2>1, <2>2, <2>3, FreeAfter
  <2>5. \A q \in Ports : \A o \in Objs : Listening(q, o)' <=> Listening(q, o)
    BY <2>1 DEF Listening
  <2>6. \A q \in Ports : \A b \in Answers : \A m \in Legs :
          HeldBy(q, b, m)' <=> HeldBy(q, b, m) /\ ~(b = a /\ m = l)
    <3>1. \A q \in Ports : ~HeldBy(q, a, l)'
      BY <1>c, <2>1 DEF HeldBy
    <3>2. \A q \in Ports : \A b \in Answers : \A m \in Legs : b # a \/ m # l =>
            (HeldBy(q, b, m)' <=> HeldBy(q, b, m))
      BY <2>1 DEF HeldBy
    <3> QED
      BY <3>1, <3>2
  <2>7. HeldBy(p, a, l) /\ \A q \in Ports : q # p => ~HeldBy(q, a, l)
    BY <2>2 DEF HeldBy
  <2>8. \A q \in Ports : q # p => Stays(q)
    BY <2>1, <2>4, <2>5, <2>6, <2>7 DEF Stays
  <2>9. /\ p \notin others' /\ \A k \in Nat : InFree(p, k)' <=> k = n
        /\ \A b \in Answers : \A m \in Legs : ~HeldBy(p, b, m)'
        /\ \A o \in Objs : ~Listening(p, o)'
    BY <1>0, <2>1, <2>4, <2>5, <2>6, <2>7 DEF NoOther
  <2>10. HasOwner(p)' /\ NoOther(p)'
    BY <2>9 DEF HasOwner, NoOther
  <2> QED
    BY <1>a, <2>8, <2>10
<1>3. ASSUME NEW a \in Answers, NEW l \in Legs, Bind(a, l), held[a][l] # None,
             leg[a][l] # None, sock[leg[a][l]] = "none"
      PROVE  OneOwner'
  <2>1. PICK o \in Objs : o = leg[a][l]
    BY <1>3, BindParts
  <2>2. /\ held'[a][l] = None /\ sock'[o] = "open" /\ port'[o] = held[a][l]
        /\ \A r \in Objs : r # o => sock'[r] = sock[r] /\ port'[r] = port[r]
        /\ \A b \in Answers : \A m \in Legs : b # a \/ m # l => held'[b][m] = held[b][m]
        /\ UNCHANGED <<free, others>>
    BY <1>3, <2>1, BindParts
  <2>3. PICK p \in Ports : p = held[a][l]
    BY <1>3, TypeParts
  <2>4. \A q : \A k \in Nat : InFree(q, k)' <=> InFree(q, k)
    BY <2>2 DEF InFree
  <2>5. \A q \in Ports : \A r \in Objs : Listening(q, r)' <=> Listening(q, r) \/ (r = o /\ q = p)
    <3>1. \A q \in Ports : ~Listening(q, o) /\ (Listening(q, o)' <=> q = p)
      BY <1>3, <2>1, <2>2, <2>3 DEF Listening
    <3>2. \A q \in Ports : \A r \in Objs : r # o => (Listening(q, r)' <=> Listening(q, r))
      BY <2>2 DEF Listening
    <3> QED
      BY <3>1, <3>2
  <2>6. \A q \in Ports : \A b \in Answers : \A m \in Legs :
          HeldBy(q, b, m)' <=> HeldBy(q, b, m) /\ ~(b = a /\ m = l)
    <3>1. \A q \in Ports : ~HeldBy(q, a, l)'
      BY <1>c, <2>2 DEF HeldBy
    <3>2. \A q \in Ports : \A b \in Answers : \A m \in Legs : b # a \/ m # l =>
            (HeldBy(q, b, m)' <=> HeldBy(q, b, m))
      BY <2>2 DEF HeldBy
    <3> QED
      BY <3>1, <3>2
  <2>7. HeldBy(p, a, l) /\ \A q \in Ports : q # p => ~HeldBy(q, a, l)
    BY <2>3 DEF HeldBy
  <2>8. \A q \in Ports : q # p => Stays(q)
    BY <2>2, <2>4, <2>5, <2>6, <2>7 DEF Stays
  <2>9. /\ p \notin others' /\ \A k \in Nat : ~InFree(p, k)'
        /\ \A b \in Answers : \A m \in Legs : ~HeldBy(p, b, m)'
        /\ \A r \in Objs : Listening(p, r)' <=> r = o
    BY <1>0, <2>2, <2>4, <2>5, <2>6, <2>7 DEF NoOther
  <2>10. HasOwner(p)' /\ NoOther(p)'
    BY <2>9 DEF HasOwner, NoOther
  <2> QED
    BY <1>a, <2>8, <2>10
<1>4. ASSUME NEW o \in Objs, SocketCloses(o) PROVE OneOwner'
  <2>1. /\ sock[o] = "open" /\ sock'[o] = "closed"
        /\ \A r \in Objs : r # o => sock'[r] = sock[r]
        /\ UNCHANGED <<free, others, held, port>>
    BY <1>4, TypeParts DEF SocketCloses
  <2>2. \A q \in Ports : \A r \in Objs : Listening(q, r)' <=> Listening(q, r)
    BY <2>1 DEF Listening
  <2>3. \A q \in Ports : Stays(q)
    BY <2>1, <2>2 DEF Stays, InFree, HeldBy
  <2> QED
    BY <1>b, <2>3
<1>5. ASSUME NEW o \in Objs, ReleasePort(o) PROVE OneOwner'
  <2>1. /\ sock[o] = "closed" /\ sock'[o] = "released" /\ free' = Append(free, port[o])
        /\ \A r \in Objs : r # o => sock'[r] = sock[r]
        /\ UNCHANGED <<others, held, port>>
    BY <1>5, TypeParts DEF ReleasePort
  <2>2. PICK p \in Ports : p = port[o]
    BY <2>1, TypeParts DEF Sockets
  <2>3. PICK n \in Nat : n = Len(free) + 1
    BY <1>c, FreeAfter
  <2>4. \A q : \A k \in Nat : InFree(q, k)' <=> InFree(q, k) \/ (k = n /\ q = p)
    BY <1>c, <2>1, <2>2, <2>3, FreeAfter
  <2>5. \A q \in Ports : \A r \in Objs : Listening(q, r)' <=> Listening(q, r) /\ r # o
    BY <2>1 DEF Listening
  <2>6. Listening(p, o) /\ \A q \in Ports : q # p => ~Listening(q, o)
    BY <2>1, <2>2 DEF Listening
  <2>7. \A q \in Ports : \A b \in Answers : \A m \in Legs : HeldBy(q, b, m)' <=> HeldBy(q, b, m)
    BY <2>1 DEF HeldBy
  <2>8. \A q \in Ports : q # p => Stays(q)
    BY <2>1, <2>4, <2>5, <2>6, <2>7 DEF Stays
  <2>9. /\ p \notin others' /\ \A k \in Nat : InFree(p, k)' <=> k = n
        /\ \A b \in Answers : \A m \in Legs : ~HeldBy(p, b, m)'
        /\ \A r \in Objs : ~Listening(p, r)'
    BY <1>0, <2>1, <2>4, <2>5, <2>6, <2>7 DEF NoOther
  <2>10. HasOwner(p)' /\ NoOther(p)'
    BY <2>9 DEF HasOwner, NoOther
  <2> QED
    BY <1>a, <2>8, <2>10
<1>6. ASSUME UNCHANGED portVars PROVE OneOwner'
  <2>1. \A q \in Ports : Stays(q)
    BY <1>6 DEF Stays, InFree, HeldBy, Listening, portVars
  <2> QED
    BY <1>b, <2>1
<1> QED
  BY <1>1, <1>2, <1>3, <1>4, <1>5, <1>6 DEF Deals

-----------------------------------------------------------------------------
(* A session gets one listener.                                            *)

(* Sockets, for an ANSWER at step s.                                       *)
SocketsOf(a, s) ==
  /\ s \in {"taccess", "port1", "port2", "bind1"} => sock[leg[a]["tcore"]] = "none"
  /\ s \in {"port1", "port2", "bind1", "bind2"} => sock[leg[a]["taccess"]] = "none"
  /\ s \in {"bind2", "start1", "start2", "ok"} => sock[leg[a]["tcore"]] # "none"
  /\ s \in {"start1", "start2", "ok"} => sock[leg[a]["taccess"]] # "none"

(* A step that binds no listener leaves each session with one, or none.    *)
SameNone == \A o \in Objs : sock'[o] = "none" <=> sock[o] = "none"

(* Closing a socket, or none, takes no port from a listener.               *)
LEMMA ListenersKept ==
  ASSUME TypeOK,
         UNCHANGED portVars \/ \E o \in Objs : SocketCloses(o) \/ ReleasePort(o)
  PROVE  SameNone /\ port' = port
<1>1. CASE UNCHANGED portVars
  BY <1>1 DEF portVars, SameNone
<1>2. ASSUME NEW o \in Objs, SocketCloses(o) PROVE SameNone /\ port' = port
  BY <1>2, TypeParts DEF SocketCloses, SameNone
<1>3. ASSUME NEW o \in Objs, ReleasePort(o) PROVE SameNone /\ port' = port
  BY <1>3, TypeParts DEF ReleasePort, SameNone
<1> QED
  BY <1>1, <1>2, <1>3

(* The allocator has no part in it.                                        *)
LEMMA AllocatorKept ==
  ASSUME TypeOK, NEW a \in Answers, NEW l \in Legs, Acquire(a, l) \/ GiveBack(a, l)
  PROVE  SameNone /\ port' = port
BY AcquireParts, GiveBackParts DEF SameNone

(* An object not yet used stays unused, or is used now.                    *)
LEMMA StagesKept ==
  ASSUME TypeOK, LegsMade, Closes, Kinds
  PROVE  \A o \in Objs : stage'[o] = "absent" => stage[o] = "absent"
<1>1. ASSUME NEW a \in Answers, NEW c \in Calls, Begun(a, c) PROVE stage' = stage
  BY <1>1, BegunParts
<1>2. ASSUME NEW a \in Answers, NEW l \in Legs, NEW o \in Objs, Made(a, l, o)
      PROVE  \A p \in Objs : stage'[p] = "absent" => stage[p] = "absent"
  <2>1. stage'[o] = "open" /\ \A p \in Objs : p # o => stage'[p] = stage[p]
    BY <1>2, MadeParts
  <2> QED
    BY <2>1
<1>3. ASSUME NEW a \in Answers, Advanced(a) \/ GaveUp(a) \/ RefusedNow(a) PROVE stage' = stage
  BY <1>3, AdvancedParts, GaveUpParts, RefusedParts
<1>4. ASSUME NEW d \in Deletes, NEW c \in Calls, Asked(d, c) PROVE stage' = stage
  BY <1>4, AskedParts
<1>5. ASSUME NEW h \in Handlers, CloseNext(h)
      PROVE  \A p \in Objs : stage'[p] = "absent" => stage[p] = "absent"
  BY <1>5, CloseParts DEF Closing
<1>6. ASSUME NEW o \in Objs, Ended(o) \/ Collected(o)
      PROVE  \A p \in Objs : stage'[p] = "absent" => stage[p] = "absent"
  <2>1. Passes(o, "unlinked", "ended") \/ Passes(o, "open", "unlinked")
    BY <1>6, PassesParts
  <2> QED
    BY <2>1 DEF Passes
<1>7. ASSUME Heard PROVE stage' = stage
  BY <1>7, HeardParts
<1> QED
  BY <1>1, <1>2, <1>3, <1>4, <1>5, <1>6, <1>7 DEF Kinds

(* Two of the three parts of Sockets: unused objects have no socket, and   *)
(* every socket has a port.                                                *)
LEMMA StepSocketsUsed ==
  ASSUME TypeOK, LegsMade, Closes, Sockets, Kinds, Deals
  PROVE  /\ \A o \in Objs : stage'[o] = "absent" => sock'[o] = "none"
         /\ \A o \in Objs : sock'[o] # "none" => port'[o] # None
<1>0. /\ \A o \in Objs : stage'[o] = "absent" => stage[o] = "absent"
      /\ \A o \in Objs : stage[o] = "absent" => sock[o] = "none"
      /\ \A o \in Objs : sock[o] # "none" => port[o] # None
  BY StagesKept DEF Sockets
<1>1. CASE SameNone /\ port' = port
  BY <1>0, <1>1 DEF SameNone
<1>2. ASSUME NEW a \in Answers, NEW l \in Legs, Bind(a, l), held[a][l] # None, leg[a][l] # None
      PROVE  /\ \A o \in Objs : stage'[o] = "absent" => sock'[o] = "none"
             /\ \A o \in Objs : sock'[o] # "none" => port'[o] # None
  <2>1. PICK o \in Objs : o = leg[a][l]
    BY <1>2, BindParts
  <2>2. /\ sock'[o] = "open" /\ port'[o] = held[a][l]
        /\ \A p \in Objs : p # o => sock'[p] = sock[p] /\ port'[p] = port[p]
    BY <1>2, <2>1, BindParts
  <2>3. stage[o] # "absent"
    BY <1>2, <2>1 DEF LegsMade
  <2> QED
    BY <1>0, <1>2, <2>2, <2>3
<1> QED
  BY <1>1, <1>2, ListenersKept, AllocatorKept DEF Deals

(* The listeners of an ANSWER that does not move stay as its step says.    *)
LEMMA OtherSockets ==
  ASSUME TypeOK, LegsMade, Sockets, NEW b \in Answers, pc'[b] = pc[b],
         \A l \in Legs : leg'[b][l] = leg[b][l],
         \A l \in Legs : leg[b][l] # None =>
           (sock'[leg[b][l]] = "none" <=> sock[leg[b][l]] = "none")
  PROVE  SocketsOf(b, pc[b])'
<1>a. "tcore" \in Legs /\ "taccess" \in Legs
  BY DEF Legs
<1>1. /\ pc[b] = "taccess" => leg[b]["tcore"] # None
      /\ pc[b] \in HasBoth => leg[b]["tcore"] # None /\ leg[b]["taccess"] # None
  BY <1>a DEF LegsMade
<1>2. SocketsOf(b, pc[b])
  BY DEF Sockets, SocketsOf
<1>3. /\ leg'[b]["tcore"] = leg[b]["tcore"] /\ leg'[b]["taccess"] = leg[b]["taccess"]
      /\ leg[b]["tcore"] # None =>
           (sock'[leg[b]["tcore"]] = "none" <=> sock[leg[b]["tcore"]] = "none")
      /\ leg[b]["taccess"] # None =>
           (sock'[leg[b]["taccess"]] = "none" <=> sock[leg[b]["taccess"]] = "none")
  BY <1>a
<1> QED
  BY <1>1, <1>2, <1>3 DEF SocketsOf, HasBoth

(* Those of all ANSWERs, when one moves and no listener of another changes.*)
LEMMA OneSockets ==
  ASSUME TypeOK, LegsMade, Sockets, NEW a \in Answers, NEW s, Moves(a, s),
         \A b \in Answers : b # a => \A l \in Legs : leg'[b][l] = leg[b][l],
         \A b \in Answers : b # a => \A l \in Legs : leg[b][l] # None =>
           (sock'[leg[b][l]] = "none" <=> sock[leg[b][l]] = "none"),
         SocketsOf(a, s)'
  PROVE  \A b \in Answers : SocketsOf(b, pc[b])'
<1>1. ASSUME NEW b \in Answers PROVE SocketsOf(b, pc[b])'
  <2>1. CASE b = a
    BY <2>1 DEF Moves, SocketsOf
  <2>2. CASE b # a
    <3>1. pc'[b] = pc[b]
      BY <2>2 DEF Moves
    <3> QED
      BY <2>2, <3>1, OtherSockets
  <2> QED
    BY <2>1, <2>2
<1> QED
  BY <1>1

(* Every step keeps which legs have a listener at each place of an ANSWER. *)
LEMMA StepSockets ==
  ASSUME TypeOK, LegsMade, LegsDiffer, Closes, Holds, Sockets, Step
  PROVE  Sockets'
<1> SUFFICES \A b \in Answers : SocketsOf(b, pc[b])'
  BY StepKinds, StepDeals, StepSocketsUsed DEF Sockets, SocketsOf
<1>a. "tcore" \in Legs /\ "taccess" \in Legs /\ Legs = {"tcore", "taccess"}
  BY DEF Legs
<1>b. /\ \A a \in Answers : \A l \in Legs : leg[a][l] # None => leg[a][l] \in Objs
      /\ \A a \in Answers : SocketsOf(a, pc[a])
  BY TypeParts DEF Sockets, SocketsOf
<1>c. ASSUME SameNone, leg' = leg, NEW a \in Answers, NEW s, GoTo(a, s), SocketsOf(a, s)'
      PROVE  \A b \in Answers : SocketsOf(b, pc[b])'
  BY <1>b, <1>c, GoToMoves, OneSockets DEF SameNone
<1>d. ASSUME SameNone, leg' = leg, pc' = pc PROVE \A b \in Answers : SocketsOf(b, pc[b])'
  BY <1>b, <1>d, OtherSockets DEF SameNone
<1>1. ASSUME NEW a \in Answers, NEW c \in Calls, Answer(a, c)
      PROVE  \A b \in Answers : SocketsOf(b, pc[b])'
  <2>1. GoTo(a, "tcore") /\ leg' = leg /\ SameNone
    BY <1>1, ListenersKept DEF Answer
  <2>2. SocketsOf(a, "tcore")'
    BY DEF SocketsOf
  <2> QED
    BY <1>c, <2>1, <2>2
<1>2. ASSUME NEW a \in Answers, NEW l \in Legs, NEW o \in Objs, Made(a, l, o), SameNone
      PROVE  \A b \in Answers : SocketsOf(b, pc[b])'
  <2>1. /\ \/ l = "tcore" /\ pc[a] = "tcore" /\ Moves(a, "taccess")
           \/ l = "taccess" /\ pc[a] = "taccess" /\ Moves(a, "port1")
        /\ leg'[a][l] = o /\ stage[o] = "absent"
        /\ \A b \in Answers : \A m \in Legs : b # a \/ m # l => leg'[b][m] = leg[b][m]
    BY <1>2, MadeParts
  <2>2. sock'[o] = "none"
    BY <1>2, <2>1 DEF Sockets, SameNone
  <2>3. \A b \in Answers : b # a => \A m \in Legs : leg'[b][m] = leg[b][m]
    BY <2>1
  <2>4. \A b \in Answers : b # a => \A m \in Legs : leg[b][m] # None =>
          (sock'[leg[b][m]] = "none" <=> sock[leg[b][m]] = "none")
    BY <1>2, <1>b DEF SameNone
  <2>5. CASE l = "tcore" /\ pc[a] = "tcore" /\ Moves(a, "taccess")
    <3>1. SocketsOf(a, "taccess")'
      BY <2>1, <2>2, <2>5 DEF SocketsOf
    <3> QED
      BY <2>3, <2>4, <2>5, <3>1, OneSockets
  <2>6. CASE l = "taccess" /\ pc[a] = "taccess" /\ Moves(a, "port1")
    <3>1. leg[a]["tcore"] # None /\ leg'[a]["tcore"] = leg[a]["tcore"]
      BY <1>a, <2>1, <2>6 DEF LegsMade
    <3>2. sock[leg[a]["tcore"]] = "none"
      BY <1>b, <2>6 DEF SocketsOf
    <3>3. sock'[leg'[a]["tcore"]] = "none"
      BY <1>2, <1>a, <1>b, <3>1, <3>2 DEF SameNone
    <3>4. SocketsOf(a, "port1")'
      BY <2>1, <2>2, <2>6, <3>3 DEF SocketsOf
    <3> QED
      BY <2>3, <2>4, <2>6, <3>4, OneSockets
  <2> QED
    BY <2>1, <2>5, <2>6
<1>3. ASSUME NEW a \in Answers, CreateTCore(a) \/ CreateTAccess(a)
      PROVE  \A b \in Answers : SocketsOf(b, pc[b])'
  <2>1. SameNone
    BY <1>3, ListenersKept DEF CreateTCore, CreateTAccess
  <2>2. \/ \E l \in Legs : \E o \in Objs : Made(a, l, o)
        \/ leg' = leg /\ (GoTo(a, "refused") \/ GoTo(a, "undo"))
    BY <1>3, <1>a DEF CreateTCore, CreateTAccess, Made, Undo
  <2>3. SocketsOf(a, "refused")' /\ SocketsOf(a, "undo")'
    BY DEF SocketsOf
  <2> QED
    BY <1>2, <1>c, <2>1, <2>2, <2>3
<1>4. ASSUME NEW a \in Answers, NEW s, GoTo(a, s), SameNone, leg' = leg,
             s \in {"undo", "refused", "give1", "give2"} \/ <<pc[a], s>> \in
               {<<"port1", "port2">>, <<"port2", "bind1">>, <<"start1", "start2">>,
                <<"start2", "ok">>}
      PROVE  \A b \in Answers : SocketsOf(b, pc[b])'
  <2>1. CASE s \in {"undo", "refused", "give1", "give2"}
    <3>1. SocketsOf(a, s)'
      BY <2>1 DEF SocketsOf
    <3> QED
      BY <1>4, <1>c, <3>1
  <2>2. CASE <<pc[a], s>> \in {<<"port1", "port2">>, <<"port2", "bind1">>,
                               <<"start1", "start2">>, <<"start2", "ok">>}
    <3>1. leg[a]["tcore"] \in Objs /\ leg[a]["taccess"] \in Objs
      BY <1>a, <1>b, <2>2 DEF LegsMade, HasBoth
    <3>2. /\ sock'[leg[a]["tcore"]] = "none" <=> sock[leg[a]["tcore"]] = "none"
          /\ sock'[leg[a]["taccess"]] = "none" <=> sock[leg[a]["taccess"]] = "none"
      BY <1>4, <3>1 DEF SameNone
    <3>3. SocketsOf(a, pc[a])
      BY <1>b
    <3>4. SocketsOf(a, s)'
      BY <1>4, <2>2, <3>2, <3>3 DEF SocketsOf
    <3> QED
      BY <1>4, <1>c, <3>4
  <2> QED
    BY <1>4, <2>1, <2>2
<1>5. ASSUME NEW a \in Answers, TakePort1(a) \/ TakePort2(a)
      PROVE  \A b \in Answers : SocketsOf(b, pc[b])'
  <2>1. SameNone
    BY <1>5, <1>a, ListenersKept, AllocatorKept DEF TakePort1, TakePort2
  <2>2. /\ leg' = leg
        /\ \/ pc[a] = "port1" /\ (GoTo(a, "port2") \/ GoTo(a, "undo"))
           \/ pc[a] = "port2" /\ (GoTo(a, "bind1") \/ GoTo(a, "give1"))
    BY <1>5 DEF TakePort1, TakePort2, Undo
  <2> QED
    BY <1>4, <2>1, <2>2
<1>6. ASSUME NEW a \in Answers, NEW l \in Legs, Bind(a, l), leg' = leg,
             \/ l = "tcore" /\ pc[a] = "bind1" /\ GoTo(a, "bind2")
             \/ l = "taccess" /\ pc[a] = "bind2" /\ GoTo(a, "start1")
      PROVE  \A b \in Answers : SocketsOf(b, pc[b])'
  <2>1. leg[a]["tcore"] # None /\ leg[a]["taccess"] # None
    BY <1>6, <1>a DEF LegsMade, HasBoth
  <2>2. leg[a]["tcore"] \in Objs /\ leg[a]["taccess"] \in Objs
        /\ leg[a]["tcore"] # leg[a]["taccess"]
    BY <1>a, <1>b, <2>1 DEF LegsDiffer
  <2>3. /\ sock'[leg[a][l]] = "open"
        /\ \A o \in Objs : o # leg[a][l] => sock'[o] = sock[o]
    BY <1>6, <1>a, <2>1, BindParts
  <2>4. ASSUME NEW b \in Answers, b # a, NEW m \in Legs, leg[b][m] # None
        PROVE  sock'[leg[b][m]] = sock[leg[b][m]]
    <3>1. leg[b][m] # leg[a][l]
      BY <2>4 DEF LegsDiffer
    <3> QED
      BY <1>b, <2>3, <2>4, <3>1
  <2>5. SocketsOf(a, pc[a])
    BY <1>b
  <2>6. CASE l = "tcore" /\ pc[a] = "bind1" /\ GoTo(a, "bind2")
    <3>1. SocketsOf(a, "bind2")'
      BY <1>6, <2>2, <2>3, <2>5, <2>6 DEF SocketsOf
    <3> QED
      BY <1>6, <2>4, <2>6, <3>1, GoToMoves, OneSockets
  <2>7. CASE l = "taccess" /\ pc[a] = "bind2" /\ GoTo(a, "start1")
    <3>1. SocketsOf(a, "start1")'
      BY <1>6, <2>2, <2>3, <2>5, <2>7 DEF SocketsOf
    <3> QED
      BY <1>6, <2>4, <2>7, <3>1, GoToMoves, OneSockets
  <2> QED
    BY <1>6, <2>6, <2>7
<1>7. ASSUME NEW a \in Answers, BindTCore(a) \/ BindTAccess(a)
      PROVE  \A b \in Answers : SocketsOf(b, pc[b])'
  <2>1. CASE UNCHANGED portVars
    <3>1. SameNone /\ leg' = leg
      BY <1>7, <2>1, ListenersKept DEF BindTCore, BindTAccess
    <3>2. \/ GoTo(a, "give1") \/ GoTo(a, "give2")
          \/ Bind(a, "tcore") /\ pc[a] = "bind1" /\ GoTo(a, "bind2")
          \/ Bind(a, "taccess") /\ pc[a] = "bind2" /\ GoTo(a, "start1")
      BY <1>7 DEF BindTCore, BindTAccess
    <3> QED
      BY <1>4, <1>6, <1>a, <3>1, <3>2
  <2>2. CASE Bind(a, "tcore") /\ pc[a] = "bind1" /\ GoTo(a, "bind2") /\ leg' = leg
    BY <1>6, <1>a, <2>2
  <2>3. CASE Bind(a, "taccess") /\ pc[a] = "bind2" /\ GoTo(a, "start1") /\ leg' = leg
    BY <1>6, <1>a, <2>3
  <2> QED
    BY <1>7, <2>1, <2>2, <2>3 DEF BindTCore, BindTAccess
<1>8. ASSUME NEW a \in Answers, GiveTCore(a) \/ GiveTAccess(a)
      PROVE  \A b \in Answers : SocketsOf(b, pc[b])'
  <2>1. SameNone
    BY <1>8, <1>a, AllocatorKept DEF GiveTCore, GiveTAccess
  <2>2. leg' = leg /\ (GoTo(a, "give2") \/ GoTo(a, "undo"))
    BY <1>8 DEF GiveTCore, GiveTAccess, Undo
  <2> QED
    BY <1>4, <2>1, <2>2
<1>9. ASSUME NEW a \in Answers,
             StartTCore(a) \/ StartTAccess(a) \/ Refuse(a) \/ CallControlFails(a)
      PROVE  \A b \in Answers : SocketsOf(b, pc[b])'
  <2>1. SameNone
    BY <1>9, ListenersKept DEF StartTCore, StartTAccess, Refuse, CallControlFails
  <2>2. /\ leg' = leg
        /\ \/ pc[a] = "start1" /\ GoTo(a, "start2")
           \/ pc[a] = "start2" /\ GoTo(a, "ok")
           \/ GoTo(a, "undo") \/ GoTo(a, "refused")
    BY <1>9 DEF StartTCore, StartTAccess, Refuse, CallControlFails, Undo
  <2> QED
    BY <1>4, <2>1, <2>2
<1>10. ASSUME NEW d \in Deletes, NEW c \in Calls, Delete(d, c)
       PROVE  \A b \in Answers : SocketsOf(b, pc[b])'
  BY <1>10, <1>d, ListenersKept DEF Delete
<1>11. ASSUME NEW h \in Handlers, CloseNext(h) PROVE \A b \in Answers : SocketsOf(b, pc[b])'
  BY <1>11, <1>d, ListenersKept DEF CloseNext, handlerVars
<1>12. ASSUME NEW o \in Objs, CloseEnds(o) \/ GCCloses(o)
       PROVE  \A b \in Answers : SocketsOf(b, pc[b])'
  BY <1>12, <1>d, ListenersKept DEF CloseEnds, GCCloses, handlerVars
<1>13. ASSUME NEW o \in Objs, ListenerStep(o) PROVE \A b \in Answers : SocketsOf(b, pc[b])'
  <2>1. SameNone
    BY <1>13, ListenersKept DEF ListenerStep
  <2>2. leg' = leg /\ pc' = pc
    BY <1>13 DEF ListenerStep, SocketCloses, ReleasePort, handlerVars
  <2> QED
    BY <1>d, <2>1, <2>2
<1> QED
  BY <1>1, <1>3, <1>5, <1>7, <1>8, <1>9, <1>10, <1>11, <1>12, <1>13 DEF Step, AnswerStep

-----------------------------------------------------------------------------
(* The invariant holds.                                                    *)

(* The stack starts with every port of the range that no other call has,   *)
(* once.                                                                   *)
LEMMA InitialStack ==
  ASSUME NEW S, IsFiniteSet(S)
  PROVE  /\ SetToSeq(S) \in Seq(S)
         /\ \A p \in S : \E k \in DOMAIN SetToSeq(S) : SetToSeq(S)[k] = p
         /\ \A j, k \in DOMAIN SetToSeq(S) : SetToSeq(S)[j] = SetToSeq(S)[k] => j = k
<1>1. PICK n \in Nat : n = Cardinality(S) /\ ExistsBijection(1..n, S)
  BY FS_CardinalityType
<1>2. PICK f \in [1..n -> S] : IsInjective(f)
  BY <1>1 DEF ExistsBijection, Bijection, Injection
<1>3. SetToSeq(S) \in [1..n -> S] /\ IsInjective(SetToSeq(S))
  BY <1>1, <1>2 DEF SetToSeq
<1>4. SetToSeq(S) \in Injection(1..n, S)
  BY <1>3 DEF Injection
<1>5. IsFiniteSet(1..n) /\ Cardinality(1..n) = n
  BY FS_Interval
<1>6. SetToSeq(S) \in Surjection(1..n, S)
  BY <1>1, <1>4, <1>5, FS_Injection
<1>7. SetToSeq(S) \in Seq(S)
  BY <1>3, IsASeq
<1> QED
  BY <1>3, <1>6, <1>7 DEF Surjection, IsInjective

(* At first a port is with another call, or in the stack once.             *)
LEMMA InitPorts ==
  ASSUME Init
  PROVE  free \in Seq(Ports) /\ OneOwner
<1>1. /\ others \subseteq Ports /\ free = SetToSeq(Ports \ others)
      /\ held = [a \in Answers |-> [l \in Legs |-> None]]
      /\ sock = [o \in Objs |-> "none"]
  BY DEF Init
<1>2. IsFiniteSet(Ports \ others)
  BY CallAssumption, FS_Subset
<1>3. /\ free \in Seq(Ports \ others)
      /\ \A p \in Ports \ others : \E k \in DOMAIN free : free[k] = p
      /\ \A j, k \in DOMAIN free : free[j] = free[k] => j = k
  BY <1>1, <1>2, InitialStack
<1>4. DOMAIN free \subseteq Nat /\ \A k \in DOMAIN free : free[k] \in Ports \ others
  <2>1. Len(free) \in Nat /\ DOMAIN free = 1..Len(free) /\ free \in [1..Len(free) -> Ports \ others]
    BY <1>3, LenProperties
  <2> QED
    BY <2>1
<1>5. free \in Seq(Ports)
  <2>1. Ports \ others \subseteq Ports
    OBVIOUS
  <2> QED
    BY <1>3, <2>1, SeqMonotonic
<1>6. \A p \in Ports : /\ \A a \in Answers : \A l \in Legs : ~HeldBy(p, a, l)
                       /\ \A o \in Objs : ~Listening(p, o)
  BY <1>1, CallAssumption DEF HeldBy, Listening
<1>7. ASSUME NEW p \in Ports PROVE HasOwner(p) /\ NoOther(p)
  <2>1. \A j, k \in Nat : InFree(p, j) /\ InFree(p, k) => p \notin others /\ j = k
    BY <1>3, <1>4 DEF InFree
  <2>2. p \in others \/ \E k \in Nat : InFree(p, k)
    BY <1>3, <1>4 DEF InFree
  <2> QED
    BY <1>6, <2>1, <2>2 DEF HasOwner, NoOther
<1> QED
  BY <1>5, <1>7 DEF OneOwner

(* The inductive invariant holds at first.                                 *)
LEMMA InitIInv == Init => IInv
<1> SUFFICES ASSUME Init PROVE IInv
  OBVIOUS
<1> USE DEF Handlers
<1>1. /\ stage = [o \in Objs |-> "absent"] /\ sid = [o \in Objs |-> None]
      /\ pc = [a \in Answers |-> "idle"] /\ call = [h \in Handlers |-> None]
      /\ leg = [a \in Answers |-> [l \in Legs |-> None]]
      /\ held = [a \in Answers |-> [l \in Legs |-> None]]
      /\ sock = [o \in Objs |-> "none"] /\ port = [o \in Objs |-> None]
      /\ toClose = [h \in Handlers |-> <<>>] /\ closing = [h \in Handlers |-> None]
      /\ served = [d \in Deletes |-> FALSE] /\ past = [busy |-> TRUE, orderly |-> TRUE]
      /\ others \subseteq Ports
  BY DEF Init, StoreInit
<1>a. "tcore" \in Legs /\ "taccess" \in Legs
  BY DEF Legs
<1>2. TypeOK
  <2>1. toClose \in [Handlers -> Seq(IDs)]
    BY <1>1, EmptySeq
  <2> QED
    BY <1>1, <2>1, InitPorts DEF TypeOK, Stages, AnswerSteps
<1>3. OpenSessions = {}
  BY <1>1 DEF OpenSessions
<1>4. LegsMade /\ LegsDiffer
  BY <1>1, <1>a DEF LegsMade, LegsDiffer, HasBoth
<1>5. OneOpen /\ Owned
  BY <1>3 DEF OneOpen, Owned
<1>6. \A h \in Handlers : \A l \in Legs : ~Waiting(h, l)
  BY <1>1, OnLists DEF Waiting
<1>7. Closes
  BY <1>1, <1>6, OnLists DEF Closes
<1>8. Kept /\ ClosesOwn
  BY <1>1 DEF Kept, ClosesOwn
<1>9. Found /\ Deleted
  BY <1>1 DEF Found, Deleted
<1>10. Holds /\ Sockets
  BY <1>1, <1>a DEF Holds, Sockets
<1> QED
  BY <1>2, <1>4, <1>5, <1>7, <1>8, <1>9, <1>10, InitPorts DEF IInv, CallIInv

(* It depends on the state's variables alone.                              *)
LEMMA StutterIInv == IInv /\ UNCHANGED vars => IInv'
<1> SUFFICES ASSUME IInv, UNCHANGED vars PROVE IInv'
  OBVIOUS
<1>1. /\ UNCHANGED <<stage, sid, free, others, held, sock, port, pc, call, leg>>
      /\ UNCHANGED <<toClose, closing, served, past>>
  BY DEF vars, storeVars, portVars, handlerVars, closeVars
<1>2. TypeOK' /\ LegsMade' /\ LegsDiffer'
  BY <1>1 DEF IInv, CallIInv, TypeOK, LegsMade, LegsDiffer
<1>3. OneOpen' /\ Owned' /\ Closes'
  BY <1>1 DEF IInv, CallIInv, OneOpen, Owned, Closes, OpenSessions, Waiting
<1>4. Kept' /\ ClosesOwn'
  BY <1>1 DEF IInv, CallIInv, Kept, ClosesOwn, BusyNow, NotDeleted, Waiting, CreatedBy
<1>5. Found' /\ Deleted'
  BY <1>1 DEF IInv, CallIInv, Found, Deleted, Waiting, OpenWith, OpenSessions
<1>6. Holds' /\ Sockets'
  BY <1>1 DEF IInv, Holds, Sockets
<1>7. OneOwner'
  BY <1>1 DEF IInv, OneOwner, HasOwner, NoOther, InFree, HeldBy, Listening
<1> QED
  BY <1>2, <1>3, <1>4, <1>5, <1>6, <1>7 DEF IInv, CallIInv

(* Every step keeps the invariant.                                         *)
LEMMA StepIInv == IInv /\ [Next]_vars => IInv'
<1> SUFFICES ASSUME IInv, Next PROVE IInv'
  BY StutterIInv
<1>1. /\ TypeOK /\ LegsMade /\ LegsDiffer /\ OneOpen /\ Closes /\ Owned /\ Kept /\ ClosesOwn
      /\ Found /\ Deleted /\ Holds /\ Sockets /\ OneOwner
  BY DEF IInv, CallIInv
<1>2. Step /\ PastAfter
  BY DEF Next
<1>3. Kinds /\ Deals
  BY <1>1, <1>2, StepKinds, StepDeals
<1>4. TypeOK' /\ LegsMade' /\ LegsDiffer' /\ OneOpen' /\ Closes' /\ Owned'
  BY <1>1, <1>3, StepTyped, StepLegsMade, StepLegsDiffer, StepOneOpen, StepCloses, StepOwned
<1>5. Kept' /\ ClosesOwn' /\ Found' /\ Deleted'
  BY <1>1, <1>2, <1>3, StepKept, StepClosesOwn, StepFound, StepDeleted
<1>6. Holds' /\ Sockets' /\ OneOwner'
  BY <1>1, <1>2, <1>3, StepHolds, StepSockets, StepOneOwner
<1> QED
  BY <1>4, <1>5, <1>6 DEF IInv, CallIInv

(* The inductive invariant holds of every reachable state.                 *)
THEOREM CallControlIInv == Spec => []IInv
<1>1. Init => IInv
  BY InitIInv
<1>2. IInv /\ [Next]_vars => IInv'
  BY StepIInv
<1> QED
  BY <1>1, <1>2, PTL DEF Spec

-----------------------------------------------------------------------------
(* What it implies.                                                        *)

(* The owners of a port, by the places it can be at.                       *)
LEMMA OwnersAre ==
  ASSUME Holds, NEW p \in Ports, NEW x
  PROVE  x \in PortOwners(p) <=>
           \/ x = <<"another call">> /\ p \in others
           \/ \E k \in DOMAIN free : x = <<"free", k>> /\ free[k] = p
           \/ \E a \in Answers : \E l \in Legs : x = <<"handler", a, l>> /\ HeldBy(p, a, l)
           \/ \E o \in Objs : x = <<"listener", o>> /\ Listening(p, o)
<1>1. x \in {<<"another call">> : k \in others \cap {p}} <=>
        x = <<"another call">> /\ p \in others
  OBVIOUS
<1>2. x \in {<<"free", k>> : k \in {j \in DOMAIN free : free[j] = p}} <=>
        \E k \in DOMAIN free : x = <<"free", k>> /\ free[k] = p
  OBVIOUS
<1>3. x \in {<<"listener", o>> : o \in {q \in Objs : sock[q] \in {"open", "closed"} /\ port[q] = p}}
        <=> \E o \in Objs : x = <<"listener", o>> /\ Listening(p, o)
  BY DEF Listening
<1>4. \A a \in Answers : \A l \in Legs : HeldBy(p, a, l) => pc[a] \in Holding
  BY CallAssumption DEF HeldBy, Holds, Holding, Legs
<1>5. x \in {<<"handler", al[1], al[2]>> : al \in {y \in Answers \X Legs :
                          pc[y[1]] \in Holding /\ held[y[1]][y[2]] = p}}
        <=> \E a \in Answers : \E l \in Legs : x = <<"handler", a, l>> /\ HeldBy(p, a, l)
  <2>1. ASSUME NEW al \in Answers \X Legs, held[al[1]][al[2]] = p,
               x = <<"handler", al[1], al[2]>>
        PROVE  \E a \in Answers : \E l \in Legs : x = <<"handler", a, l>> /\ HeldBy(p, a, l)
    <3>1. al[1] \in Answers /\ al[2] \in Legs
      OBVIOUS
    <3> QED
      BY <2>1, <3>1 DEF HeldBy
  <2>2. ASSUME NEW a \in Answers, NEW l \in Legs, x = <<"handler", a, l>>, HeldBy(p, a, l)
        PROVE  \E al \in Answers \X Legs :
                 /\ pc[al[1]] \in Holding /\ held[al[1]][al[2]] = p
                 /\ x = <<"handler", al[1], al[2]>>
    <3>1. <<a, l>> \in Answers \X Legs /\ <<a, l>>[1] = a /\ <<a, l>>[2] = l
      OBVIOUS
    <3>2. pc[a] \in Holding /\ held[a][l] = p
      BY <1>4, <2>2 DEF HeldBy
    <3> QED
      BY <2>2, <3>1, <3>2
  <2> QED
    BY <2>1, <2>2
<1> QED
  BY <1>1, <1>2, <1>3, <1>5 DEF PortOwners

(* One place is one owner.                                                 *)
LEMMA OneOwnerIsConserved ==
  ASSUME TypeOK, Holds, OneOwner
  PROVE  PortsConserved
<1> SUFFICES ASSUME NEW p \in Ports PROVE \E y : PortOwners(p) = {y}
  BY FS_Singleton DEF PortsConserved
<1>1. HasOwner(p) /\ NoOther(p)
  BY DEF OneOwner
<1>2. DOMAIN free \subseteq Nat
  <2>1. Len(free) \in Nat /\ DOMAIN free = 1..Len(free)
    BY TypeParts, LenProperties
  <2> QED
    BY <2>1
<1>a. \A k \in DOMAIN free : free[k] = p <=> InFree(p, k)
  BY DEF InFree
<1>b. \A k : InFree(p, k) => k \in DOMAIN free
  BY DEF InFree
<1> HIDE DEF InFree, HeldBy, Listening
<1>c. ASSUME NEW y, y \in PortOwners(p), \A x : x \in PortOwners(p) => x = y
      PROVE  \E z : PortOwners(p) = {z}
  <2>1. PortOwners(p) = {y}
    BY <1>c
  <2> QED
    BY <2>1
<1>3. CASE p \in others
  <2>1. PICK y : y = <<"another call">>
    OBVIOUS
  <2>2. y \in PortOwners(p)
    BY <1>3, <2>1, OwnersAre
  <2>3. ASSUME NEW x, x \in PortOwners(p) PROVE x = y
    <3>1. /\ \A k \in Nat : ~InFree(p, k)
          /\ \A a \in Answers : \A l \in Legs : ~HeldBy(p, a, l)
          /\ \A o \in Objs : ~Listening(p, o)
      BY <1>1, <1>3 DEF NoOther
    <3>2. \A k \in DOMAIN free : free[k] # p
      BY <1>2, <1>a, <3>1
    <3> QED
      BY <2>1, <2>3, <3>1, <3>2, OwnersAre
  <2> QED
    BY <1>c, <2>2, <2>3
<1>4. ASSUME NEW k \in Nat, InFree(p, k) PROVE \E y : PortOwners(p) = {y}
  <2>1. PICK y : y = <<"free", k>>
    OBVIOUS
  <2>2. y \in PortOwners(p)
    BY <1>4, <1>a, <1>b, <2>1, OwnersAre
  <2>3. ASSUME NEW x, x \in PortOwners(p) PROVE x = y
    <3>1. /\ p \notin others
          /\ \A j \in Nat : InFree(p, j) => j = k
          /\ \A a \in Answers : \A l \in Legs : ~HeldBy(p, a, l)
          /\ \A o \in Objs : ~Listening(p, o)
      BY <1>1, <1>4 DEF NoOther
    <3>2. \A j \in DOMAIN free : free[j] = p => j = k
      BY <1>2, <1>a, <3>1
    <3> QED
      BY <2>1, <2>3, <3>1, <3>2, OwnersAre
  <2> QED
    BY <1>c, <2>2, <2>3
<1>5. ASSUME NEW a \in Answers, NEW l \in Legs, HeldBy(p, a, l) PROVE \E y : PortOwners(p) = {y}
  <2>1. PICK y : y = <<"handler", a, l>>
    OBVIOUS
  <2>2. y \in PortOwners(p)
    BY <1>5, <2>1, OwnersAre
  <2>3. ASSUME NEW x, x \in PortOwners(p) PROVE x = y
    <3>1. /\ p \notin others
          /\ \A k \in Nat : ~InFree(p, k)
          /\ \A b \in Answers : \A m \in Legs : HeldBy(p, b, m) => b = a /\ m = l
          /\ \A o \in Objs : ~Listening(p, o)
      BY <1>1, <1>5 DEF NoOther
    <3>2. \A k \in DOMAIN free : free[k] # p
      BY <1>2, <1>a, <3>1
    <3> QED
      BY <2>1, <2>3, <3>1, <3>2, OwnersAre
  <2> QED
    BY <1>c, <2>2, <2>3
<1>6. ASSUME NEW o \in Objs, Listening(p, o) PROVE \E y : PortOwners(p) = {y}
  <2>1. PICK y : y = <<"listener", o>>
    OBVIOUS
  <2>2. y \in PortOwners(p)
    BY <1>6, <2>1, OwnersAre
  <2>3. ASSUME NEW x, x \in PortOwners(p) PROVE x = y
    <3>1. /\ p \notin others
          /\ \A k \in Nat : ~InFree(p, k)
          /\ \A a \in Answers : \A l \in Legs : ~HeldBy(p, a, l)
          /\ \A q \in Objs : Listening(p, q) => q = o
      BY <1>1, <1>6 DEF NoOther
    <3>2. \A k \in DOMAIN free : free[k] # p
      BY <1>2, <1>a, <3>1
    <3> QED
      BY <2>1, <2>3, <3>1, <3>2, OwnersAre
  <2> QED
    BY <1>c, <2>2, <2>3
<1> QED
  BY <1>1, <1>3, <1>4, <1>5, <1>6 DEF HasOwner

(* An answered call has both listeners, on two ports.                      *)
LEMMA AnsweredLegs ==
  ASSUME TypeOK, LegsMade, LegsDiffer, Sockets, OneOwner
  PROVE  AnsweredHasTwoLegs
<1> SUFFICES ASSUME NEW a \in Answers, pc[a] = "ok"
             PROVE  /\ \A l \in Legs : /\ leg[a][l] # None /\ sid[leg[a][l]] = <<call[a], l>>
                                       /\ sock[leg[a][l]] # "none"
                    /\ (\A l \in Legs : sock[leg[a][l]] = "open") =>
                         port[leg[a]["tcore"]] # port[leg[a]["taccess"]]
  BY DEF AnsweredHasTwoLegs
<1>a. "tcore" \in Legs /\ "taccess" \in Legs
  BY DEF Legs
<1>1. \A l \in Legs : leg[a][l] # None /\ sid[leg[a][l]] = <<call[a], l>>
  BY DEF LegsMade, HasBoth
<1>2. \A l \in Legs : sock[leg[a][l]] # "none"
  BY DEF Sockets, Legs
<1>3. PICK o, q \in Objs : o = leg[a]["tcore"] /\ q = leg[a]["taccess"] /\ o # q
  <2>1. leg[a]["tcore"] \in Objs /\ leg[a]["taccess"] \in Objs
    BY <1>a, <1>1, TypeParts
  <2>2. leg[a]["tcore"] # leg[a]["taccess"]
    BY <1>a, <1>1 DEF LegsDiffer
  <2> QED
    BY <2>1, <2>2
<1>4. ASSUME sock[o] = "open", sock[q] = "open" PROVE port[o] # port[q]
  <2>1. PICK p \in Ports : p = port[o]
    BY <1>4, TypeParts DEF Sockets
  <2>2. Listening(p, o) /\ (port[q] = p => Listening(p, q))
    BY <1>4, <2>1 DEF Listening
  <2>3. NoOther(p)
    BY DEF OneOwner
  <2> QED
    BY <1>3, <2>1, <2>2, <2>3 DEF NoOther
<1> QED
  BY <1>1, <1>2, <1>3, <1>4, <1>a

(* Once all its ANSWERs are over, a call has no leg in the map.            *)
LEMMA OwnedNoStray ==
  ASSUME TypeOK, LegsMade, Closes, Owned
  PROVE  NoStrayLeg
<1> SUFFICES ASSUME NEW c \in Calls, Abandoned(c), NEW l \in Legs, NEW o \in OpenSessions,
                    sid[o] = <<c, l>>
             PROVE  FALSE
  BY DEF NoStrayLeg, OpenWith
<1> USE DEF Handlers
<1>1. PICK a \in Answers, m \in Legs :
        leg[a][m] = o /\ (pc[a] \notin Over \/ Waiting(a, m))
  BY DEF Owned
<1>2. o # None
  BY StoreAssumption DEF OpenSessions
<1>3. call[a] = c
  BY <1>1, <1>2 DEF LegsMade
<1>4. pc[a] = "refused"
  BY <1>3 DEF Abandoned
<1>5. toClose[a] = <<>>
  BY <1>4 DEF Closes
<1>6. ~Waiting(a, m)
  BY <1>5, OnLists DEF Waiting
<1> QED
  BY <1>1, <1>4, <1>6 DEF Over

(* A DELETE that is through has both legs off its list.                    *)
LEMMA DeletedBoth ==
  ASSUME TypeOK, LegsMade, Deleted
  PROVE  DeleteClosesBoth
<1> SUFFICES ASSUME NEW d \in Deletes, NEW a \in Answers, past.orderly, served[d],
                    toClose[d] = <<>>, pc[a] = "ok", call[a] = call[d],
                    \A b \in Answers : call[b] = call[d] => b = a, NEW l \in Legs
             PROVE  OpenWith(<<call[d], l>>) = {}
  BY DEF DeleteClosesBoth
<1>1. call[d] # None
  BY DEF LegsMade
<1>2. ~Waiting(d, l)
  BY OnLists DEF Waiting
<1> QED
  BY <1>1, <1>2 DEF Deleted

(* From handleAnswer, its rollbacks, deleteCallSession and the call-control*)
(* goroutine: an answered call has both legs on two ports, a refused one   *)
(* leaves none open, a DELETE after the ANSWER closes both, and rollbacks  *)
(* by ID close the handler's own sessions, for any number of calls and     *)
(* requests that overlap.                                                  *)
THEOREM LegsOfACall == Spec => []CallControlInv
<1>1. IInv => CallControlInv
  BY AnsweredLegs, OwnedNoStray, DeletedBoth DEF IInv, CallIInv, CallControlInv
<1> QED
  BY <1>1, CallControlIInv, PTL

(* From PortAllocator and StartSessionListener: no port is lost or handed  *)
(* out twice, whichever step of an ANSWER fails and whoever closes its     *)
(* sessions.                                                               *)
THEOREM NoPortLost == Spec => []PortsConserved
<1>1. IInv => PortsConserved
  BY OneOwnerIsConserved DEF IInv, CallIInv
<1> QED
  BY <1>1, CallControlIInv, PTL
=============================================================================
