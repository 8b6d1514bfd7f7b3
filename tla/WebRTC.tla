------------------------------- MODULE WebRTC -------------------------------
(***************************************************************************)
(* internal/ingress/webrtc: SDP offers, the peer connections they make,    *)
(* the table of peers, the cleanup goroutine of every peer, the reader of  *)
(* its audio track and its UDP relay.                                      *)
(*                                                                         *)
(* An offer makes at most one peer, so the peer of offer f is called f.    *)
(* An offer looks its session up once and goes on with what it found while *)
(* the session may be closed, its ID be used again and other offers for    *)
(* the ID be served: one action is one critical section of Handler.mu, of  *)
(* the dispatcher or the session, or one call of the pion library.  The    *)
(* library is external: connections come up and are lost at any time.      *)
(* Sessions follow SessionStore.                                           *)
(*                                                                         *)
(* A definition X_Bug is X with a bug that the runs are known to find; no  *)
(* action uses it.                                                         *)
(***************************************************************************)
EXTENDS SessionStore

CONSTANTS
  Offers,     \* bound: the POST /v1/webrtc/offer requests
  Configs     \* what is run: is Config.DCUDPProxyAddr set (udp), and how
              \* many RTP packets a peer sends (packets, a bound)

ASSUME WebRTCAssumption ==
  /\ Configs \subseteq [udp : BOOLEAN, packets : Nat]
  /\ None \notin Offers

VARIABLES
  cfg,      \* the configuration
  pcs,      \* Handler.pcs: session ID -> peer
  pc,       \* progress of every offer
  target,   \* the session an offer found
  peer,     \* the PeerSession an offer makes, with its goroutines
  sinks,    \* Dispatcher.sinks: the DataChannel sinks of every ID
  swept,    \* sessions whose cleanup goroutine has dropped the sinks of the ID
  past      \* a record of the past, which no action reads: see PastAfter

vars == <<storeVars, cfg, pcs, pc, target, peer, sinks, swept, past>>

OfferSteps == {"idle", "close", "make", "sink", "store", "describe",
               "answered", "refused"}

Peers ==
  [ctx    : {"live", "done"},                          \* PeerSession.ctx
   conn   : {"none", "new", "up", "lost", "closed"},   \* the PeerConnection
   watch  : {"none", "waiting", "closing", "done"},    \* goroutine of ServeOffer
   reader : {"none", "reading", "holding", "stopped"}, \* readRTPLoop
   left   : 0 .. cfg.packets,                          \* packets still to come
   socket : {"none", "bound", "closed"},               \* udpProxy.conn
   relay  : BOOLEAN]                                   \* has udpProxy.run started

NoPeer == [ctx |-> "live", conn |-> "none", watch |-> "none", reader |-> "none",
           left |-> cfg.packets, socket |-> "none", relay |-> FALSE]

TypeOK ==
  /\ stage \in [Objs -> Stages]
  /\ sid \in [Objs -> IDs \cup {None}]
  /\ cfg \in Configs
  /\ pcs \in [IDs -> Offers \cup {None}]
  /\ pc \in [Offers -> OfferSteps]
  /\ target \in [Offers -> Objs \cup {None}]
  /\ peer \in [Offers -> Peers]
  /\ sinks \in [IDs -> SUBSET Offers]
  /\ swept \in SUBSET Objs
  /\ past \in [overlap : BOOLEAN, late : BOOLEAN]

Init ==
  /\ StoreInit
  /\ cfg \in Configs
  /\ pcs = [i \in IDs |-> None]
  /\ pc = [f \in Offers |-> "idle"]
  /\ target = [f \in Offers |-> None]
  /\ peer = [f \in Offers |-> NoPeer]
  /\ sinks = [i \in IDs |-> {}]
  /\ swept = {}
  /\ past = [overlap |-> FALSE, late |-> FALSE]

ID(f) == sid[target[f]]

GoTo(f, step) == pc' = [pc EXCEPT ![f] = step]

(* PeerSession.Close.                                                      *)
Closed_Swapped(p) == [p EXCEPT !.ctx = "closed", !.conn = "done"]
Closed(p) == [p EXCEPT !.ctx = "done", !.conn = "closed"]

-----------------------------------------------------------------------------
(* Sessions.  The context of a peer is a child of its session's.           *)

CreateSession(o, i) ==
  /\ Allocate(o, i)
  /\ o = CHOOSE p \in Objs : stage[p] = "absent"     \* only a matter of names
  /\ UNCHANGED <<cfg, pcs, pc, target, peer, sinks, swept>>

UnlinkSession(o) ==
  /\ Unlink(o)
  /\ UNCHANGED <<cfg, pcs, pc, target, peer, sinks, swept>>

CancelSession(o) ==
  /\ End(o)
  /\ peer' = [f \in Offers |->
                IF target[f] = o /\ peer[f].conn # "none"
                THEN [peer[f] EXCEPT !.ctx = "done"] ELSE peer[f]]
  /\ UNCHANGED <<cfg, pcs, pc, target, sinks, swept>>

(* The coordinator's cleanup of a session that has ended.                  *)
SweepSinks_Kept(o) ==
  /\ stage[o] = "ended"
  /\ o \notin swept
  /\ swept' = swept \cup {o}
  /\ UNCHANGED <<storeVars, cfg, pcs, pc, target, peer, sinks>>

SweepSinks(o) ==
  /\ stage[o] = "ended"
  /\ o \notin swept
  /\ swept' = swept \cup {o}
  /\ sinks' = [sinks EXCEPT ![sid[o]] = {}]
  /\ UNCHANGED <<storeVars, cfg, pcs, pc, target, peer>>

-----------------------------------------------------------------------------
(* ServeOffer.                                                             *)

(* mgr.Get finds an open session whose source type is webrtc.  Which of    *)
(* the unused offers this is, is only a matter of names.                   *)
Offer(f, o) ==
  /\ pc[f] = "idle"
  /\ f = CHOOSE g \in Offers : pc[g] = "idle"
  /\ stage[o] = "open"
  /\ target' = [target EXCEPT ![f] = o]
  /\ GoTo(f, "close")
  /\ UNCHANGED <<storeVars, cfg, pcs, peer, sinks, swept>>

(* Bad JSON, a missing field, no such session or one of another source.    *)
RefuseOffer(f) ==
  /\ pc[f] = "idle"
  /\ f = CHOOSE g \in Offers : pc[g] = "idle"
  /\ GoTo(f, "refused")
  /\ UNCHANGED <<storeVars, cfg, pcs, target, peer, sinks, swept>>

CloseExisting(f) ==
  /\ pc[f] = "close"
  /\ LET p == pcs[ID(f)] IN
       peer' = IF p = None THEN peer ELSE [peer EXCEPT ![p] = Closed(@)]
  /\ GoTo(f, "make")
  /\ UNCHANGED <<storeVars, cfg, pcs, target, sinks, swept>>

(* newPeerSession.                                                         *)
PeerCtx_Detached(f) == "live"
PeerCtx(f) == IF stage[target[f]] = "ended" THEN "done" ELSE "live"

MakePeer(f) ==
  /\ pc[f] = "make"
  /\ peer' = [peer EXCEPT ![f].ctx = PeerCtx(f),
                          ![f].conn = "new",
                          ![f].socket = IF cfg.udp THEN "bound" ELSE "none"]
  /\ GoTo(f, "sink")
  /\ UNCHANGED <<storeVars, cfg, pcs, target, sinks, swept>>

(* It fails and closes its connection: before it had a context or, when no *)
(* socket can be bound for the relay, after.                               *)
MakePeerFails(f) ==
  /\ pc[f] = "make"
  /\ \/ UNCHANGED peer
     \/ /\ cfg.udp
        /\ peer' = [peer EXCEPT ![f].ctx = PeerCtx(f), ![f].conn = "closed"]
  /\ GoTo(f, "refused")
  /\ UNCHANGED <<storeVars, cfg, pcs, target, sinks, swept>>

AddSink(f) ==
  /\ pc[f] = "sink"
  /\ sinks' = [sinks EXCEPT ![ID(f)] = @ \cup {f}]
  /\ GoTo(f, "store")
  /\ UNCHANGED <<storeVars, cfg, pcs, target, peer, swept>>

(* The peer enters the table and its cleanup goroutine is started.         *)
Store(f) ==
  /\ pc[f] = "store"
  /\ pcs' = [pcs EXCEPT ![ID(f)] = f]
  /\ peer' = [peer EXCEPT ![f].watch = "waiting"]
  /\ GoTo(f, "describe")
  /\ UNCHANGED <<storeVars, cfg, target, sinks, swept>>

(* SetRemoteDescription, CreateAnswer, SetLocalDescription and the wait    *)
(* for ICE candidates; a closed connection refuses all of them.            *)
Describe(f) ==
  /\ pc[f] = "describe"
  /\ peer[f].conn # "closed"
  /\ GoTo(f, "answered")
  /\ UNCHANGED <<storeVars, cfg, pcs, target, peer, sinks, swept>>

DescribeFails(f) ==
  /\ pc[f] = "describe"
  /\ peer' = [peer EXCEPT ![f] = Closed(@)]
  /\ GoTo(f, "refused")
  /\ UNCHANGED <<storeVars, cfg, pcs, target, sinks, swept>>

-----------------------------------------------------------------------------
(* The goroutines and callbacks of a peer.                                 *)

PeerStep(f, p) ==
  /\ peer' = [peer EXCEPT ![f] = p]
  /\ UNCHANGED <<storeVars, cfg, pcs, pc, target, sinks, swept>>

Connect(f) ==
  /\ pc[f] = "answered"
  /\ peer[f].conn = "new"
  /\ PeerStep(f, [peer[f] EXCEPT !.conn = "up"])

Lose(f) ==
  /\ pc[f] = "answered"
  /\ peer[f].conn \in {"new", "up"}
  /\ PeerStep(f, [peer[f] EXCEPT !.conn = "lost"])

(* OnConnectionStateChange: Failed, Closed or Disconnected.                *)
StateChanged(f) ==
  /\ peer[f].conn \in {"lost", "closed"}
  /\ peer[f].ctx = "live"
  /\ PeerStep(f, [peer[f] EXCEPT !.ctx = "done"])

(* dc.OnOpen with a UDP proxy.                                             *)
StartRelay(f) ==
  /\ peer[f].conn = "up"
  /\ peer[f].socket # "none"
  /\ ~peer[f].relay
  /\ PeerStep(f, [peer[f] EXCEPT !.relay = TRUE])

(* The goroutine in run closes the socket, which ends the relay.           *)
StopRelay(f) ==
  /\ peer[f].relay
  /\ peer[f].ctx = "done"
  /\ peer[f].socket = "bound"
  /\ PeerStep(f, [peer[f] EXCEPT !.socket = "closed"])

(* The cleanup goroutine: out of the table, unless the ID has another peer *)
(* by now; then the connection is closed.                                  *)
StillListed_Any(f) == TRUE
StillListed_Never(f) == FALSE
StillListed(f) == pcs[ID(f)] = f

Unlist(f) ==
  /\ peer[f].watch = "waiting"
  /\ peer[f].ctx = "done"
  /\ pcs' = IF StillListed(f) THEN [pcs EXCEPT ![ID(f)] = None] ELSE pcs
  /\ peer' = [peer EXCEPT ![f].watch = "closing"]
  /\ UNCHANGED <<storeVars, cfg, pc, target, sinks, swept>>

Hangup(f) ==
  /\ peer[f].watch = "closing"
  /\ PeerStep(f, [Closed(peer[f]) EXCEPT !.watch = "done"])

-----------------------------------------------------------------------------
(* readRTPLoop.                                                            *)

StartReader(f) ==
  /\ peer[f].conn = "up"
  /\ peer[f].reader = "none"
  /\ PeerStep(f, [peer[f] EXCEPT !.reader = "reading"])

ReadPacket(f) ==
  /\ peer[f].conn = "up"
  /\ peer[f].reader = "reading"
  /\ peer[f].left > 0
  /\ PeerStep(f, [peer[f] EXCEPT !.reader = "holding", !.left = @ - 1])

(* The select with the session's PacketQueue: the packet is queued if there*)
(* is room, and otherwise dropped.                                         *)
PassPacket(f) ==
  /\ peer[f].reader = "holding"
  /\ PeerStep(f, [peer[f] EXCEPT !.reader = "reading"])

StopReader(f) ==
  /\ \/ peer[f].reader = "holding" /\ peer[f].ctx = "done"
     \/ peer[f].reader = "reading" /\ peer[f].conn = "closed"  \* ReadRTP fails
  /\ PeerStep(f, [peer[f] EXCEPT !.reader = "stopped"])

-----------------------------------------------------------------------------

(* An offer is in the middle of its work for an ID.                        *)
Midway(f) == pc[f] \in {"close", "make", "sink", "store"}

(* Have two offers for one ID overlapped; has a session been cancelled      *)
(* while an offer was still being served.                                   *)
PastAfter ==
  past' = [overlap |-> past.overlap \/
             \E f, g \in Offers :
               f # g /\ Midway(f)' /\ Midway(g)' /\ ID(f)' = ID(g)',
           late |-> past.late \/
             \E f \in Offers : Midway(f)' /\ stage'[target'[f]] = "ended"]

ServeStep(f) ==
  \/ CloseExisting(f)
  \/ MakePeer(f)
  \/ MakePeerFails(f)
  \/ AddSink(f)
  \/ Store(f)
  \/ Describe(f)
  \/ DescribeFails(f)

GoroutineStep(f) ==
  \/ StateChanged(f)
  \/ StopRelay(f)
  \/ Unlist(f)
  \/ Hangup(f)
  \/ PassPacket(f)
  \/ StopReader(f)

ClientStep(f) ==
  \/ \E o \in Objs : Offer(f, o)
  \/ RefuseOffer(f)
  \/ Connect(f)
  \/ Lose(f)
  \/ StartRelay(f)
  \/ StartReader(f)
  \/ ReadPacket(f)

SessionStep(o) ==
  \/ \E i \in IDs : CreateSession(o, i)
  \/ UnlinkSession(o)
  \/ CancelSession(o)
  \/ SweepSinks(o)

Next ==
  /\ \/ \E f \in Offers : ServeStep(f) \/ GoroutineStep(f) \/ ClientStep(f)
     \/ \E o \in Objs : SessionStep(o)
  /\ PastAfter

Spec == Init /\ [][Next]_vars

(* The program's own goroutines run on; clients, the network and callers of *)
(* the manager need not.  No step can be taken more than a bounded number   *)
(* of times, so one condition for all of them asks no more than one each.   *)
OwnStep ==
  \/ \E f \in Offers : ServeStep(f) \/ GoroutineStep(f)
  \/ \E o \in Objs : CancelSession(o) \/ SweepSinks(o)

FairSpec == Spec /\ WF_vars(OwnStep /\ PastAfter)

-----------------------------------------------------------------------------
(* Properties.                                                             *)

(* Every entry of the table has a cleanup goroutine that has yet to remove  *)
(* it, and belongs to a session with that ID: no replacement, refusal or    *)
(* reuse of the ID leaves a dead entry behind.                              *)
EntriesAreWatched ==
  \A i \in IDs : pcs[i] # None => ID(pcs[i]) = i /\ peer[pcs[i]].watch = "waiting"

(* As long as offers for one ID do not overlap, a peer that is not being    *)
(* ended is the one in the table: the next offer will find it and close it, *)
(* and no session is fed by two peers.                                      *)
LivePeerIsListed ==
  ~past.overlap =>
    \A f \in Offers :
      peer[f].watch = "waiting" /\ peer[f].ctx = "live" => pcs[ID(f)] = f

(* As long as no session is cancelled while an offer for it is being        *)
(* served, the sinks of an ID belong to a session that has yet to be swept. *)
SinksHaveSession ==
  ~past.late =>
    \A i \in IDs : \A f \in sinks[i] : \E o \in Objs \ swept : sid[o] = i

(* The session has ended and everything its offers made has been taken      *)
(* down: peer out of the table, connection closed, goroutines gone and, if  *)
(* the data channel was ever open, the socket of the relay closed.          *)
TakenDown(f) ==
  /\ peer[f].ctx = "done" \/ peer[f].conn = "none"
  /\ peer[f].conn \in {"none", "closed"}
  /\ peer[f].watch \in {"none", "done"}
  /\ peer[f].reader \in {"none", "stopped"}
  /\ peer[f].relay => peer[f].socket = "closed"
  /\ \A i \in IDs : pcs[i] # f

(* Whatever a session's clients and offers did, and even if the offer found *)
(* the session open and stored its peer after it had ended, a peer does not *)
(* outlive its session.                                                     *)
PeersEndWithSession ==
  <>[](\A f \in Offers :
         target[f] # None => (stage[target[f]] = "ended" => TakenDown(f)))

(* What holds of the tables at any moment: an entry's peer has a goroutine that *)
(* will remove it, and sinks belong to sessions that will sweep them.           *)
WebRTCInv == TypeOK /\ EntriesAreWatched /\ SinksHaveSession
=============================================================================
