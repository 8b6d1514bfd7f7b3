-------------------------- MODULE WebRTCPoolProofs --------------------------
(***************************************************************************)
(* The WebRTC ingress for every number of sessions, IDs and offers, every  *)
(* number of packets, and every interleaving of ServeOffer, the goroutines *)
(* of the peers and the closing of sessions; then the worker pool for every *)
(* number of sessions, IDs and workers, all capacities and any length of a *)
(* chunk.                                                                  *)
(***************************************************************************)
EXTENDS WebRTC, WorkerPool, SequenceTheorems, TLAPS

-----------------------------------------------------------------------------
(* The WebRTC ingress.                                                     *)

(* What an offer has by the step it has reached.                           *)
Served ==
  /\ \A o \in Objs : sid[o] = None <=> stage[o] = "absent"
  /\ \A f \in Offers :
       /\ pc[f] = "idle" => target[f] = None
       /\ pc[f] \notin {"idle", "refused"} => target[f] \in Objs
       /\ target[f] \in Objs => stage[target[f]] # "absent"
       /\ peer[f].watch # "none" =>
            target[f] \in Objs /\ pc[f] \in {"describe", "answered", "refused"}
  /\ \A o \in swept : stage[o] = "ended"

(* What the record of the past excludes in the present.                    *)
PastKnows ==
  /\ ~past.overlap =>
       \A f, g \in Offers : f # g /\ Midway(f) /\ Midway(g) => ID(f) # ID(g)
  /\ ~past.late => \A f \in Offers : Midway(f) => stage[target[f]] # "ended"

LivePeer(f) == peer[f].watch = "waiting" /\ peer[f].ctx = "live"

(* An offer that has closed the peer of its ID does not meet another until *)
(* it stores its own, where offers do not overlap.                         *)
AlreadyClosed ==
  ~past.overlap =>
    \A f, g \in Offers :
      f # g /\ pc[g] \in {"make", "sink", "store"} /\ LivePeer(f) => ID(f) # ID(g)

IInv ==
  /\ TypeOK /\ Served /\ PastKnows
  /\ EntriesAreWatched /\ SinksHaveSession
  /\ LivePeerIsListed /\ AlreadyClosed

-----------------------------------------------------------------------------
(* The steps of one peer.                                                  *)

USE StoreAssumption, WebRTCAssumption

PeerAction(f) ==
  \/ Connect(f) \/ Lose(f) \/ StateChanged(f) \/ StartRelay(f) \/ StopRelay(f)
  \/ Hangup(f) \/ StartReader(f) \/ ReadPacket(f) \/ PassPacket(f) \/ StopReader(f)

Others == <<storeVars, cfg, pcs, pc, target, sinks, swept>>

(* No cleanup goroutine starts or removes an entry, and no peer that has   *)
(* one comes alive again.                                                  *)
PeersCarryOn ==
  \A g \in Offers :
    /\ \/ peer'[g].watch = peer[g].watch
       \/ peer[g].watch = "closing" /\ peer'[g].watch = "done"
    /\ peer[g].watch # "none" => peer'[g].ctx \in {peer[g].ctx, "done"}

(* Callbacks, relays and readers change their own peer only.               *)
LEMMA PeerActions ==
  ASSUME TypeOK, NEW f \in Offers, PeerAction(f)
  PROVE  UNCHANGED Others /\ peer' \in [Offers -> Peers] /\ PeersCarryOn
<1> DEFINE Fine(p) ==
      /\ p \in Peers
      /\ p.watch = peer[f].watch \/ (peer[f].watch = "closing" /\ p.watch = "done")
      /\ p.ctx \in {peer[f].ctx, "done"}
<1>1. peer \in [Offers -> Peers] /\ peer[f] \in Peers
  BY DEF TypeOK
<1>p. ASSUME NEW p, PeerStep(f, p), Fine(p)
      PROVE  UNCHANGED Others /\ peer' \in [Offers -> Peers] /\ PeersCarryOn
  <2>1. peer' = [peer EXCEPT ![f] = p]
    BY <1>p DEF PeerStep
  <2>2. UNCHANGED Others
    BY <1>p DEF PeerStep, Others
  <2>3. peer' \in [Offers -> Peers]
    BY <1>1, <1>p, <2>1
  <2>4. PeersCarryOn
    BY <1>1, <1>p, <2>1 DEF PeersCarryOn
  <2> QED
    BY <2>2, <2>3, <2>4
<1>2. CASE Connect(f)
  BY <1>1, <1>2, <1>p DEF Connect, Peers
<1>3. CASE Lose(f)
  BY <1>1, <1>3, <1>p DEF Lose, Peers
<1>4. CASE StateChanged(f)
  BY <1>1, <1>4, <1>p DEF StateChanged, Peers
<1>5. CASE StartRelay(f)
  BY <1>1, <1>5, <1>p DEF StartRelay, Peers
<1>6. CASE StopRelay(f)
  BY <1>1, <1>6, <1>p DEF StopRelay, Peers
<1>7. CASE Hangup(f)
  BY <1>1, <1>7, <1>p DEF Hangup, Closed, Peers
<1>8. CASE StartReader(f)
  BY <1>1, <1>8, <1>p DEF StartReader, Peers
<1>9. CASE ReadPacket(f)
  <2> DEFINE p == [peer[f] EXCEPT !.reader = "holding", !.left = @ - 1]
  <2>1. cfg.packets \in Nat
    BY DEF TypeOK
  <2>2. peer[f].left \in 0 .. cfg.packets /\ peer[f].left > 0
    BY <1>1, <1>9 DEF ReadPacket, Peers
  <2>3. peer[f].left - 1 \in 0 .. cfg.packets
    BY <2>1, <2>2
  <2>4. p \in Peers /\ p.watch = peer[f].watch /\ p.ctx = peer[f].ctx
    BY <1>1, <2>3 DEF Peers
  <2> QED
    BY <1>9, <1>p, <2>4 DEF ReadPacket
<1>10. CASE PassPacket(f)
  BY <1>1, <1>10, <1>p DEF PassPacket, Peers
<1>11. CASE StopReader(f)
  BY <1>1, <1>11, <1>p DEF StopReader, Peers
<1> QED
  BY <1>2, <1>3, <1>4, <1>5, <1>6, <1>7, <1>8, <1>9, <1>10, <1>11 DEF PeerAction

(* The steps of an offer and of its goroutines, without those of the peer. *)
LEMMA NextCases ==
  ASSUME Next
  PROVE  /\ PastAfter
         /\ \/ \E f \in Offers :
                 \/ CloseExisting(f) \/ MakePeer(f) \/ MakePeerFails(f) \/ AddSink(f)
                 \/ Store(f) \/ Describe(f) \/ DescribeFails(f)
                 \/ Unlist(f) \/ RefuseOffer(f) \/ PeerAction(f)
            \/ \E f \in Offers, o \in Objs : Offer(f, o)
            \/ \E o \in Objs, i \in IDs : CreateSession(o, i)
            \/ \E o \in Objs : UnlinkSession(o) \/ CancelSession(o) \/ SweepSinks(o)
  BY DEF Next, ServeStep, GoroutineStep, ClientStep, SessionStep, PeerAction

(* Closing peers, as offers and sessions do, changes no table.             *)
LEMMA CancelPeers ==
  ASSUME TypeOK, NEW o \in Objs, CancelSession(o)
  PROVE  peer' \in [Offers -> Peers] /\ PeersCarryOn
<1> DEFINE p(f) == IF target[f] = o /\ peer[f].conn # "none"
                   THEN [peer[f] EXCEPT !.ctx = "done"] ELSE peer[f]
<1>1. peer \in [Offers -> Peers]
  BY DEF TypeOK
<1>2. peer' = [f \in Offers |-> p(f)]
  BY DEF CancelSession
<1>3. ASSUME NEW f \in Offers
      PROVE  p(f) \in Peers /\ p(f).watch = peer[f].watch /\ p(f).ctx \in {peer[f].ctx, "done"}
  <2>1. peer[f] \in Peers
    BY <1>1
  <2> QED
    BY <2>1 DEF Peers
<1> HIDE DEF p
<1> QED
  BY <1>2, <1>3 DEF PeersCarryOn

(* PeerSession.Close ends the peer and leaves its cleanup goroutine alone. *)
LEMMA ClosePeers ==
  ASSUME TypeOK, NEW f \in Offers, peer' = [peer EXCEPT ![f] = Closed(@)]
  PROVE  /\ peer' \in [Offers -> Peers] /\ PeersCarryOn
         /\ peer'[f].ctx = "done" /\ peer'[f].watch = peer[f].watch
<1>1. peer \in [Offers -> Peers] /\ peer[f] \in Peers
  BY DEF TypeOK
<1>2. /\ Closed(peer[f]) \in Peers /\ Closed(peer[f]).watch = peer[f].watch
      /\ Closed(peer[f]).ctx = "done"
  BY <1>1 DEF Closed, Peers
<1>3. peer' = [peer EXCEPT ![f] = Closed(peer[f])]
  OBVIOUS
<1> QED
  BY <1>1, <1>2, <1>3 DEF PeersCarryOn

-----------------------------------------------------------------------------
(* Types.                                                                  *)

(* No session, no offer and no peer.                                       *)
LEMMA TypeInit == Init => TypeOK
<1> SUFFICES ASSUME Init PROVE TypeOK
  OBVIOUS
<1>1. cfg \in Configs /\ cfg.packets \in Nat
  BY DEF Init
<1>2. NoPeer \in Peers
  BY <1>1 DEF NoPeer, Peers
<1>3. peer \in [Offers -> Peers]
  BY <1>2 DEF Init
<1> QED
  BY <1>1, <1>3 DEF Init, StoreInit, TypeOK, Stages, OfferSteps

(* An offer, a peer's goroutine or a session writes what its variable holds.*)
LEMMA TypeStep == TypeOK /\ Served /\ [Next]_vars => TypeOK'
<1> SUFFICES ASSUME TypeOK, Served, [Next]_vars PROVE TypeOK'
  OBVIOUS
<1>1. CASE UNCHANGED vars
  BY <1>1 DEF TypeOK, Peers, vars, storeVars
<1> SUFFICES ASSUME Next PROVE TypeOK'
  BY <1>1
<1>p. past' \in [overlap : BOOLEAN, late : BOOLEAN]
  BY DEF Next, PastAfter, TypeOK
<1>t. ASSUME UNCHANGED cfg, peer' \in [Offers -> Peers] PROVE peer' \in [Offers -> Peers]'
  BY <1>t DEF Peers
<1>f. peer \in [Offers -> Peers]
  BY DEF TypeOK
<1> USE DEF GoTo, OfferSteps, storeVars
<1>2. ASSUME NEW f \in Offers, CloseExisting(f) PROVE TypeOK'
  <2>1. pcs[ID(f)] # None => pcs[ID(f)] \in Offers
    BY <1>2 DEF TypeOK, CloseExisting, Served, ID
  <2>2. peer' \in [Offers -> Peers]
    BY <1>2, <1>f, <2>1, ClosePeers DEF CloseExisting
  <2> QED
    BY <1>2, <1>p, <1>t, <2>2 DEF CloseExisting, TypeOK
<1>3. ASSUME NEW f \in Offers, MakePeer(f) PROVE TypeOK'
  <2>1. PeerCtx(f) \in {"live", "done"} /\ cfg.udp \in BOOLEAN
    BY DEF PeerCtx, TypeOK
  <2>2. peer' \in [Offers -> Peers]
    <3> DEFINE p == [peer[f] EXCEPT !.ctx = PeerCtx(f), !.conn = "new",
                                    !.socket = IF cfg.udp THEN "bound" ELSE "none"]
    <3>1. p \in Peers
      BY <1>f, <2>1 DEF Peers
    <3>2. peer' = [peer EXCEPT ![f] = p]
      BY <1>3, <1>f DEF MakePeer
    <3> QED
      BY <1>f, <3>1, <3>2
  <2> QED
    BY <1>3, <1>p, <1>t, <2>2 DEF MakePeer, TypeOK
<1>4. ASSUME NEW f \in Offers, MakePeerFails(f) PROVE TypeOK'
  <2>1. PeerCtx(f) \in {"live", "done"}
    BY DEF PeerCtx
  <2>2. peer' \in [Offers -> Peers]
    <3>1. CASE UNCHANGED peer
      BY <1>f, <3>1
    <3>2. CASE peer' = [peer EXCEPT ![f].ctx = PeerCtx(f), ![f].conn = "closed"]
      <4> DEFINE p == [peer[f] EXCEPT !.ctx = PeerCtx(f), !.conn = "closed"]
      <4>1. p \in Peers
        BY <1>f, <2>1 DEF Peers
      <4>2. peer' = [peer EXCEPT ![f] = p]
        BY <1>f, <3>2
      <4> QED
        BY <1>f, <4>1, <4>2
    <3> QED
      BY <1>4, <3>1, <3>2 DEF MakePeerFails
  <2> QED
    BY <1>4, <1>p, <1>t, <2>2 DEF MakePeerFails, TypeOK
<1>5. ASSUME NEW f \in Offers, AddSink(f) PROVE TypeOK'
  <2>1. sinks' \in [IDs -> SUBSET Offers]
    BY <1>5 DEF AddSink, TypeOK
  <2> QED
    BY <1>5, <1>p, <1>f, <1>t, <2>1 DEF AddSink, TypeOK
<1>6. ASSUME NEW f \in Offers, Store(f) PROVE TypeOK'
  <2>1. pcs' \in [IDs -> Offers \cup {None}]
    BY <1>6 DEF Store, TypeOK
  <2>2. peer' \in [Offers -> Peers]
    BY <1>6, <1>f DEF Store, Peers
  <2> QED
    BY <1>6, <1>p, <1>t, <2>1, <2>2 DEF Store, TypeOK
<1>7. ASSUME NEW f \in Offers, Describe(f) \/ RefuseOffer(f) PROVE TypeOK'
  BY <1>7, <1>p, <1>f, <1>t DEF Describe, RefuseOffer, TypeOK
<1>8. ASSUME NEW f \in Offers, DescribeFails(f) PROVE TypeOK'
  <2>1. peer' \in [Offers -> Peers]
    BY <1>8, ClosePeers DEF DescribeFails
  <2> QED
    BY <1>8, <1>p, <1>t, <2>1 DEF DescribeFails, TypeOK
<1>9. ASSUME NEW f \in Offers, Unlist(f) PROVE TypeOK'
  <2>1. pcs' \in [IDs -> Offers \cup {None}]
    BY <1>9 DEF Unlist, TypeOK
  <2>2. peer' \in [Offers -> Peers]
    BY <1>9, <1>f DEF Unlist, Peers
  <2> QED
    BY <1>9, <1>p, <1>t, <2>1, <2>2 DEF Unlist, TypeOK
<1>10. ASSUME NEW f \in Offers, PeerAction(f) PROVE TypeOK'
  <2>1. UNCHANGED Others /\ peer' \in [Offers -> Peers]
    BY <1>10, PeerActions
  <2> QED
    BY <1>p, <1>t, <2>1 DEF Others, TypeOK
<1>11. ASSUME NEW f \in Offers, NEW o \in Objs, Offer(f, o) PROVE TypeOK'
  BY <1>11, <1>p, <1>f, <1>t DEF Offer, TypeOK
<1>12. ASSUME NEW o \in Objs, NEW i \in IDs, CreateSession(o, i) PROVE TypeOK'
  BY <1>12, <1>p, <1>f, <1>t DEF CreateSession, Allocate, Stages, TypeOK
<1>13. ASSUME NEW o \in Objs, UnlinkSession(o) PROVE TypeOK'
  BY <1>13, <1>p, <1>f, <1>t DEF UnlinkSession, Unlink, Stages, TypeOK
<1>14. ASSUME NEW o \in Objs, CancelSession(o) PROVE TypeOK'
  <2>1. peer' \in [Offers -> Peers]
    BY <1>14, CancelPeers
  <2> QED
    BY <1>14, <1>p, <1>t, <2>1 DEF CancelSession, End, Stages, TypeOK
<1>15. ASSUME NEW o \in Objs, SweepSinks(o) PROVE TypeOK'
  <2>1. sinks' \in [IDs -> SUBSET Offers] /\ swept' \in SUBSET Objs
    BY <1>15 DEF SweepSinks, TypeOK
  <2> QED
    BY <1>15, <1>p, <1>f, <1>t, <2>1 DEF SweepSinks, TypeOK
<1> QED
  BY NextCases, <1>2, <1>3, <1>4, <1>5, <1>6, <1>7, <1>8, <1>9, <1>10, <1>11, <1>12, <1>13,
     <1>14, <1>15

-----------------------------------------------------------------------------
(* Offers and their peers.                                                 *)

(* A new peer has no cleanup goroutine yet.                                *)
LEMMA MakePeers ==
  ASSUME TypeOK, Served, NEW f \in Offers, MakePeer(f) \/ MakePeerFails(f)
  PROVE  PeersCarryOn
<1>1. peer[f].watch = "none" /\ peer \in [Offers -> Peers]
  BY DEF MakePeer, MakePeerFails, Served, TypeOK
<1>2. \A g \in Offers : peer'[g].watch = peer[g].watch /\ (g # f => peer'[g] = peer[g])
  <2>1. CASE MakePeer(f)
    BY <1>1, <2>1 DEF MakePeer, Peers
  <2>2. CASE MakePeerFails(f)
    <3>1. CASE UNCHANGED peer
      BY <3>1
    <3>2. CASE peer' = [peer EXCEPT ![f].ctx = PeerCtx(f), ![f].conn = "closed"]
      BY <1>1, <3>2 DEF Peers
    <3> QED
      BY <2>2, <3>1, <3>2 DEF MakePeerFails
  <2> QED
    BY <2>1, <2>2
<1> QED
  BY <1>1, <1>2 DEF PeersCarryOn

(* Storing a peer starts its cleanup goroutine, and no other.              *)
LEMMA StorePeer ==
  ASSUME TypeOK, NEW f \in Offers, Store(f)
  PROVE  \A g \in Offers : /\ peer'[g].ctx = peer[g].ctx
                           /\ peer'[g].watch = IF g = f THEN "waiting" ELSE peer[g].watch
<1>1. peer \in [Offers -> Peers]
  BY DEF TypeOK
<1> QED
  BY <1>1 DEF Store, Peers

(* A cleanup goroutine that has looked at the table goes on to hang up.    *)
LEMMA UnlistPeer ==
  ASSUME TypeOK, NEW f \in Offers, Unlist(f)
  PROVE  \A g \in Offers : /\ peer'[g].ctx = peer[g].ctx
                           /\ peer'[g].watch = IF g = f THEN "closing" ELSE peer[g].watch
<1>1. peer \in [Offers -> Peers]
  BY DEF TypeOK
<1> QED
  BY <1>1 DEF Unlist, Peers

(* The peer an offer finds is done; its cleanup goroutine has yet to run.  *)
LEMMA CloseExistingPeers ==
  ASSUME TypeOK, Served, NEW f \in Offers, CloseExisting(f)
  PROVE  /\ PeersCarryOn
         /\ ID(f) \in IDs
         /\ pcs[ID(f)] # None => peer'[pcs[ID(f)]].ctx = "done"
<1>1. ID(f) \in IDs
  BY DEF TypeOK, CloseExisting, Served, ID
<1>2. CASE pcs[ID(f)] = None
  BY <1>1, <1>2 DEF CloseExisting, PeersCarryOn
<1>3. CASE pcs[ID(f)] # None
  <2>1. pcs[ID(f)] \in Offers
    BY <1>1, <1>3 DEF TypeOK
  <2> QED
    BY <1>1, <1>3, <2>1, ClosePeers DEF CloseExisting
<1> QED
  BY <1>2, <1>3

(* All other steps leave the cleanup goroutines to their work.             *)
LEMMA OthersCarryOn ==
  ASSUME TypeOK, Served, Next
  PROVE  \/ PeersCarryOn /\ UNCHANGED pcs
         \/ \E f \in Offers : Store(f) \/ Unlist(f)
<1>1. ASSUME NEW f \in Offers, CloseExisting(f) PROVE PeersCarryOn /\ UNCHANGED pcs
  BY <1>1, CloseExistingPeers DEF CloseExisting
<1>2. ASSUME NEW f \in Offers, MakePeer(f) \/ MakePeerFails(f) PROVE PeersCarryOn /\ UNCHANGED pcs
  BY <1>2, MakePeers DEF MakePeer, MakePeerFails
<1>3. ASSUME UNCHANGED <<peer, pcs>> PROVE PeersCarryOn /\ UNCHANGED pcs
  BY <1>3 DEF PeersCarryOn
<1>4. ASSUME NEW f \in Offers, AddSink(f) \/ Describe(f) \/ RefuseOffer(f)
      PROVE  UNCHANGED <<peer, pcs>>
  BY <1>4 DEF AddSink, Describe, RefuseOffer
<1>5. ASSUME NEW f \in Offers, DescribeFails(f) PROVE PeersCarryOn /\ UNCHANGED pcs
  BY <1>5, ClosePeers DEF DescribeFails
<1>6. ASSUME NEW f \in Offers, PeerAction(f) PROVE PeersCarryOn /\ UNCHANGED pcs
  BY <1>6, PeerActions DEF Others
<1>7. ASSUME NEW f \in Offers, NEW o \in Objs, Offer(f, o) PROVE UNCHANGED <<peer, pcs>>
  BY <1>7 DEF Offer
<1>8. ASSUME NEW o \in Objs, NEW i \in IDs, CreateSession(o, i) PROVE UNCHANGED <<peer, pcs>>
  BY <1>8 DEF CreateSession
<1>9. ASSUME NEW o \in Objs, UnlinkSession(o) \/ SweepSinks(o) PROVE UNCHANGED <<peer, pcs>>
  BY <1>9 DEF UnlinkSession, SweepSinks
<1>10. ASSUME NEW o \in Objs, CancelSession(o) PROVE PeersCarryOn /\ UNCHANGED pcs
  BY <1>10, CancelPeers DEF CancelSession
<1> QED
  BY NextCases, <1>1, <1>2, <1>3, <1>4, <1>5, <1>6, <1>7, <1>8, <1>9, <1>10

(* An offer takes its steps in order, for a session that was once open.    *)
LEMMA ServedStep == TypeOK /\ Served /\ [Next]_vars => Served'
<1> SUFFICES ASSUME TypeOK, Served, [Next]_vars PROVE Served'
  OBVIOUS
<1>1. CASE UNCHANGED vars
  BY <1>1 DEF Served, vars, storeVars
<1> SUFFICES ASSUME Next PROVE Served'
  BY <1>1
<1> DEFINE Watched(f) == peer[f].watch # "none" =>
             target[f] \in Objs /\ pc[f] \in {"describe", "answered", "refused"}
           Targets(f) == /\ pc[f] = "idle" => target[f] = None
                         /\ pc[f] \notin {"idle", "refused"} => target[f] \in Objs
                         /\ target[f] \in Objs => stage[target[f]] # "absent"
           Alive == \A o \in Objs : sid[o] = None <=> stage[o] = "absent"
           Swept == \A o \in swept : stage[o] = "ended"
<1>s. Served <=> Alive /\ Swept /\ \A f \in Offers : Targets(f) /\ Watched(f)
  BY DEF Served
<1>g. Served' <=> Alive' /\ Swept' /\ \A f \in Offers : Targets(f)' /\ Watched(f)'
  BY DEF Served
<1> USE DEF storeVars
<1>a. ASSUME UNCHANGED <<target, stage, sid, swept>>,
             NEW f \in Offers, NEW step \in OfferSteps \ {"idle"}, GoTo(f, step),
             step # "refused" => target[f] \in Objs,
             PeersCarryOn, pc[f] \in {"describe", "answered", "refused"} =>
                             step \in {"describe", "answered", "refused"}
      PROVE  Served'
  <2>1. \A g \in Offers : pc'[g] = IF g = f THEN step ELSE pc[g]
    BY <1>a DEF GoTo, TypeOK
  <2>2. \A g \in Offers : Targets(g)' /\ Watched(g)'
    BY <1>a, <1>s, <2>1 DEF PeersCarryOn
  <2> QED
    BY <1>a, <1>s, <1>g, <2>2
<1>2. ASSUME NEW f \in Offers, CloseExisting(f) PROVE Served'
  BY <1>2, <1>a, <1>s, CloseExistingPeers DEF CloseExisting, OfferSteps
<1>3. ASSUME NEW f \in Offers, MakePeer(f) PROVE Served'
  BY <1>3, <1>a, <1>s, MakePeers DEF MakePeer, OfferSteps
<1>4. ASSUME NEW f \in Offers, MakePeerFails(f) PROVE Served'
  BY <1>4, <1>a, <1>s, MakePeers DEF MakePeerFails, OfferSteps
<1>5. ASSUME NEW f \in Offers, AddSink(f) PROVE Served'
  BY <1>5, <1>a, <1>s DEF AddSink, OfferSteps, PeersCarryOn
<1>6. ASSUME NEW f \in Offers, Store(f) PROVE Served'
  <2>1. \A g \in Offers : pc'[g] = IF g = f THEN "describe" ELSE pc[g]
    BY <1>6 DEF Store, GoTo, TypeOK
  <2>2. pc[f] = "store" /\ UNCHANGED <<target, stage, sid, swept>>
    BY <1>6 DEF Store
  <2>3. \A g \in Offers : Targets(g)' /\ Watched(g)'
    BY <1>6, <1>s, <2>1, <2>2, StorePeer
  <2> QED
    BY <1>s, <1>g, <2>2, <2>3
<1>7. ASSUME NEW f \in Offers, Describe(f) PROVE Served'
  BY <1>7, <1>a, <1>s DEF Describe, OfferSteps, PeersCarryOn
<1>8. ASSUME NEW f \in Offers, DescribeFails(f) PROVE Served'
  BY <1>8, <1>a, <1>s, ClosePeers DEF DescribeFails, OfferSteps
<1>9. ASSUME NEW f \in Offers, RefuseOffer(f) PROVE Served'
  BY <1>9, <1>a, <1>s DEF RefuseOffer, OfferSteps, PeersCarryOn
<1>10. ASSUME NEW f \in Offers, Unlist(f) PROVE Served'
  <2>1. UNCHANGED <<target, stage, sid, swept, pc>> /\ peer[f].watch = "waiting"
    BY <1>10 DEF Unlist
  <2>2. \A g \in Offers : Targets(g)' /\ Watched(g)'
    BY <1>10, <1>s, <2>1, UnlistPeer
  <2> QED
    BY <1>s, <1>g, <2>1, <2>2
<1>11. ASSUME NEW f \in Offers, PeerAction(f) PROVE Served'
  <2>1. UNCHANGED <<target, stage, sid, swept, pc>> /\ PeersCarryOn
    BY <1>11, PeerActions DEF Others
  <2>2. \A g \in Offers : Targets(g)' /\ Watched(g)'
    BY <1>s, <2>1 DEF PeersCarryOn
  <2> QED
    BY <1>s, <1>g, <2>1, <2>2
<1>12. ASSUME NEW f \in Offers, NEW o \in Objs, Offer(f, o) PROVE Served'
  <2>1. /\ pc[f] = "idle" /\ stage[o] = "open"
        /\ UNCHANGED <<stage, sid, peer, swept>>
        /\ \A g \in Offers : pc'[g] = IF g = f THEN "close" ELSE pc[g]
        /\ \A g \in Offers : target'[g] = IF g = f THEN o ELSE target[g]
    BY <1>12 DEF Offer, GoTo, TypeOK
  <2>2. peer[f].watch = "none"
    BY <1>s, <2>1
  <2>3. \A g \in Offers : Targets(g)' /\ Watched(g)'
    BY <1>s, <2>1, <2>2
  <2> QED
    BY <1>s, <1>g, <2>1, <2>3
<1>13. ASSUME NEW o \in Objs, NEW i \in IDs, CreateSession(o, i) PROVE Served'
  <2>1. /\ stage[o] = "absent" /\ UNCHANGED <<target, pc, peer, swept>>
        /\ \A q \in Objs : stage'[q] = IF q = o THEN "open" ELSE stage[q]
        /\ \A q \in Objs : sid'[q] = IF q = o THEN i ELSE sid[q]
    BY <1>13 DEF CreateSession, Allocate, TypeOK
  <2>2. Alive'
    BY <1>s, <2>1
  <2>3. Swept'
    BY <1>s, <2>1 DEF TypeOK
  <2>4. \A g \in Offers : Targets(g)' /\ Watched(g)'
    BY <1>s, <2>1
  <2> QED
    BY <1>g, <2>2, <2>3, <2>4
<1>14. ASSUME NEW o \in Objs, UnlinkSession(o) \/ CancelSession(o) PROVE Served'
  <2>1. /\ stage[o] \in {"open", "unlinked"} /\ UNCHANGED <<sid, target, pc, swept>>
        /\ \E s \in {"unlinked", "ended"} :
             \A q \in Objs : stage'[q] = IF q = o THEN s ELSE stage[q]
    BY <1>14 DEF UnlinkSession, CancelSession, Unlink, End, TypeOK
  <2>2. PeersCarryOn
    BY <1>14, CancelPeers DEF UnlinkSession, PeersCarryOn
  <2>3. Alive'
    BY <1>s, <2>1
  <2>4. Swept'
    BY <1>s, <2>1 DEF TypeOK
  <2>5. \A g \in Offers : Targets(g)' /\ Watched(g)'
    BY <1>s, <2>1, <2>2 DEF PeersCarryOn
  <2> QED
    BY <1>g, <2>3, <2>4, <2>5
<1>15. ASSUME NEW o \in Objs, SweepSinks(o) PROVE Served'
  <2>1. stage[o] = "ended" /\ swept' = swept \cup {o} /\ UNCHANGED <<stage, sid, target, pc, peer>>
    BY <1>15 DEF SweepSinks
  <2> QED
    BY <1>s, <1>g, <2>1
<1> QED
  BY NextCases, <1>2, <1>3, <1>4, <1>5, <1>6, <1>7, <1>8, <1>9, <1>10, <1>11, <1>12, <1>13,
     <1>14, <1>15

-----------------------------------------------------------------------------
(* The table.                                                              *)

(* The ID of an offer's session is its own for good.                       *)
LEMMA IDsStay ==
  ASSUME TypeOK, Served, Next, NEW f \in Offers, target[f] \in Objs
  PROVE  ID(f) \in IDs /\ ID(f)' = ID(f) /\ target'[f] = target[f]
<1>1. stage[target[f]] # "absent" /\ pc[f] # "idle" /\ sid[target[f]] \in IDs
  BY DEF Served, TypeOK
<1>2. target'[f] = target[f]
  <2>1. ASSUME NEW g \in Offers, NEW o \in Objs, Offer(g, o) PROVE target'[f] = target[f]
    BY <2>1, <1>1 DEF Offer, TypeOK
  <2>2. ASSUME NEW g \in Offers, PeerAction(g) PROVE UNCHANGED target
    BY <2>2, PeerActions DEF Others
  <2> QED
    BY NextCases, <2>1, <2>2
    DEF CloseExisting, MakePeer, MakePeerFails, AddSink, Store, Describe, DescribeFails,
        Unlist, RefuseOffer, CreateSession, UnlinkSession, CancelSession, SweepSinks
<1>3. sid'[target[f]] = sid[target[f]]
  <2>1. ASSUME NEW o \in Objs, NEW i \in IDs, CreateSession(o, i)
        PROVE  sid'[target[f]] = sid[target[f]]
    BY <2>1, <1>1 DEF CreateSession, Allocate, TypeOK
  <2>2. ASSUME NEW g \in Offers, PeerAction(g) PROVE UNCHANGED sid
    BY <2>2, PeerActions DEF Others, storeVars
  <2> QED
    BY NextCases, <2>1, <2>2
    DEF CloseExisting, MakePeer, MakePeerFails, AddSink, Store, Describe, DescribeFails,
        Unlist, RefuseOffer, Offer, UnlinkSession, CancelSession, SweepSinks, Unlink, End,
        storeVars
<1> QED
  BY <1>1, <1>2, <1>3 DEF ID

(* An entry and its cleanup goroutine come and go together.                *)
LEMMA WatchedStep ==
  TypeOK /\ Served /\ EntriesAreWatched /\ [Next]_vars => EntriesAreWatched'
<1> SUFFICES ASSUME TypeOK, Served, EntriesAreWatched, [Next]_vars PROVE EntriesAreWatched'
  OBVIOUS
<1>1. CASE UNCHANGED vars
  BY <1>1 DEF EntriesAreWatched, ID, vars, storeVars
<1> SUFFICES ASSUME Next PROVE EntriesAreWatched'
  BY <1>1
<1>t. \A i \in IDs : pcs[i] # None =>
        /\ pcs[i] \in Offers /\ target[pcs[i]] \in Objs /\ ID(pcs[i]) = i
        /\ peer[pcs[i]].watch = "waiting"
  BY DEF TypeOK, EntriesAreWatched, Served
<1>2. \A f \in Offers : target[f] \in Objs => ID(f)' = ID(f)
  BY IDsStay
<1>w. ASSUME \A i \in IDs : pcs'[i] # None =>
               \E f \in Offers : /\ pcs'[i] = f /\ ID(f) = i /\ target[f] \in Objs
                                 /\ peer'[f].watch = "waiting"
      PROVE  EntriesAreWatched'
  BY <1>2, <1>w DEF EntriesAreWatched, ID
<1>3. CASE PeersCarryOn /\ UNCHANGED pcs
  BY <1>w, <1>3, <1>t DEF PeersCarryOn
<1>4. ASSUME NEW f \in Offers, Store(f) PROVE EntriesAreWatched'
  <2>1. target[f] \in Objs
    BY <1>4 DEF Store, Served
  <2>2. \A i \in IDs : pcs'[i] = IF i = ID(f) THEN f ELSE pcs[i]
    BY <1>4 DEF Store, TypeOK
  <2> QED
    BY <1>4, <1>w, <1>t, <2>1, <2>2, StorePeer
<1>5. ASSUME NEW f \in Offers, Unlist(f) PROVE EntriesAreWatched'
  <2>1. \A i \in IDs : pcs[i] = f => i = ID(f)
    BY <1>t, <1>5
  <2>2. \A i \in IDs : pcs'[i] = IF pcs[i] = f THEN None ELSE pcs[i]
    BY <1>5, <2>1 DEF Unlist, StillListed, TypeOK
  <2> QED
    BY <1>5, <1>w, <1>t, <2>2, UnlistPeer
<1> QED
  BY <1>3, <1>4, <1>5, OthersCarryOn

-----------------------------------------------------------------------------
(* Sinks, and what the record of the past says.                            *)

(* An offer that was to be in the middle of its work for an ended session, *)
(* or beside another for its ID, would have been recorded.                 *)
LEMMA PastStep == TypeOK /\ PastKnows /\ [Next]_vars => PastKnows'
<1> SUFFICES ASSUME TypeOK, PastKnows, [Next]_vars PROVE PastKnows'
  OBVIOUS
<1>1. CASE UNCHANGED vars
  BY <1>1 DEF PastKnows, Midway, ID, vars, storeVars
<1>2. CASE Next
  <2>1. PastAfter
    BY <1>2 DEF Next
  <2>2. ~past'.overlap =>
          \A f, g \in Offers : f # g /\ Midway(f)' /\ Midway(g)' => ID(f)' # ID(g)'
    BY <2>1 DEF PastAfter
  <2>3. ~past'.late => \A f \in Offers : Midway(f)' => stage'[target'[f]] # "ended"
    BY <2>1 DEF PastAfter
  <2> QED
    BY <2>2, <2>3 DEF PastKnows, Midway, ID
<1> QED
  BY <1>1, <1>2

(* A sink is added for a session that has yet to be swept, and goes with it*)
(* at the latest.                                                          *)
LEMMA SinksStep ==
  TypeOK /\ Served /\ PastKnows /\ SinksHaveSession /\ [Next]_vars => SinksHaveSession'
<1> SUFFICES ASSUME TypeOK, Served, PastKnows, SinksHaveSession, [Next]_vars
             PROVE  SinksHaveSession'
  OBVIOUS
<1>1. CASE UNCHANGED vars
  BY <1>1 DEF SinksHaveSession, vars, storeVars
<1> SUFFICES ASSUME Next, ~past'.late
             PROVE  \A i \in IDs : \A f \in sinks'[i] : \E o \in Objs \ swept' : sid'[o] = i
  BY <1>1 DEF SinksHaveSession
<1> DEFINE Good == \A i \in IDs : \A f \in sinks'[i] : \E o \in Objs \ swept' : sid'[o] = i
<1>l. ~past.late
  BY DEF Next, PastAfter, TypeOK
<1>h. \A i \in IDs : \A f \in sinks[i] : \E o \in Objs \ swept : sid[o] = i
  BY <1>l DEF SinksHaveSession
<1>2. CASE UNCHANGED <<sinks, swept, sid>>
  BY <1>h, <1>2
<1>3. ASSUME NEW f \in Offers, AddSink(f) PROVE Good
  <2>1. target[f] \in Objs /\ stage[target[f]] # "ended" /\ ID(f) = sid[target[f]]
    BY <1>3, <1>l DEF AddSink, Served, PastKnows, Midway, ID
  <2>2. target[f] \notin swept
    BY <2>1 DEF Served
  <2>3. UNCHANGED <<swept, sid>> /\ \A i \in IDs : i # ID(f) => sinks'[i] = sinks[i]
    BY <1>3 DEF AddSink, TypeOK, storeVars
  <2> QED
    BY <1>h, <2>1, <2>2, <2>3
<1>4. ASSUME NEW o \in Objs, NEW i \in IDs, CreateSession(o, i) PROVE Good
  <2>1. UNCHANGED <<sinks, swept>> /\ sid[o] = None
    BY <1>4 DEF CreateSession, Allocate, Served
  <2>2. \A q \in Objs : q # o => sid'[q] = sid[q]
    BY <1>4 DEF CreateSession, Allocate, TypeOK
  <2>3. ASSUME NEW j \in IDs, NEW f \in sinks[j] PROVE \E q \in Objs \ swept : sid'[q] = j
    <3>1. PICK q \in Objs \ swept : sid[q] = j
      BY <1>h, <2>3
    <3> QED
      BY <2>1, <2>2, <3>1
  <2> QED
    BY <2>1, <2>3
<1>5. ASSUME NEW o \in Objs, SweepSinks(o) PROVE Good
  <2>1. swept' = swept \cup {o} /\ UNCHANGED sid
    BY <1>5 DEF SweepSinks, storeVars
  <2>2. \A j \in IDs : \A f \in sinks'[j] : j # sid[o] /\ f \in sinks[j]
    BY <1>5 DEF SweepSinks, TypeOK
  <2> QED
    BY <1>h, <2>1, <2>2
<1>6. ASSUME NEW f \in Offers, PeerAction(f) PROVE UNCHANGED <<sinks, swept, sid>>
  BY <1>6, PeerActions DEF Others, storeVars
<1>7. ASSUME NEW f \in Offers,
             \/ CloseExisting(f) \/ MakePeer(f) \/ MakePeerFails(f) \/ Store(f) \/ Describe(f)
             \/ DescribeFails(f) \/ Unlist(f) \/ RefuseOffer(f) \/ \E o \in Objs : Offer(f, o)
      PROVE  UNCHANGED <<sinks, swept, sid>>
  BY <1>7
  DEF CloseExisting, MakePeer, MakePeerFails, Store, Describe, DescribeFails, Unlist,
      RefuseOffer, Offer, storeVars
<1>8. ASSUME NEW o \in Objs, UnlinkSession(o) \/ CancelSession(o)
      PROVE  UNCHANGED <<sinks, swept, sid>>
  BY <1>8 DEF UnlinkSession, CancelSession, Unlink, End
<1> QED
  BY NextCases, <1>2, <1>3, <1>4, <1>5, <1>6, <1>7, <1>8

-----------------------------------------------------------------------------
(* The peer that feeds a session.                                          *)

(* An offer gets to its own peer by closing the one it finds.              *)
LEMMA MakingSteps ==
  ASSUME TypeOK, Next, NEW g \in Offers, pc'[g] \in {"make", "sink", "store"}
  PROVE  pc[g] \in {"make", "sink", "store"} \/ CloseExisting(g)
<1>1. ASSUME NEW f \in Offers,
             \/ CloseExisting(f) \/ MakePeer(f) \/ MakePeerFails(f) \/ AddSink(f) \/ Store(f)
             \/ Describe(f) \/ DescribeFails(f) \/ RefuseOffer(f) \/ \E o \in Objs : Offer(f, o)
      PROVE  pc[g] \in {"make", "sink", "store"} \/ CloseExisting(g)
  <2>1. CASE f = g
    BY <1>1, <2>1
    DEF CloseExisting, MakePeer, MakePeerFails, AddSink, Store, Describe, DescribeFails,
        RefuseOffer, Offer, GoTo, TypeOK
  <2>2. CASE f # g
    <3>1. \E step \in OfferSteps : pc' = [pc EXCEPT ![f] = step]
      BY <1>1
      DEF CloseExisting, MakePeer, MakePeerFails, AddSink, Store, Describe, DescribeFails,
          RefuseOffer, Offer, GoTo, OfferSteps
    <3>2. pc'[g] = pc[g]
      BY <2>2, <3>1 DEF TypeOK
    <3> QED
      BY <3>2
  <2> QED
    BY <2>1, <2>2
<1>2. ASSUME NEW f \in Offers, Unlist(f) PROVE UNCHANGED pc
  BY <1>2 DEF Unlist
<1>3. ASSUME NEW f \in Offers, PeerAction(f) PROVE UNCHANGED pc
  BY <1>3, PeerActions DEF Others
<1>4. ASSUME NEW o \in Objs,
             \/ \E i \in IDs : CreateSession(o, i)
             \/ UnlinkSession(o) \/ CancelSession(o) \/ SweepSinks(o)
      PROVE  UNCHANGED pc
  BY <1>4 DEF CreateSession, UnlinkSession, CancelSession, SweepSinks
<1> QED
  BY NextCases, <1>1, <1>2, <1>3, <1>4

(* The peer in the table is the live one, and there is no other.           *)
LEMMA ListedStep ==
  TypeOK /\ Served /\ PastKnows /\ LivePeerIsListed /\ AlreadyClosed /\ [Next]_vars
    => LivePeerIsListed' /\ AlreadyClosed'
<1> SUFFICES ASSUME TypeOK, Served, PastKnows, LivePeerIsListed, AlreadyClosed, [Next]_vars
             PROVE  LivePeerIsListed' /\ AlreadyClosed'
  OBVIOUS
<1>1. CASE UNCHANGED vars
  BY <1>1 DEF LivePeerIsListed, AlreadyClosed, LivePeer, ID, vars, storeVars
<1> SUFFICES ASSUME Next, ~past'.overlap
             PROVE  /\ \A f \in Offers : LivePeer(f)' => pcs'[ID(f)'] = f
                    /\ \A f, g \in Offers :
                         f # g /\ pc'[g] \in {"make", "sink", "store"} /\ LivePeer(f)'
                           => ID(f)' # ID(g)'
  BY <1>1 DEF LivePeerIsListed, AlreadyClosed, LivePeer, ID
<1>o. ~past.overlap
  BY DEF Next, PastAfter, TypeOK
<1>s. \A f \in Offers : LivePeer(f) => pcs[ID(f)] = f /\ target[f] \in Objs
  BY <1>o DEF LivePeerIsListed, LivePeer, Served
<1>c. \A f, g \in Offers :
        f # g /\ pc[g] \in {"make", "sink", "store"} /\ LivePeer(f) => ID(f) # ID(g)
  BY <1>o DEF AlreadyClosed
<1>i. \A f \in Offers : target[f] \in Objs => ID(f) \in IDs /\ ID(f)' = ID(f)
  BY IDsStay
<1>l. \A f \in Offers : LivePeer(f)' => LivePeer(f) \/ Store(f)
  <2>1. CASE PeersCarryOn
    BY <2>1 DEF PeersCarryOn, LivePeer
  <2>2. ASSUME NEW g \in Offers, Store(g) PROVE \A f \in Offers : LivePeer(f)' => LivePeer(f) \/ f = g
    BY <2>2, StorePeer DEF LivePeer
  <2>3. ASSUME NEW g \in Offers, Unlist(g) PROVE \A f \in Offers : LivePeer(f)' => LivePeer(f)
    BY <2>3, UnlistPeer DEF LivePeer
  <2> QED
    BY <2>1, <2>2, <2>3, OthersCarryOn
<1>2. ASSUME NEW f \in Offers, LivePeer(f)' PROVE pcs'[ID(f)'] = f
  <2>1. CASE UNCHANGED pcs /\ LivePeer(f)
    BY <1>s, <1>i, <2>1
  <2>2. CASE Store(f)
    <3>1. target[f] \in Objs
      BY <2>2 DEF Store, Served
    <3> QED
      BY <1>i, <2>2, <3>1 DEF Store, TypeOK
  <2>3. ASSUME NEW g \in Offers, g # f, Store(g), LivePeer(f) PROVE pcs'[ID(f)'] = f
    <3>1. ID(f) # ID(g) /\ target[f] \in Objs
      BY <1>c, <1>s, <2>3 DEF Store
    <3> QED
      BY <1>i, <1>s, <2>3, <3>1 DEF Store, TypeOK
  <2>4. ASSUME NEW g \in Offers, Unlist(g) PROVE pcs'[ID(f)'] = f
    <3>1. f # g /\ LivePeer(f)
      BY <1>2, <2>4, UnlistPeer DEF LivePeer
    <3>2. pcs[ID(f)] = f /\ ID(f) \in IDs /\ ID(f)' = ID(f)
      BY <1>s, <1>i, <3>1
    <3>3. pcs'[ID(f)] = pcs[ID(f)]
      BY <2>4, <3>1, <3>2 DEF Unlist, StillListed, TypeOK
    <3> QED
      BY <3>2, <3>3
  <2>5. ASSUME NEW g \in Offers, Store(g), f # g PROVE LivePeer(f)
    BY <1>2, <2>5, StorePeer DEF LivePeer
  <2>6. CASE PeersCarryOn /\ UNCHANGED pcs
    <3>1. LivePeer(f)
      BY <1>2, <2>6 DEF PeersCarryOn, LivePeer
    <3> QED
      BY <2>1, <2>6, <3>1
  <2> QED
    BY <2>2, <2>3, <2>4, <2>5, <2>6, OthersCarryOn
<1>3. ASSUME NEW f \in Offers, NEW g \in Offers, f # g,
             pc'[g] \in {"make", "sink", "store"}, LivePeer(f)'
      PROVE  ID(f)' # ID(g)'
  <2>1. pc[g] \in {"make", "sink", "store"} \/ CloseExisting(g)
    BY <1>3, MakingSteps
  <2>2. target[g] \in Objs
    BY <2>1 DEF Served, CloseExisting
  <2>3. CASE LivePeer(f) /\ pc[g] \in {"make", "sink", "store"}
    BY <1>3, <1>s, <1>c, <1>i, <2>2, <2>3
  <2>4. CASE LivePeer(f) /\ CloseExisting(g)
    <3>1. ID(f) = ID(g) => peer'[f].ctx = "done"
      <4> SUFFICES ASSUME ID(f) = ID(g) PROVE peer'[f].ctx = "done"
        OBVIOUS
      <4>1. pcs[ID(g)] = f /\ f # None
        BY <1>s, <2>4
      <4> QED
        BY <4>1, <2>4, CloseExistingPeers
    <3> QED
      BY <1>3, <1>s, <1>i, <2>2, <2>4, <3>1 DEF LivePeer
  <2>5. CASE Store(f)
    <3>1. target[f] \in Objs /\ Midway(f)
      BY <2>5 DEF Store, Served, Midway
    <3>2. Midway(g)
      BY <2>1 DEF Midway, CloseExisting
    <3>3. ID(f) # ID(g)
      BY <1>3, <1>o, <3>1, <3>2 DEF PastKnows
    <3> QED
      BY <1>i, <2>2, <3>1, <3>3
  <2> QED
    BY <1>3, <1>l, <2>1, <2>3, <2>4, <2>5
<1> QED
  BY <1>2, <1>3

-----------------------------------------------------------------------------
(* The theorems.                                                           *)

(* No session, no offer and no peer.                                       *)
LEMMA IInvInit == Init => IInv
<1> SUFFICES ASSUME Init PROVE IInv
  OBVIOUS
<1>1. TypeOK
  BY TypeInit
<1>2. \A f \in Offers : peer[f].watch = "none" /\ target[f] = None /\ pc[f] = "idle"
  BY DEF Init, NoPeer
<1>3. Served
  BY <1>2 DEF Init, StoreInit, Served
<1>4. PastKnows
  BY <1>2 DEF PastKnows, Midway
<1>5. EntriesAreWatched /\ SinksHaveSession
  BY DEF Init, EntriesAreWatched, SinksHaveSession
<1>6. LivePeerIsListed /\ AlreadyClosed
  BY <1>2 DEF LivePeerIsListed, AlreadyClosed, LivePeer
<1> QED
  BY <1>1, <1>3, <1>4, <1>5, <1>6 DEF IInv

(* The inductive invariant: what every offer has by its step, and what the *)
(* table owes to the cleanup goroutines.                                   *)
THEOREM WebRTCIInv == Spec => []IInv
<1>1. IInv /\ [Next]_vars => IInv'
  BY TypeStep, ServedStep, PastStep, WatchedStep, SinksStep, ListedStep DEF IInv
<1> QED
  BY IInvInit, <1>1, PTL DEF Spec

(* Whatever offers overlap and sessions close, no entry of the peer table  *)
(* is left without the goroutine that removes it and, where no session is  *)
(* cancelled in the middle of an offer, no sink without a session to sweep *)
(* it.                                                                     *)
THEOREM TableIsWatched == Spec => []WebRTCInv
<1>1. IInv => WebRTCInv
  BY DEF IInv, WebRTCInv
<1> QED
  BY <1>1, WebRTCIInv, PTL

(* Where offers for one ID do not overlap, the live peer of an ID is the   *)
(* one in the table, so the next offer closes it and no session is fed by  *)
(* two peers.                                                              *)
THEOREM OnePeerFeeds == Spec => []LivePeerIsListed
<1>1. IInv => LivePeerIsListed
  BY DEF IInv
<1> QED
  BY <1>1, WebRTCIInv, PTL

-----------------------------------------------------------------------------
(* The worker pool.                                                        *)

(* What a session has in the pool by what the coordinator has done with it. *)
Users ==
  \A o \in Objs :
    /\ sid[o] = None <=> stage[o] = "absent"
    /\ phase[o] # "idle" => stage[o] # "absent"
    /\ phase[o] \in {"registered", "pumping"} => pipes[sid[o]] = o
    /\ phase[o] \in {"idle", "registered"} => reader[o] = "none"
    /\ phase[o] \in {"flushing", "done"} => reader[o] = "none" \/ Done(o)
    /\ phase[o] = "flushing" => flushee[o] = o

(* An entry leads to a session with that ID that is not yet unregistered.   *)
Entries ==
  \A i \in IDs : pipes[i] # None =>
    sid[pipes[i]] = i /\ phase[pipes[i]] \in {"registered", "pumping"}

(* Before its pumps run a session has no sound anywhere, and no job.        *)
Fresh ==
  /\ \A o \in Objs : reader[o] = "none" => decoded[o] = <<>> /\ chunker[o] = <<>>
  /\ \A k \in DOMAIN queue : reader[queue[k].from] # "none"

(* A worker serves the session of its job, and one that has cut a chunk     *)
(* holds the lock of that session's pipeline, whose chunker is empty.       *)
Serving ==
  /\ \A w \in Workers :
       /\ at[w] # "idle" =>
            job[w] \in Packets /\ served[w] = job[w].from /\ reader[served[w]] # "none"
       /\ at[w] # "emit" => pending[w] = <<>>
       /\ at[w] = "emit" =>
            /\ mutex[served[w]] = w
            /\ Len(pending[w]) = ChunkPackets
            /\ chunker[served[w]] = <<>>
  /\ \A o \in Objs : mutex[o] # None => at[mutex[o]] = "emit" /\ served[mutex[o]] = o

From(o, s) == \A k \in DOMAIN s : s[k].from = o

(* Every packet is where its session is served.                            *)
Own ==
  /\ \A o \in Objs :
       /\ From(o, decoded[o])
       /\ From(o, chunker[o])
       /\ \A k \in DOMAIN Conveyed(o) : From(o, Conveyed(o)[k].pcm)
  /\ \A w \in Workers : From(served[w], pending[w])

(* Once the last chunk is out, nothing of the session goes on.             *)
Ended ==
  \A o \in Objs : \A k \in DOMAIN Conveyed(o) :
    Conveyed(o)[k].last =>
      /\ k = Len(Conveyed(o))
      /\ Done(o) /\ phase[o] = "done" /\ mutex[o] = None

(* Chunks cs and what remains of them, cut from the packets d.             *)
Intact(d, cs, rest) ==
  /\ \A k \in DOMAIN cs :
       cs[k].pcm = SubSeq(d, (k - 1) * ChunkPackets + 1, k * ChunkPackets)
  /\ rest = SubSeq(d, Len(cs) * ChunkPackets + 1, Len(d))
  /\ Len(cs) * ChunkPackets <= Len(d)

Held(o) == IF mutex[o] = None THEN chunker[o] ELSE pending[mutex[o]]

Whole == \A o \in Objs : ~Done(o) => Intact(decoded[o], Conveyed(o), Held(o))

PoolIInv ==
  /\ PoolTypeOK /\ QuietReuse
  /\ Users /\ Entries /\ Fresh /\ Serving /\ Own /\ Ended /\ Whole

-----------------------------------------------------------------------------
HIDE WebRTCAssumption
USE PoolAssumption

LEMMA PoolTypeInit == PoolInit => PoolTypeOK
<1> SUFFICES ASSUME PoolInit PROVE PoolTypeOK
    OBVIOUS
<1>1. <<>> \in Seq(Packets) /\ <<>> \in Seq(Chunks) /\ Len(<<>>) = 0
      OBVIOUS
<1> QED BY <1>1 DEF PoolInit, StoreInit, PoolTypeOK, Stages

LEMMA PoolIInvInit == PoolInit => PoolIInv
<1> SUFFICES ASSUME PoolInit PROVE PoolIInv
    OBVIOUS
<1>1. PoolTypeOK BY PoolTypeInit
<1>2. QuietReuse /\ Users BY DEF PoolInit, StoreInit, QuietReuse, Users
<1>3. Entries BY DEF PoolInit, Entries
<1>4. Fresh /\ Serving BY DEF PoolInit, Fresh, Serving
<1>5. \A o \in Objs : Conveyed(o) = <<>> BY DEF PoolInit, Conveyed
<1>6. Own /\ Ended BY <1>5 DEF PoolInit, Own, Ended, From
<1>7. Whole
  <2> SUFFICES ASSUME NEW o \in Objs PROVE Intact(decoded[o], Conveyed(o), Held(o))
      BY DEF Whole
  <2>1. decoded[o] = <<>> /\ Held(o) = <<>> BY DEF PoolInit, Held
  <2>2. Len(<<>>) * ChunkPackets = 0 /\ SubSeq(<<>>, 0 + 1, Len(<<>>)) = <<>>
        OBVIOUS
  <2> QED BY <1>5, <2>1, <2>2 DEF Intact
<1> QED BY <1>1, <1>2, <1>3, <1>4, <1>6, <1>7 DEF PoolIInv

(* What sessions do not take back.                                         *)
LEMMA SessionsGoOn ==
  ASSUME PoolTypeOK, Users, [PoolNext]_poolVars, NEW o \in Objs
  PROVE  /\ Done(o) => Done(o)'
         /\ stage[o] # "absent" => stage'[o] # "absent" /\ sid'[o] = sid[o]
         /\ sid'[o] = None <=> stage'[o] = "absent"
<1>1. CASE StoreStep
  <2>1. PICK p \in Objs : (\E i \in IDs : Allocate(p, i)) \/ Unlink(p) \/ End(p)
        BY <1>1 DEF StoreStep, StoreNext
  <2>2. /\ stage \in [Objs -> Stages] /\ sid \in [Objs -> IDs \cup {None}]
        /\ sid[o] = None <=> stage[o] = "absent"
        BY DEF PoolTypeOK, Users
  <2>3. CASE \E i \in IDs : Allocate(p, i)
    <3> PICK i \in IDs : Allocate(p, i)
        BY <2>3
    <3>1. stage[p] = "absent" /\ stage' = [stage EXCEPT ![p] = "open"]
          /\ sid' = [sid EXCEPT ![p] = i] /\ i # None
          BY DEF Allocate
    <3>2. CASE o = p
          BY <2>2, <3>1, <3>2 DEF Done
    <3>3. CASE o # p
          BY <2>2, <3>1, <3>3 DEF Done
    <3> QED BY <3>2, <3>3
  <2>4. CASE Unlink(p) \/ End(p)
    <3>1. /\ stage[p] # "absent" /\ sid' = sid
          /\ \/ stage' = [stage EXCEPT ![p] = "unlinked"]
             \/ stage' = [stage EXCEPT ![p] = "ended"]
          BY <2>4 DEF Unlink, End
    <3> QED BY <2>2, <2>4, <3>1 DEF Done, Unlink, End
  <2> QED BY <2>1, <2>3, <2>4
<1>2. CASE UNCHANGED storeVars
      BY <1>2 DEF Users, Done, storeVars
<1> QED BY <1>1, <1>2 DEF PoolNext, poolVars, Register, StartPumps, Unregister, Flush, Submit,
           ReaderTakes, ReaderStops, WorkerStep, TakeJob, ProcessNothing, Process,
           Emit, EmitCancelled, Unlock

LEMMA PoolTypeStep == PoolIInv /\ [PoolNext]_poolVars => PoolTypeOK'
<1> SUFFICES ASSUME PoolIInv, [PoolNext]_poolVars PROVE PoolTypeOK'
    OBVIOUS
<1>t. PoolTypeOK /\ Users /\ Serving
      BY DEF PoolIInv
<1>a. stage \in [Objs -> Stages] /\ sid \in [Objs -> IDs \cup {None}]
      BY <1>t DEF PoolTypeOK
<1>b. /\ pipes \in [IDs -> Objs \cup {None}]
      /\ phase \in [Objs -> {"idle", "registered", "pumping", "flushing", "done"}]
      /\ flushee \in [Objs -> Objs \cup {None}]
      BY <1>t DEF PoolTypeOK
<1>c. /\ at \in [Workers -> {"idle", "found", "emit"}]
      /\ job \in [Workers -> Packets \cup {None}]
      /\ served \in [Workers -> Objs \cup {None}]
      /\ mutex \in [Objs -> Workers \cup {None}]
      BY <1>t DEF PoolTypeOK
<1>d. pending \in [Workers -> Seq(Packets)] /\ <<>> \in Seq(Packets)
      BY <1>t DEF PoolTypeOK
<1>e. audio \in [Objs -> Seq(Chunks)] /\ \A o \in Objs : Len(audio[o]) <= AudioQueueSize
      BY <1>t DEF PoolTypeOK
<1>f. queue \in Seq(Packets) /\ Len(queue) <= QueueSize /\ QueueSize \in Nat
      BY <1>t DEF PoolTypeOK
<1>0. \A o \in Objs : phase[o] # "idle" => sid[o] \in IDs
      BY <1>t DEF Users, PoolTypeOK
<1>1. CASE StoreStep
  <2>1. stage' \in [Objs -> Stages] /\ sid' \in [Objs -> IDs \cup {None}]
    <3>1. PICK p \in Objs : (\E i \in IDs : Allocate(p, i)) \/ Unlink(p) \/ End(p)
          BY <1>1 DEF StoreStep, StoreNext
    <3>2. CASE \E i \in IDs : Allocate(p, i)
          BY <3>2, <1>a DEF Allocate, Stages
    <3>3. CASE Unlink(p) \/ End(p)
          BY <3>3, <1>a DEF Unlink, End, Stages
    <3> QED BY <3>1, <3>2, <3>3
  <2> QED BY <2>1, <1>1, <1>t DEF StoreStep, PoolTypeOK, sharedVars, workerVars, pipeVars,
           streamVars, callerVars
<1>2. CASE \E o \in Objs : Register(o) \/ StartPumps(o) \/ Unregister(o) \/ ReaderStops(o)
  <2> PICK o \in Objs : Register(o) \/ StartPumps(o) \/ Unregister(o) \/ ReaderStops(o)
      BY <1>2
  <2>1. phase' \in [Objs -> {"idle", "registered", "pumping", "flushing", "done"}]
    <3>1. CASE Register(o) BY <3>1, <1>b DEF Register
    <3>2. CASE StartPumps(o) BY <3>2, <1>b DEF StartPumps
    <3>3. CASE Unregister(o) BY <3>3, <1>b DEF Unregister
    <3>4. CASE ReaderStops(o) BY <3>4, <1>b DEF ReaderStops, callerVars
    <3> QED BY <3>1, <3>2, <3>3, <3>4
  <2>2. pipes' \in [IDs -> Objs \cup {None}] /\ flushee' \in [Objs -> Objs \cup {None}]
    <3>1. CASE Register(o)
      <4>1. sid[o] \in IDs BY <3>1, <1>a, <1>t DEF Register, Users
      <4> QED BY <3>1, <4>1, <1>b DEF Register
    <3>2. CASE StartPumps(o) BY <3>2, <1>b DEF StartPumps, sharedVars
    <3>3. CASE Unregister(o)
      <4>1. sid[o] \in IDs BY <3>3, <1>0 DEF Unregister
      <4> QED BY <3>3, <4>1, <1>b DEF Unregister
    <3>4. CASE ReaderStops(o) BY <3>4, <1>b DEF ReaderStops, sharedVars, callerVars
    <3> QED BY <3>1, <3>2, <3>3, <3>4
  <2>3. reader' \in [Objs -> {"none", "running", "stopped"}]
    <3>1. reader \in [Objs -> {"none", "running", "stopped"}]
          BY <1>t DEF PoolTypeOK
    <3>2. \/ reader' = reader
          \/ reader' = [reader EXCEPT ![o] = "running"]
          \/ reader' = [reader EXCEPT ![o] = "stopped"]
          BY DEF Register, StartPumps, Unregister, ReaderStops, streamVars
    <3> QED BY <3>1, <3>2
  <2>4. UNCHANGED <<storeVars, queue, workerVars, pipeVars, audio, heard, submitted>>
        BY DEF Register, StartPumps, Unregister, ReaderStops, sharedVars, streamVars,
           callerVars
  <2> QED BY <2>1, <2>2, <2>3, <2>4, <1>t DEF PoolTypeOK, storeVars, workerVars, pipeVars
<1>3. CASE \E o \in Objs : Flush(o)
  <2> PICK o \in Objs : Flush(o)
      BY <1>3
  <2>1. flushee[o] = o
        BY <1>t DEF Users, Flush
  <2>2. chunker' \in [Objs -> Seq(Packets)] /\ \A q \in Objs : Len(chunker'[q]) < ChunkPackets
    <3>1. <<>> \in Seq(Packets) /\ Len(<<>>) = 0
          OBVIOUS
    <3>2. chunker \in [Objs -> Seq(Packets)] /\ \A q \in Objs : Len(chunker[q]) < ChunkPackets
          BY <1>t DEF PoolTypeOK
    <3>3. chunker' = [chunker EXCEPT ![o] = <<>>]
          BY <2>1 DEF Flush
    <3>4. \A q \in Objs : chunker'[q] = IF q = o THEN <<>> ELSE chunker[q]
          BY <3>2, <3>3
    <3>5. ChunkPackets > 0
          OBVIOUS
    <3> QED BY <3>1, <3>2, <3>3, <3>4, <3>5
  <2>3. [pcm |-> chunker[o], last |-> TRUE] \in Chunks
        BY <1>t DEF PoolTypeOK, Chunks
  <2>4. audio' \in [Objs -> Seq(Chunks)] /\ \A q \in Objs : Len(audio'[q]) <= AudioQueueSize
    <3>1. \A q \in Objs : audio[q] \in Seq(Chunks) /\ Len(audio[q]) \in Nat
          BY <1>t DEF PoolTypeOK
    <3>2. Append(audio[o], [pcm |-> chunker[o], last |-> TRUE]) \in Seq(Chunks)
          /\ Len(Append(audio[o], [pcm |-> chunker[o], last |-> TRUE])) = Len(audio[o]) + 1
          BY <2>3, <3>1
    <3> DEFINE more == Append(audio[o], [pcm |-> chunker[o], last |-> TRUE])
    <3>3. \/ audio' = audio
          \/ audio' = [audio EXCEPT ![o] = more] /\ Len(audio[o]) < AudioQueueSize
          BY <2>1 DEF Flush
    <3>4. more \in Seq(Chunks) /\ Len(more) = Len(audio[o]) + 1
          BY <3>2
    <3> HIDE DEF more
    <3>5. AudioQueueSize \in Nat
          OBVIOUS
    <3>6. CASE audio' = audio
          BY <3>6, <1>e
    <3>7. CASE audio' = [audio EXCEPT ![o] = more] /\ Len(audio[o]) < AudioQueueSize
      <4>1. audio' \in [Objs -> Seq(Chunks)]
            BY <3>7, <3>4, <1>e
      <4>2. \A q \in Objs : audio'[q] = IF q = o THEN more ELSE audio[q]
            BY <3>7, <1>e
      <4>3. Len(more) <= AudioQueueSize
            BY <3>1, <3>4, <3>5, <3>7
      <4> QED BY <4>1, <4>2, <4>3, <1>e
    <3> QED BY <3>3, <3>6, <3>7
  <2>5. phase' \in [Objs -> {"idle", "registered", "pumping", "flushing", "done"}]
        BY <1>t DEF PoolTypeOK, Flush
  <2> QED BY <2>2, <2>4, <2>5, <1>t DEF Flush, PoolTypeOK, storeVars, sharedVars, workerVars,
           streamVars
<1>4. CASE \E o \in Objs : Submit(o)
  <2> PICK o \in Objs : Submit(o)
      BY <1>4
  <2>1. submitted' \in [Objs -> Nat]
        BY <1>t DEF PoolTypeOK, Submit
  <2>2. [from |-> o, n |-> submitted[o] + 1] \in Packets
        BY <1>t DEF PoolTypeOK, Packets
  <2>3. queue' \in Seq(Packets) /\ Len(queue') <= QueueSize
    <3>1. CASE UNCHANGED queue
          BY <3>1, <1>f
    <3>2. CASE Len(queue) < QueueSize /\ queue' = Append(queue, [from |-> o, n |-> submitted[o] + 1])
          BY <3>2, <2>2, <1>f
    <3> QED BY <3>1, <3>2 DEF Submit
  <2> QED BY <2>1, <2>3, <1>t DEF Submit, PoolTypeOK, storeVars, workerVars, pipeVars,
           streamVars
<1>5. CASE \E o \in Objs : ReaderTakes(o)
  <2> PICK o \in Objs : ReaderTakes(o)
      BY <1>5
  <2>1. audio[o] \in Seq(Chunks) /\ heard[o] \in Seq(Chunks) /\ audio[o] # <<>>
        BY <1>t DEF PoolTypeOK, ReaderTakes
  <2>2. Tail(audio[o]) \in Seq(Chunks) /\ Len(Tail(audio[o])) <= Len(audio[o])
        /\ Append(heard[o], Head(audio[o])) \in Seq(Chunks)
        BY <2>1
  <2>3. audio' \in [Objs -> Seq(Chunks)] /\ \A q \in Objs : Len(audio'[q]) <= AudioQueueSize
    <3>1. Len(Tail(audio[o])) \in Nat /\ Len(audio[o]) \in Nat /\ Len(audio[o]) <= AudioQueueSize
          BY <2>1, <2>2, <1>t DEF PoolTypeOK
    <3>2. audio' = [audio EXCEPT ![o] = Tail(audio[o])] /\ Len(Tail(audio[o])) <= AudioQueueSize
          BY <2>2, <3>1, <1>e DEF ReaderTakes
    <3> QED BY <2>2, <3>2, <1>e
  <2>4. heard' \in [Objs -> Seq(Chunks)]
        BY <2>2, <1>t DEF PoolTypeOK, ReaderTakes
  <2> QED BY <2>3, <2>4, <1>t DEF ReaderTakes, PoolTypeOK, storeVars, sharedVars, workerVars,
           pipeVars, callerVars
<1>6. CASE \E w \in Workers : TakeJob(w)
  <2> PICK w \in Workers : TakeJob(w)
      BY <1>6
  <2>1. queue' \in Seq(Packets) /\ Len(queue') <= QueueSize /\ Head(queue) \in Packets
        BY <1>t DEF PoolTypeOK, TakeJob
  <2>2. at' \in [Workers -> {"idle", "found", "emit"}]
        /\ job' \in [Workers -> Packets \cup {None}]
    <3>1. \/ UNCHANGED <<at, job>>
          \/ at' = [at EXCEPT ![w] = "found"] /\ job' = [job EXCEPT ![w] = Head(queue)]
          BY DEF TakeJob, Forgets
    <3>2. at' \in [Workers -> {"idle", "found", "emit"}]
          BY <3>1, <1>c
    <3>3. job' \in [Workers -> Packets \cup {None}]
      <4>1. Head(queue) \in Packets \cup {None} /\ job \in [Workers -> Packets \cup {None}]
            BY <2>1, <1>c
      <4> HIDE DEF TakeJob
      <4>2. job' = job \/ job' = [job EXCEPT ![w] = Head(queue)]
            BY <3>1
      <4> QED BY <4>1, <4>2
    <3> QED BY <3>2, <3>3
  <2>3. served' \in [Workers -> Objs \cup {None}]
    <3>1. reader[Head(queue).from] # "none" /\ Head(queue).from \in Objs
      <4>1. 1 \in DOMAIN queue /\ Head(queue) = queue[1]
            BY <1>t DEF PoolTypeOK, TakeJob
      <4> QED BY <2>1, <4>1 DEF PoolIInv, Fresh, Packets
    <3>2. sid[Head(queue).from] \in IDs
          BY <3>1, <1>0, <1>t DEF Users
    <3> QED BY <3>2, <1>t DEF PoolTypeOK, TakeJob, Forgets
  <2> QED BY <2>1, <2>2, <2>3, <1>t DEF TakeJob, PoolTypeOK, storeVars, pipeVars, streamVars,
           callerVars
<1>7. CASE \E w \in Workers : Process(w)
  <2> PICK w \in Workers : Process(w)
      BY <1>7
  <2> DEFINE p == served[w]
             buf == Append(chunker[p], job[w])
  <2>1. p \in Objs /\ job[w] \in Packets /\ at[w] = "found"
        BY <1>t DEF Serving, Process, Entered, Packets
  <2>2. chunker[p] \in Seq(Packets) /\ Len(chunker[p]) < ChunkPackets
        /\ decoded[p] \in Seq(Packets) /\ ChunkPackets \in Nat
        BY <2>1, <1>t DEF PoolTypeOK
  <2>3. buf \in Seq(Packets) /\ Len(buf) <= ChunkPackets /\ Append(decoded[p], job[w]) \in Seq(Packets)
        BY <2>1, <2>2
  <2>4. <<>> \in Seq(Packets) /\ Len(<<>>) = 0
        OBVIOUS
  <2>5. chunker' \in [Objs -> Seq(Packets)] /\ \A q \in Objs : Len(chunker'[q]) < ChunkPackets
    <3>1. chunker' = [chunker EXCEPT ![p] = IF Len(buf) = ChunkPackets THEN <<>> ELSE buf]
          BY DEF Process, Full, Pipeline
    <3>2. (IF Len(buf) = ChunkPackets THEN <<>> ELSE buf) \in Seq(Packets)
          /\ Len(IF Len(buf) = ChunkPackets THEN <<>> ELSE buf) < ChunkPackets
          BY <2>2, <2>3, <2>4
    <3> HIDE DEF buf
    <3> QED BY <3>1, <3>2, <1>t DEF PoolTypeOK
  <2>6. decoded' \in [Objs -> Seq(Packets)]
        BY <2>3, <1>t DEF PoolTypeOK, Process, Pipeline
  <2>7. /\ at' \in [Workers -> {"idle", "found", "emit"}]
        /\ job' \in [Workers -> Packets \cup {None}]
        /\ served' \in [Workers -> Objs \cup {None}]
        /\ mutex' \in [Objs -> Workers \cup {None}]
    <3>1. \/ /\ at' = [at EXCEPT ![w] = "emit"] /\ mutex' = [mutex EXCEPT ![p] = w]
             /\ UNCHANGED <<job, served>>
          \/ /\ at' = [at EXCEPT ![w] = "idle"] /\ mutex' = mutex
             /\ job' = [job EXCEPT ![w] = None] /\ served' = [served EXCEPT ![w] = None]
          BY DEF Process, Finish, Holder, Pipeline
    <3>2. at' \in [Workers -> {"idle", "found", "emit"}]
          BY <3>1, <1>c
    <3>3. job' \in [Workers -> Packets \cup {None}]
          BY <3>1, <1>c
    <3>4. served' \in [Workers -> Objs \cup {None}]
          BY <3>1, <1>c
    <3>5. mutex' \in [Objs -> Workers \cup {None}]
          BY <3>1, <1>c
    <3> QED BY <3>2, <3>3, <3>4, <3>5
  <2>8. pending' \in [Workers -> Seq(Packets)]
        BY <2>3, <2>4, <1>t DEF PoolTypeOK, Process, Finish, Pipeline
  <2> QED BY <2>5, <2>6, <2>7, <2>8, <1>t DEF Process, PoolTypeOK, storeVars, sharedVars,
           streamVars, callerVars
<1>8. CASE \E w \in Workers : ProcessNothing(w) \/ Emit(w) \/ EmitCancelled(w)
  <2> PICK w \in Workers : ProcessNothing(w) \/ Emit(w) \/ EmitCancelled(w)
      BY <1>8
  <2>1. /\ at' \in [Workers -> {"idle", "found", "emit"}]
        /\ job' \in [Workers -> Packets \cup {None}]
        /\ served' \in [Workers -> Objs \cup {None}]
        /\ pending' \in [Workers -> Seq(Packets)]
        /\ mutex' \in [Objs -> Workers \cup {None}]
    <3>1. CASE ProcessNothing(w) BY <3>1, <1>c, <1>d DEF ProcessNothing, Finish, pipeVars
    <3>2. CASE Unlock(w) BY <3>2, <1>c, <1>d DEF Unlock, Finish
    <3> QED BY <3>1, <3>2 DEF Emit, EmitCancelled
  <2>2. audio' \in [Objs -> Seq(Chunks)] /\ \A q \in Objs : Len(audio'[q]) <= AudioQueueSize
    <3>1. CASE Emit(w)
      <4> DEFINE p == served[w]
                 c == [pcm |-> pending[w], last |-> FALSE]
      <4>1. p \in Objs
            BY <3>1, <1>t DEF Serving, Emit, Packets
      <4>2. c \in Chunks /\ audio[p] \in Seq(Chunks) /\ Len(audio[p]) < AudioQueueSize
            BY <3>1, <4>1, <1>t DEF PoolTypeOK, Chunks, Emit, Pipeline
      <4>3. Append(audio[p], c) \in Seq(Chunks) /\ Len(Append(audio[p], c)) = Len(audio[p]) + 1
            BY <4>2
      <4>4. audio' = [audio EXCEPT ![p] = Append(audio[p], c)]
            BY <3>1 DEF Emit, Pipeline
      <4>5. Len(Append(audio[p], c)) <= AudioQueueSize
            BY <4>2, <4>3
      <4> QED BY <4>3, <4>4, <4>5, <1>t DEF PoolTypeOK
    <3>2. CASE UNCHANGED audio
          BY <3>2, <1>t DEF PoolTypeOK
    <3> QED BY <3>1, <3>2 DEF ProcessNothing, EmitCancelled
  <2>3. UNCHANGED <<storeVars, sharedVars, chunker, decoded, streamVars, callerVars>>
        BY DEF ProcessNothing, Emit, EmitCancelled, Unlock, pipeVars
  <2> QED BY <2>1, <2>2, <2>3, <1>t DEF PoolTypeOK, storeVars, sharedVars, streamVars, callerVars
<1>9. CASE UNCHANGED poolVars
      BY <1>9, <1>t DEF PoolTypeOK, poolVars, storeVars, sharedVars, workerVars, pipeVars,
         streamVars, callerVars
<1> QED BY <1>1, <1>2, <1>3, <1>4, <1>5, <1>6, <1>7, <1>8, <1>9 DEF PoolNext, WorkerStep

(* Only the callers of the pool change what Users and Entries speak of.    *)
CallerAction ==
  \E o \in Objs :
    Register(o) \/ StartPumps(o) \/ Unregister(o) \/ Flush(o) \/ ReaderStops(o)

LEMMA OtherSteps ==
  ASSUME [PoolNext]_poolVars, ~StoreStep, ~CallerAction
  PROVE  UNCHANGED <<storeVars, pipes, phase, reader, flushee>>
BY DEF PoolNext, CallerAction, poolVars, sharedVars, streamVars, callerVars, Submit, ReaderTakes,
   WorkerStep, TakeJob, ProcessNothing, Process, Emit, EmitCancelled, Unlock

LEMMA UsersStep == PoolIInv /\ [PoolNext]_poolVars => Users' /\ Entries'
<1> SUFFICES ASSUME PoolIInv, [PoolNext]_poolVars PROVE Users' /\ Entries'
    OBVIOUS
<1>t. PoolTypeOK /\ Users /\ Entries
      BY DEF PoolIInv
<1>a. /\ sid \in [Objs -> IDs \cup {None}]
      /\ pipes \in [IDs -> Objs \cup {None}]
      /\ phase \in [Objs -> {"idle", "registered", "pumping", "flushing", "done"}]
      /\ reader \in [Objs -> {"none", "running", "stopped"}]
      /\ flushee \in [Objs -> Objs \cup {None}]
      BY <1>t DEF PoolTypeOK
<1>b. \A o \in Objs :
        /\ Done(o) => Done(o)'
        /\ stage[o] # "absent" => stage'[o] # "absent" /\ sid'[o] = sid[o]
        /\ sid'[o] = None <=> stage'[o] = "absent"
      BY <1>t, SessionsGoOn
<1>1. CASE UNCHANGED <<pipes, phase, reader, flushee>>
  <2>1. Users'
        BY <1>1, <1>b, <1>t DEF Users
  <2>2. Entries'
        BY <1>1, <1>a, <1>b, <1>t DEF Users, Entries
  <2> QED BY <2>1, <2>2
<1>2. CASE CallerAction
  <2> PICK p \in Objs :
        Register(p) \/ StartPumps(p) \/ Unregister(p) \/ Flush(p) \/ ReaderStops(p)
      BY <1>2 DEF CallerAction
  <2>u. UNCHANGED storeVars
        BY DEF Register, StartPumps, Unregister, Flush, ReaderStops
  <2>v. stage' = stage /\ sid' = sid /\ \A o \in Objs : Done(o)' <=> Done(o)
        BY <2>u DEF storeVars, Done
  <2>1. CASE Register(p)
    <3>1. sid[p] \in IDs /\ phase[p] = "idle" /\ UNCHANGED <<reader, flushee>>
          BY <2>1, <1>a, <1>t DEF Register, Users, streamVars
    <3>2. CASE pipes[sid[p]] = None /\ pipes' = [pipes EXCEPT ![sid[p]] = p]
               /\ phase' = [phase EXCEPT ![p] = "registered"]
      <4>1. Users'
            BY <3>1, <3>2, <2>1, <2>v, <1>a, <1>t DEF Users, Register
      <4>2. Entries'
            BY <3>1, <3>2, <2>v, <1>a, <1>t DEF Entries
      <4> QED BY <4>1, <4>2
    <3>3. CASE pipes' = pipes /\ phase' = [phase EXCEPT ![p] = "done"]
      <4>1. Users'
            BY <3>1, <3>3, <2>1, <2>v, <1>a, <1>t DEF Users, Register
      <4>2. Entries'
            BY <3>1, <3>3, <2>v, <1>a, <1>t DEF Entries
      <4> QED BY <4>1, <4>2
    <3> QED BY <2>1, <3>2, <3>3 DEF Register
  <2>2. CASE StartPumps(p)
    <3>1. /\ phase[p] = "registered" /\ phase' = [phase EXCEPT ![p] = "pumping"]
          /\ reader' = [reader EXCEPT ![p] = "running"] /\ pipes' = pipes /\ flushee' = flushee
          BY <2>2 DEF StartPumps, sharedVars
    <3> QED BY <3>1, <2>v, <1>a, <1>t DEF Users, Entries
  <2>3. CASE Unregister(p)
    <3>1. /\ phase[p] \in {"registered", "pumping"} /\ pipes[sid[p]] = p /\ sid[p] \in IDs
          /\ phase[p] = "pumping" => Done(p)
          BY <2>3, <1>a, <1>t DEF Unregister, Users
    <3>2. /\ pipes' = [pipes EXCEPT ![sid[p]] = None] /\ flushee' = [flushee EXCEPT ![p] = p]
          /\ phase' = [phase EXCEPT ![p] = "flushing"] /\ reader' = reader
          BY <2>3, <3>1 DEF Unregister, streamVars
    <3>3. Users'
          BY <3>1, <3>2, <2>v, <1>a, <1>t DEF Users
    <3>4. Entries'
          BY <3>1, <3>2, <2>v, <1>a, <1>t DEF Users, Entries
    <3> QED BY <3>3, <3>4
  <2>4. CASE Flush(p)
    <3>1. /\ phase[p] = "flushing" /\ phase' = [phase EXCEPT ![p] = "done"]
          /\ UNCHANGED <<pipes, reader, flushee>>
          BY <2>4 DEF Flush, sharedVars, streamVars
    <3> QED BY <3>1, <2>v, <1>a, <1>t DEF Users, Entries
  <2>5. CASE ReaderStops(p)
    <3>1. /\ reader[p] = "running" /\ reader' = [reader EXCEPT ![p] = "stopped"]
          /\ UNCHANGED <<pipes, phase, flushee>>
          BY <2>5 DEF ReaderStops, sharedVars, callerVars
    <3> QED BY <3>1, <2>v, <1>a, <1>t DEF Users, Entries
  <2> QED BY <2>1, <2>2, <2>3, <2>4, <2>5
<1> QED BY <1>1, <1>2, OtherSteps DEF StoreStep, sharedVars, streamVars, callerVars

(* An AI stream that has been opened is not closed before the end.         *)
LEMMA ReadersStay ==
  ASSUME PoolIInv, [PoolNext]_poolVars, NEW o \in Objs, reader[o] # "none"
  PROVE  reader'[o] # "none"
<1>1. CASE StoreStep
      BY <1>1 DEF StoreStep, streamVars
<1>2. CASE CallerAction
      BY <1>2 DEF PoolIInv, PoolTypeOK, CallerAction, Register, StartPumps, Unregister, Flush,
         ReaderStops, streamVars
<1> QED BY <1>1, <1>2, OtherSteps

(* The pipeline a worker serves.                                           *)
LEMMA ServedWorkers ==
  ASSUME PoolTypeOK, Serving, NEW w \in Workers, at[w] # "idle"
  PROVE  /\ Pipeline(w) = served[w] /\ served[w] \in Objs /\ reader[served[w]] # "none"
         /\ job[w] \in Packets /\ job[w].from = served[w]
BY DEF Serving, Pipeline, Packets

LEMMA FreshStep == PoolIInv /\ [PoolNext]_poolVars => Fresh'
<1> SUFFICES ASSUME PoolIInv, [PoolNext]_poolVars PROVE Fresh'
    OBVIOUS
<1>t. PoolTypeOK /\ Fresh /\ Serving /\ Users
      BY DEF PoolIInv
<1>a. /\ decoded \in [Objs -> Seq(Packets)] /\ chunker \in [Objs -> Seq(Packets)]
      /\ queue \in Seq(Packets)
      BY <1>t DEF PoolTypeOK
<1>b. \A o \in Objs : reader[o] # "none" => reader'[o] # "none"
      BY ReadersStay
<1>1. \A o \in Objs : reader'[o] = "none" => decoded'[o] = <<>> /\ chunker'[o] = <<>>
  <2>1. CASE UNCHANGED <<decoded, chunker>>
        BY <2>1, <1>b, <1>t DEF Fresh
  <2>2. CASE \E p \in Objs : Flush(p)
    <3> PICK p \in Objs : Flush(p) BY <2>2
    <3>1. flushee[p] = p BY <1>t DEF Users, Flush
    <3>2. decoded' = decoded /\ chunker' = [chunker EXCEPT ![p] = <<>>]
          BY <3>1 DEF Flush
    <3> QED BY <3>2, <1>a, <1>b, <1>t DEF Fresh
  <2>3. CASE \E w \in Workers : Process(w)
    <3> PICK w \in Workers : Process(w) BY <2>3
    <3>1. at[w] # "idle" BY DEF Process, Entered
    <3>2. served[w] \in Objs /\ reader[served[w]] # "none" BY <3>1, <1>t, ServedWorkers
    <3>3. \A o \in Objs : o # served[w] => decoded'[o] = decoded[o] /\ chunker'[o] = chunker[o]
          BY <1>a DEF Process, Pipeline
    <3> QED BY <3>2, <3>3, <1>b, <1>t DEF Fresh
  <2> QED BY <2>1, <2>2, <2>3 DEF PoolNext, poolVars, pipeVars, StoreStep, Register, StartPumps,
             Unregister, Submit, ReaderTakes, ReaderStops, WorkerStep, TakeJob, ProcessNothing,
             Emit, EmitCancelled, Unlock
<1>2. \A k \in DOMAIN queue' : reader'[queue'[k].from] # "none"
  <2>0. \A k \in DOMAIN queue : queue[k].from \in Objs
    <3>1. \A k \in DOMAIN queue : queue[k] \in Packets BY <1>a
    <3> QED BY <3>1 DEF Packets
  <2>1. CASE UNCHANGED queue
        BY <2>0, <2>1, <1>b, <1>t DEF Fresh
  <2>2. CASE \E p \in Objs : Submit(p)
    <3> PICK p \in Objs : Submit(p) BY <2>2
    <3>1. reader[p] # "none" /\ reader' = reader BY DEF Submit, streamVars
    <3>2. CASE queue' = Append(queue, [from |-> p, n |-> submitted[p] + 1])
          BY <3>1, <3>2, <2>0, <1>a, <1>t DEF Fresh
    <3> QED BY <2>1, <3>2 DEF Submit
  <2>3. CASE \E w \in Workers : TakeJob(w)
    <3>1. queue # <<>> /\ queue' = Tail(queue) /\ reader' = reader
          BY <2>3 DEF TakeJob, streamVars
    <3> QED BY <3>1, <2>0, <1>a, <1>t DEF Fresh
  <2> QED BY <2>1, <2>2, <2>3 DEF PoolNext, poolVars, sharedVars, StoreStep, Register, StartPumps,
             Unregister, Flush, ReaderTakes, ReaderStops, WorkerStep, ProcessNothing, Process,
             Emit, EmitCancelled, Unlock
<1> QED BY <1>1, <1>2 DEF Fresh

(* The lookup finds the session of the job: an ID that waits in the queue   *)
(* has not been used again.                                                *)
LEMMA FindsOwn ==
  ASSUME PoolIInv, queue # <<>>, pipes[sid[Head(queue).from]] # None
  PROVE  /\ Head(queue) \in Packets /\ reader[Head(queue).from] # "none"
         /\ pipes[sid[Head(queue).from]] = Head(queue).from
<1>1. 1 \in DOMAIN queue /\ Head(queue) = queue[1] /\ queue[1] \in Packets
      BY DEF PoolIInv, PoolTypeOK
<1> DEFINE o == queue[1].from
           p == pipes[sid[o]]
<1>2. o \in Objs /\ reader[o] # "none"
      BY <1>1 DEF PoolIInv, Fresh, Packets
<1>3. sid[o] \in IDs
      BY <1>2 DEF PoolIInv, PoolTypeOK, Users
<1>4. p \in Objs /\ sid[p] = sid[o] /\ phase[p] \in {"registered", "pumping"}
      BY <1>1, <1>3 DEF PoolIInv, PoolTypeOK, Entries
<1>5. ~Settled(o) /\ ~Settled(p)
      BY <1>1, <1>4 DEF Settled
<1>6. sid[o] # None
      BY <1>3
<1> HIDE DEF o, p
<1>7. o = p
      BY <1>2, <1>4, <1>5, <1>6 DEF PoolIInv, QuietReuse
<1> QED BY <1>1, <1>2, <1>7 DEF o, p

LEMMA ServingStep == PoolIInv /\ [PoolNext]_poolVars => Serving'
<1> SUFFICES ASSUME PoolIInv, [PoolNext]_poolVars PROVE Serving'
    OBVIOUS
<1>t. PoolTypeOK /\ Serving /\ Users
      BY DEF PoolIInv
<1>a. /\ at \in [Workers -> {"idle", "found", "emit"}]
      /\ job \in [Workers -> Packets \cup {None}]
      /\ served \in [Workers -> Objs \cup {None}]
      /\ pending \in [Workers -> Seq(Packets)]
      /\ mutex \in [Objs -> Workers \cup {None}]
      /\ chunker \in [Objs -> Seq(Packets)]
      BY <1>t DEF PoolTypeOK
<1>b. \A w \in Workers : at[w] # "idle" =>
        /\ Pipeline(w) = served[w] /\ served[w] \in Objs /\ reader[served[w]] # "none"
        /\ job[w] \in Packets /\ job[w].from = served[w]
      BY <1>t, ServedWorkers
<1>c. \A o \in Objs : reader[o] # "none" => reader'[o] # "none"
      BY ReadersStay
<1>1. CASE UNCHANGED <<workerVars, mutex, chunker>>
  <2>1. UNCHANGED <<at, job, served, pending, mutex, chunker>>
        BY <1>1 DEF workerVars
  <2> QED BY <2>1, <1>b, <1>c, <1>t DEF Serving
<1>2. CASE \E o \in Objs : Flush(o)
  <2> PICK o \in Objs : Flush(o) BY <1>2
  <2>1. flushee[o] = o BY <1>t DEF Users, Flush
  <2>2. chunker' = [chunker EXCEPT ![o] = <<>>] /\ UNCHANGED <<at, job, served, pending, mutex>>
        BY <2>1 DEF Flush, workerVars
  <2> QED BY <2>2, <1>a, <1>b, <1>c, <1>t DEF Serving
<1>3. CASE \E w \in Workers : TakeJob(w)
  <2> PICK w \in Workers : TakeJob(w) BY <1>3
  <2>1. UNCHANGED <<reader, mutex, chunker, pending>> /\ queue # <<>> /\ at[w] = "idle"
        BY DEF TakeJob, streamVars, pipeVars
  <2>2. CASE UNCHANGED <<at, job, served>>
        BY <2>1, <2>2, <1>1 DEF workerVars
  <2>3. CASE pipes[sid[Head(queue).from]] # None
    <3>1. /\ at' = [at EXCEPT ![w] = "found"] /\ job' = [job EXCEPT ![w] = Head(queue)]
          /\ served' = [served EXCEPT ![w] = Head(queue).from]
          /\ Head(queue) \in Packets /\ reader[Head(queue).from] # "none"
          BY <2>1, <2>3, FindsOwn DEF TakeJob
    <3> QED BY <3>1, <2>1, <1>a, <1>b, <1>t DEF Serving
  <2> QED BY <2>2, <2>3 DEF TakeJob, Forgets
<1>4. CASE \E w \in Workers : Process(w)
  <2> PICK w \in Workers : Process(w) BY <1>4
  <2> DEFINE p == served[w]
             buf == Append(chunker[p], job[w])
  <2>1. at[w] = "found" /\ mutex[p] = None /\ reader' = reader
        /\ Pipeline(w) = p /\ p \in Objs /\ reader[p] # "none" /\ job[w].from = p
        BY <1>b DEF Process, Entered, streamVars
  <2>2. \A v \in Workers : at[v] = "emit" => served[v] # p
        BY <2>1, <1>t DEF Serving
  <2>3. CASE Full(buf)
    <3>1. /\ pending' = [pending EXCEPT ![w] = buf] /\ at' = [at EXCEPT ![w] = "emit"]
          /\ mutex' = [mutex EXCEPT ![p] = w] /\ job' = job /\ served' = served
          /\ chunker' = [chunker EXCEPT ![p] = <<>>]
          BY <2>1, <2>3 DEF Process, Holder
    <3>2. Len(buf) = ChunkPackets
          BY <2>3 DEF Full
    <3> HIDE DEF buf
    <3> QED BY <3>1, <3>2, <2>1, <2>2, <1>a, <1>b, <1>t DEF Serving
  <2>4. CASE ~Full(buf)
    <3>1. Finish(w) /\ mutex' = mutex /\ chunker' = [chunker EXCEPT ![p] = buf]
          BY <2>1, <2>4 DEF Process
    <3> HIDE DEF buf
    <3>2. \A v \in Workers : at'[v] # "idle" =>
            /\ v # w /\ at'[v] = at[v] /\ job'[v] = job[v] /\ served'[v] = served[v]
            /\ pending'[v] = pending[v]
          BY <3>1, <1>a DEF Finish
    <3>3. \A v \in Workers : at[v] = "emit" => at'[v] = "emit" /\ served'[v] = served[v]
          BY <3>1, <2>1, <1>a DEF Finish
    <3>4. \A q \in Objs : q # p => chunker'[q] = chunker[q]
          BY <3>1, <1>a
    <3>5. \A v \in Workers : at'[v] # "emit" => pending'[v] = <<>>
          BY <3>1, <1>a, <1>t DEF Finish, Serving
    <3> QED BY <3>1, <3>2, <3>3, <3>4, <3>5, <2>1, <2>2, <1>a, <1>b, <1>t DEF Serving
  <2> QED BY <2>3, <2>4
<1>5. CASE \E w \in Workers : ProcessNothing(w)
  <2> PICK w \in Workers : ProcessNothing(w) BY <1>5
  <2>1. at[w] = "found" /\ Finish(w) /\ UNCHANGED <<reader, mutex, chunker>>
        BY DEF ProcessNothing, Entered, streamVars, pipeVars
  <2>2. \A v \in Workers : at'[v] # "idle" =>
          /\ v # w /\ at'[v] = at[v] /\ job'[v] = job[v] /\ served'[v] = served[v]
          /\ pending'[v] = pending[v]
        BY <2>1, <1>a DEF Finish
  <2>3. \A v \in Workers : at[v] = "emit" => at'[v] = "emit" /\ served'[v] = served[v]
        BY <2>1, <1>a DEF Finish
  <2>4. \A v \in Workers : at'[v] # "emit" => pending'[v] = <<>>
        BY <2>1, <1>a, <1>t DEF Finish, Serving
  <2> QED BY <2>1, <2>2, <2>3, <2>4, <1>a, <1>b, <1>t DEF Serving
<1>6. CASE \E w \in Workers : Emit(w) \/ EmitCancelled(w)
  <2> PICK w \in Workers : Emit(w) \/ EmitCancelled(w) BY <1>6
  <2> DEFINE p == served[w]
  <2>1. at[w] = "emit" /\ Finish(w) /\ UNCHANGED <<reader, chunker>>
        /\ mutex' = [mutex EXCEPT ![p] = None] /\ p \in Objs
        BY <1>b DEF Emit, EmitCancelled, Unlock, streamVars
  <2>2. \A v \in Workers : at'[v] # "idle" =>
          /\ v # w /\ at'[v] = at[v] /\ job'[v] = job[v] /\ served'[v] = served[v]
          /\ pending'[v] = pending[v]
        BY <2>1, <1>a DEF Finish
  <2>3. \A v \in Workers : v # w /\ at[v] = "emit" =>
          at'[v] = "emit" /\ served'[v] = served[v] /\ served[v] # p
        BY <2>1, <1>a, <1>t DEF Finish, Serving
  <2>4. \A q \in Objs : mutex'[q] # None =>
          q # p /\ mutex'[q] = mutex[q] /\ mutex[q] # w
        BY <2>1, <1>a, <1>t DEF Serving
  <2>5. \A q \in Objs : q # p => mutex'[q] = mutex[q]
        BY <2>1, <1>a
  <2>6. \A v \in Workers : at'[v] # "emit" => pending'[v] = <<>>
        BY <2>1, <1>a, <1>t DEF Finish, Serving
  <2> QED BY <2>1, <2>2, <2>3, <2>4, <2>5, <2>6, <1>a, <1>b, <1>t DEF Serving
<1> QED BY <1>1, <1>2, <1>3, <1>4, <1>5, <1>6 DEF PoolNext, poolVars, workerVars, pipeVars, StoreStep,
           Register, StartPumps, Unregister, Submit, ReaderTakes, ReaderStops, WorkerStep

-----------------------------------------------------------------------------
(* The chunks of a session, whether its AI stream has taken them or not.   *)

LEMMA AppendJoin ==
  ASSUME NEW S, NEW h \in Seq(S), NEW a \in Seq(S), NEW c \in S
  PROVE  h \o Append(a, c) = Append(h \o a, c)
<1>1. Append(a, c) = a \o <<c>> /\ <<c>> \in Seq(S) /\ h \o a \in Seq(S)
      BY AppendIsConcat, ConcatProperties
<1>2. Append(h \o a, c) = (h \o a) \o <<c>>
      BY <1>1, AppendIsConcat
<1> QED BY <1>1, <1>2, ConcatAssociative

LEMMA TakeJoin ==
  ASSUME NEW S, NEW h \in Seq(S), NEW a \in Seq(S), a # <<>>
  PROVE  Append(h, Head(a)) \o Tail(a) = h \o a
<1>1. Head(a) \in S /\ Tail(a) \in Seq(S) /\ Len(Tail(a)) = Len(a) - 1 /\ Len(a) > 0
      /\ Head(a) = a[1] /\ \A k \in 1 .. Len(a) - 1 : Tail(a)[k] = a[k + 1]
      BY HeadTailProperties, EmptySeq
<1>2. /\ Append(h, Head(a)) \o Tail(a) \in Seq(S) /\ h \o a \in Seq(S)
      /\ Len(Append(h, Head(a)) \o Tail(a)) = Len(h \o a)
      BY <1>1, ConcatProperties, AppendProperties
<1>3. \A k \in 1 .. Len(h \o a) : (Append(h, Head(a)) \o Tail(a))[k] = (h \o a)[k]
  <2> SUFFICES ASSUME NEW k \in 1 .. Len(h \o a)
               PROVE  (Append(h, Head(a)) \o Tail(a))[k] = (h \o a)[k]
      OBVIOUS
  <2>1. Append(h, Head(a)) \in Seq(S) /\ Len(Append(h, Head(a))) = Len(h) + 1
        /\ Append(h, Head(a))[Len(h) + 1] = a[1]
        /\ \A j \in 1 .. Len(h) : Append(h, Head(a))[j] = h[j]
        BY <1>1, AppendProperties
  <2>2. Len(h \o a) = Len(h) + Len(a) /\ (h \o a)[k] = IF k <= Len(h) THEN h[k] ELSE a[k - Len(h)]
        BY ConcatProperties
  <2>3. (Append(h, Head(a)) \o Tail(a))[k] =
          IF k <= Len(h) + 1 THEN Append(h, Head(a))[k] ELSE Tail(a)[k - (Len(h) + 1)]
        BY <2>1, <2>2, <1>1, <1>2, ConcatProperties
  <2>4. CASE k <= Len(h)
        BY <2>1, <2>2, <2>3, <2>4
  <2>5. CASE k = Len(h) + 1
        BY <2>1, <2>2, <2>3, <2>5
  <2>6. CASE k > Len(h) + 1
    <3>1. k - (Len(h) + 1) \in 1 .. Len(a) - 1 /\ (k - (Len(h) + 1)) + 1 = k - Len(h)
          BY <2>2, <2>6
    <3> QED BY <3>1, <2>2, <2>3, <2>6, <1>1
  <2> QED BY <2>4, <2>5, <2>6
<1> QED BY <1>2, <1>3, SeqEqual

LEMMA ConveyedType ==
  ASSUME PoolTypeOK, NEW o \in Objs
  PROVE  Conveyed(o) \in Seq(Chunks)
BY ConcatProperties DEF PoolTypeOK, Conveyed

LEMMA ConveyedStep ==
  ASSUME PoolIInv, [PoolNext]_poolVars, NEW o \in Objs
  PROVE  \/ Conveyed(o)' = Conveyed(o)
         \/ \E w \in Workers :
              /\ Emit(w) /\ served[w] = o
              /\ Conveyed(o)' = Append(Conveyed(o), [pcm |-> pending[w], last |-> FALSE])
         \/ /\ Flush(o) /\ chunker[o] # <<>>
            /\ Conveyed(o)' = Append(Conveyed(o), [pcm |-> chunker[o], last |-> TRUE])
<1>t. PoolTypeOK /\ Serving /\ Users
      BY DEF PoolIInv
<1>a. /\ audio \in [Objs -> Seq(Chunks)] /\ heard \in [Objs -> Seq(Chunks)]
      /\ pending \in [Workers -> Seq(Packets)] /\ chunker \in [Objs -> Seq(Packets)]
      BY <1>t DEF PoolTypeOK
<1>1. CASE UNCHANGED <<heard, audio>>
      BY <1>1 DEF Conveyed
<1>2. CASE \E p \in Objs : Flush(p)
  <2> PICK p \in Objs : Flush(p) BY <1>2
  <2>1. flushee[p] = p /\ heard' = heard
        BY <1>t DEF Users, Flush, streamVars
  <2>2. CASE audio' = audio
        BY <2>1, <2>2, <1>1
  <2>3. CASE p # o /\ audio' = [audio EXCEPT ![p] = Append(@, [pcm |-> chunker[p], last |-> TRUE])]
    <3>1. audio'[o] = audio[o] BY <2>3, <1>a
    <3> QED BY <3>1, <2>1 DEF Conveyed
  <2>4. CASE p = o /\ chunker[o] # <<>>
             /\ audio' = [audio EXCEPT ![p] = Append(@, [pcm |-> chunker[p], last |-> TRUE])]
    <3> PICK c : c = [pcm |-> chunker[o], last |-> TRUE] OBVIOUS
    <3>1. c \in Chunks BY <1>a DEF Chunks
    <3>2. audio'[o] = Append(audio[o], c) BY <2>4, <1>a
    <3>3. Conveyed(o)' = Append(Conveyed(o), c)
      <4>1. heard[o] \in Seq(Chunks) /\ audio[o] \in Seq(Chunks)
            BY <1>a
      <4> DEFINE h == heard[o]
                 a == audio[o]
      <4>2. h \in Seq(Chunks) /\ a \in Seq(Chunks)
            BY <4>1
      <4> HIDE DEF h, a
      <4>3. h \o Append(a, c) = Append(h \o a, c)
            BY <3>1, <4>2, AppendJoin
      <4> QED BY <3>2, <4>3, <2>1 DEF Conveyed, h, a
    <3> QED BY <2>4, <3>3
  <2> QED BY <2>1, <2>2, <2>3, <2>4 DEF Flush
<1>3. CASE \E p \in Objs : ReaderTakes(p)
  <2> PICK p \in Objs : ReaderTakes(p) BY <1>3
  <2>1. /\ audio[p] # <<>>
        /\ heard' = [heard EXCEPT ![p] = Append(heard[p], Head(audio[p]))]
        /\ audio' = [audio EXCEPT ![p] = Tail(audio[p])]
        BY DEF ReaderTakes
  <2>2. heard[p] \in Seq(Chunks) /\ audio[p] \in Seq(Chunks)
        BY <1>a
  <2>3. CASE p = o
    <3>1. Append(heard[o], Head(audio[o])) \o Tail(audio[o]) = heard[o] \o audio[o]
          BY <2>1, <2>2, <2>3, TakeJoin
    <3> QED BY <3>1, <2>1, <2>3, <1>a DEF Conveyed
  <2>4. CASE p # o
        BY <2>1, <2>4, <1>a DEF Conveyed
  <2> QED BY <2>3, <2>4
<1>4. CASE \E w \in Workers : Emit(w)
  <2> PICK w \in Workers : Emit(w) BY <1>4
  <2>1. Pipeline(w) = served[w] /\ served[w] \in Objs /\ heard' = heard
        BY <1>t, ServedWorkers DEF Emit, Unlock, streamVars
  <2>2. audio' = [audio EXCEPT ![served[w]] = Append(@, [pcm |-> pending[w], last |-> FALSE])]
        BY <2>1 DEF Emit
  <2>3. CASE served[w] # o
        BY <2>1, <2>2, <2>3, <1>a DEF Conveyed
  <2>4. CASE served[w] = o
    <3> PICK c : c = [pcm |-> pending[w], last |-> FALSE] OBVIOUS
    <3>1. c \in Chunks BY <1>a DEF Chunks
    <3>2. audio'[o] = Append(audio[o], c) BY <2>2, <2>4, <1>a
    <3>3. Conveyed(o)' = Append(Conveyed(o), c)
      <4>1. heard[o] \in Seq(Chunks) /\ audio[o] \in Seq(Chunks)
            BY <1>a
      <4> DEFINE h == heard[o]
                 a == audio[o]
      <4>2. h \in Seq(Chunks) /\ a \in Seq(Chunks)
            BY <4>1
      <4> HIDE DEF h, a
      <4>3. h \o Append(a, c) = Append(h \o a, c)
            BY <3>1, <4>2, AppendJoin
      <4> QED BY <3>2, <4>3, <2>1 DEF Conveyed, h, a
    <3> QED BY <2>4, <3>3
  <2> QED BY <2>3, <2>4
<1> QED BY <1>1, <1>2, <1>3, <1>4 DEF PoolNext, poolVars, streamVars, StoreStep, Register, StartPumps,
           Unregister, Submit, ReaderStops, WorkerStep, TakeJob, ProcessNothing, Process,
           EmitCancelled, Unlock

LEMMA FromAppend ==
  ASSUME NEW o, NEW s \in Seq(Packets), NEW x \in Packets, From(o, s), x.from = o
  PROVE  From(o, Append(s, x))
BY DEF From

LEMMA OwnSoundStep == PoolIInv /\ [PoolNext]_poolVars => Own'
<1> SUFFICES ASSUME PoolIInv, [PoolNext]_poolVars PROVE Own'
    OBVIOUS
<1>t. PoolTypeOK /\ Serving /\ Users /\ Own
      BY DEF PoolIInv
<1>a. /\ served \in [Workers -> Objs \cup {None}]
      /\ pending \in [Workers -> Seq(Packets)]
      /\ chunker \in [Objs -> Seq(Packets)]
      /\ decoded \in [Objs -> Seq(Packets)]
      BY <1>t DEF PoolTypeOK
<1>n. \A o : From(o, <<>>)
      BY DEF From
<1>1. \A o \in Objs : \A k \in DOMAIN Conveyed(o)' : From(o, (Conveyed(o)')[k].pcm)
  <2> SUFFICES ASSUME NEW o \in Objs
               PROVE  \A k \in DOMAIN Conveyed(o)' : From(o, (Conveyed(o)')[k].pcm)
      OBVIOUS
  <2>1. Conveyed(o) \in Seq(Chunks) /\ \A k \in DOMAIN Conveyed(o) : From(o, Conveyed(o)[k].pcm)
        BY <1>t, ConveyedType DEF Own
  <2>2. ASSUME NEW c, Conveyed(o)' = Append(Conveyed(o), c), From(o, c.pcm), c \in Chunks
        PROVE  \A k \in DOMAIN Conveyed(o)' : From(o, (Conveyed(o)')[k].pcm)
    <3> DEFINE cs == Conveyed(o)
    <3>1. cs \in Seq(Chunks) /\ \A k \in DOMAIN cs : From(o, cs[k].pcm)
          BY <2>1
    <3> HIDE DEF cs
    <3>2. \A k \in DOMAIN Append(cs, c) : From(o, Append(cs, c)[k].pcm)
          BY <3>1, <2>2
    <3> QED BY <3>2, <2>2 DEF cs
  <2>3. CASE \E w \in Workers :
               /\ Emit(w) /\ served[w] = o
               /\ Conveyed(o)' = Append(Conveyed(o), [pcm |-> pending[w], last |-> FALSE])
    <3> PICK w \in Workers :
               /\ Emit(w) /\ served[w] = o
               /\ Conveyed(o)' = Append(Conveyed(o), [pcm |-> pending[w], last |-> FALSE])
        BY <2>3
    <3>1. From(o, pending[w]) /\ [pcm |-> pending[w], last |-> FALSE] \in Chunks
          BY <1>a, <1>t DEF Own, Chunks
    <3> QED BY <3>1, <2>2
  <2>4. CASE /\ Flush(o) /\ chunker[o] # <<>>
             /\ Conveyed(o)' = Append(Conveyed(o), [pcm |-> chunker[o], last |-> TRUE])
    <3> DEFINE c == [pcm |-> chunker[o], last |-> TRUE]
    <3>1. From(o, chunker[o])
          BY <1>t DEF Own
    <3>2. c \in Chunks /\ c.pcm = chunker[o]
          BY <1>a DEF Chunks
    <3>3. Conveyed(o)' = Append(Conveyed(o), c)
          BY <2>4
    <3> HIDE DEF c
    <3> QED BY <3>1, <3>2, <3>3, <2>2
  <2>5. CASE Conveyed(o)' = Conveyed(o)
        BY <2>1, <2>5
  <2> QED BY <2>3, <2>4, <2>5, ConveyedStep
<1>2. \A o \in Objs : From(o, decoded'[o]) /\ From(o, chunker'[o])
  <2>1. CASE UNCHANGED <<decoded, chunker>>
        BY <2>1, <1>t DEF Own
  <2>2. CASE \E p \in Objs : Flush(p)
    <3> PICK p \in Objs : Flush(p) BY <2>2
    <3>1. flushee[p] = p BY <1>t DEF Users, Flush
    <3>2. decoded' = decoded /\ chunker' = [chunker EXCEPT ![p] = <<>>]
          BY <3>1 DEF Flush
    <3> QED BY <3>2, <1>a, <1>n, <1>t DEF Own
  <2>3. CASE \E w \in Workers : Process(w)
    <3> PICK w \in Workers : Process(w) BY <2>3
    <3> DEFINE p == served[w]
               buf == Append(chunker[p], job[w])
               dec == Append(decoded[p], job[w])
    <3>1. at[w] # "idle" BY DEF Process, Entered
    <3>2. p \in Objs /\ Pipeline(w) = p /\ job[w] \in Packets /\ job[w].from = p
          BY <3>1, <1>t, ServedWorkers
    <3>3. From(p, buf) /\ From(p, dec)
      <4>1. decoded[p] \in Seq(Packets) /\ chunker[p] \in Seq(Packets)
            /\ From(p, decoded[p]) /\ From(p, chunker[p])
            BY <3>2, <1>a, <1>t DEF Own
      <4> QED BY <3>2, <4>1, FromAppend
    <3>4. /\ decoded' = [decoded EXCEPT ![p] = dec]
          /\ chunker' = [chunker EXCEPT ![p] = IF Full(buf) THEN <<>> ELSE buf]
          BY <3>2 DEF Process
    <3> HIDE DEF p, buf, dec
    <3> QED BY <3>2, <3>3, <3>4, <1>a, <1>n, <1>t DEF Own
  <2> QED BY <2>1, <2>2, <2>3 DEF PoolNext, poolVars, pipeVars, StoreStep, Register, StartPumps,
             Unregister, Submit, ReaderTakes, ReaderStops, WorkerStep, TakeJob, ProcessNothing,
             Emit, EmitCancelled, Unlock
<1>3. \A w \in Workers : From(served'[w], pending'[w])
  <2>1. CASE UNCHANGED <<served, pending>>
        BY <2>1, <1>t DEF Own
  <2>2. CASE \E w \in Workers : Finish(w)
        BY <2>2, <1>a, <1>n, <1>t DEF Finish, Own
  <2>3. CASE \E w \in Workers : TakeJob(w)
    <3> PICK w \in Workers : TakeJob(w) BY <2>3
    <3>1. CASE served' = served
          BY <3>1, <1>t DEF Own, TakeJob
    <3>2. CASE pipes[sid[Head(queue).from]] # None
      <4>1. pending[w] = <<>> /\ pending' = pending
            BY <1>t DEF TakeJob, Serving
      <4>2. \A v \in Workers : v # w => served'[v] = served[v]
            BY <3>2, <1>a DEF TakeJob
      <4> QED BY <4>1, <4>2, <1>n, <1>t DEF Own
    <3> QED BY <3>1, <3>2 DEF TakeJob, Forgets
  <2>4. CASE \E w \in Workers : Process(w)
    <3> PICK w \in Workers : Process(w) BY <2>4
    <3> DEFINE p == served[w]
               buf == Append(chunker[p], job[w])
    <3>1. at[w] # "idle" BY DEF Process, Entered
    <3>2. p \in Objs /\ Pipeline(w) = p /\ job[w] \in Packets /\ job[w].from = p
          BY <3>1, <1>t, ServedWorkers
    <3>3. From(p, buf)
      <4>1. chunker[p] \in Seq(Packets) /\ From(p, chunker[p])
            BY <3>2, <1>a, <1>t DEF Own
      <4> QED BY <3>2, <4>1, FromAppend
    <3>4. \/ Finish(w)
          \/ served' = served /\ pending' = [pending EXCEPT ![w] = buf]
          BY <3>2 DEF Process
    <3> HIDE DEF buf
    <3> QED BY <3>3, <3>4, <2>2, <1>a, <1>t DEF Own
  <2> QED BY <2>1, <2>2, <2>3, <2>4 DEF PoolNext, poolVars, workerVars, StoreStep, Register, StartPumps,
             Unregister, Flush, Submit, ReaderTakes, ReaderStops, WorkerStep, ProcessNothing,
             Emit, EmitCancelled, Unlock
<1> QED BY <1>1, <1>2, <1>3 DEF Own

(* A session whose last chunk is out stays as it is.                       *)
LEMMA EndStays ==
  ASSUME PoolIInv, [PoolNext]_poolVars, NEW o \in Objs,
         Done(o), phase[o] = "done", mutex[o] = None
  PROVE  Done(o)' /\ phase'[o] = "done" /\ mutex'[o] = None
<1>t. PoolTypeOK /\ Users /\ Serving
      BY DEF PoolIInv
<1>a. /\ phase \in [Objs -> {"idle", "registered", "pumping", "flushing", "done"}]
      /\ mutex \in [Objs -> Workers \cup {None}]
      BY <1>t DEF PoolTypeOK
<1>1. Done(o)'
      BY <1>t, SessionsGoOn
<1>2. phase'[o] = "done"
  <2>1. CASE UNCHANGED phase
        BY <2>1
  <2>2. CASE CallerAction
        BY <2>2, <1>a DEF CallerAction, Register, StartPumps, Unregister, Flush, ReaderStops,
           callerVars
  <2> QED BY <2>1, <2>2, OtherSteps DEF StoreStep, callerVars
<1>3. mutex'[o] = None
  <2>1. CASE UNCHANGED mutex
        BY <2>1
  <2>2. CASE \E w \in Workers : Process(w)
    <3> PICK w \in Workers : Process(w) BY <2>2
    <3>1. ~Skips(Pipeline(w)) BY DEF Process
    <3>2. Pipeline(w) # o BY <3>1 DEF Skips
    <3> QED BY <3>2, <1>a DEF Process
  <2>3. CASE \E w \in Workers : Unlock(w)
        BY <2>3, <1>a DEF Unlock
  <2> QED BY <2>1, <2>2, <2>3 DEF PoolNext, poolVars, pipeVars, StoreStep, Register, StartPumps,
             Unregister, Flush, Submit, ReaderTakes, ReaderStops, WorkerStep, TakeJob,
             ProcessNothing, Emit, EmitCancelled
<1> QED BY <1>1, <1>2, <1>3

LEMMA EndedStep == PoolIInv /\ [PoolNext]_poolVars => Ended'
<1> SUFFICES ASSUME PoolIInv, [PoolNext]_poolVars, NEW o \in Objs,
                    NEW k \in DOMAIN Conveyed(o)', (Conveyed(o)')[k].last
             PROVE  k = Len(Conveyed(o)') /\ Done(o)' /\ phase'[o] = "done" /\ mutex'[o] = None
    BY DEF Ended
<1>t. PoolTypeOK /\ Users /\ Serving /\ Fresh
      BY DEF PoolIInv
<1>e. \A j \in DOMAIN Conveyed(o) : Conveyed(o)[j].last =>
        j = Len(Conveyed(o)) /\ Done(o) /\ phase[o] = "done" /\ mutex[o] = None
      BY DEF PoolIInv, Ended
<1>0. Conveyed(o) \in Seq(Chunks)
      BY <1>t, ConveyedType
<1>1. CASE Conveyed(o)' = Conveyed(o)
      BY <1>1, <1>e, EndStays
<1>2. ASSUME NEW c, Conveyed(o)' = Append(Conveyed(o), c)
      PROVE  IF k = Len(Conveyed(o)') THEN c.last
             ELSE k \in DOMAIN Conveyed(o) /\ Conveyed(o)[k].last
  <2> DEFINE cs == Conveyed(o)
  <2>1. cs \in Seq(Chunks) /\ k \in DOMAIN Append(cs, c) /\ Append(cs, c)[k].last
        BY <1>0, <1>2
  <2> HIDE DEF cs
  <2>2. IF k = Len(Append(cs, c)) THEN c.last ELSE k \in DOMAIN cs /\ cs[k].last
        BY <2>1
  <2> QED BY <2>2, <1>2 DEF cs
<1>3. CASE \E w \in Workers :
             /\ Emit(w) /\ served[w] = o
             /\ Conveyed(o)' = Append(Conveyed(o), [pcm |-> pending[w], last |-> FALSE])
  <2> PICK w \in Workers :
             /\ Emit(w) /\ served[w] = o
             /\ Conveyed(o)' = Append(Conveyed(o), [pcm |-> pending[w], last |-> FALSE])
      BY <1>3
  <2>1. mutex[o] = w /\ w # None
        BY <1>t DEF Serving, Emit
  <2> QED BY <2>1, <1>2, <1>e
<1>4. CASE /\ Flush(o) /\ chunker[o] # <<>>
           /\ Conveyed(o)' = Append(Conveyed(o), [pcm |-> chunker[o], last |-> TRUE])
  <2>1. phase[o] = "flushing" /\ flushee[o] = o
        BY <1>4, <1>t DEF Flush, Users
  <2>2. Done(o) /\ mutex[o] = None
        BY <2>1, <1>4, <1>t DEF Users, Fresh, Flush
  <2>3. phase'[o] = "done" /\ mutex' = mutex /\ Done(o)'
        BY <2>2, <1>4, <1>t, SessionsGoOn DEF Flush, PoolTypeOK
  <2>4. k = Len(Conveyed(o)')
        BY <2>1, <1>2, <1>4, <1>e
  <2> QED BY <2>2, <2>3, <2>4
<1> QED BY <1>1, <1>3, <1>4, ConveyedStep

-----------------------------------------------------------------------------
(* Packets, and the chunks that are cut from them.                         *)

LEMMA Multiples ==
  /\ \A k \in Nat : k * ChunkPackets \in Nat /\ (k + 1) * ChunkPackets = k * ChunkPackets + ChunkPackets
  /\ \A k \in Nat : \A n \in Nat : k <= n => k * ChunkPackets <= n * ChunkPackets
<1>1. ChunkPackets \in Nat
      OBVIOUS
<1>2. ASSUME NEW k \in Nat
      PROVE  k * ChunkPackets \in Nat /\ (k + 1) * ChunkPackets = k * ChunkPackets + ChunkPackets
      BY <1>1
<1>3. ASSUME NEW k \in Nat, NEW n \in Nat, k <= n
      PROVE  k * ChunkPackets <= n * ChunkPackets
  <2>1. n - k \in Nat /\ n = k + (n - k)
        BY <1>3
  <2>2. n * ChunkPackets = k * ChunkPackets + (n - k) * ChunkPackets
        BY <1>1, <2>1
  <2>3. (n - k) * ChunkPackets \in Nat
        BY <1>1, <2>1
  <2> QED BY <2>2, <2>3, <1>2
<1> QED BY <1>2, <1>3

LEMMA SubSeqOfLonger ==
  ASSUME NEW d \in Seq(Packets), NEW x \in Packets, NEW b \in 0 .. Len(d), NEW a \in 1 .. b + 1
  PROVE  SubSeq(Append(d, x), a, b) = SubSeq(d, a, b)
OBVIOUS

LEMMA SubSeqToEnd ==
  ASSUME NEW d \in Seq(Packets), NEW x \in Packets, NEW a \in 1 .. Len(d) + 1
  PROVE  SubSeq(Append(d, x), a, Len(Append(d, x))) = Append(SubSeq(d, a, Len(d)), x)
<1> DEFINE s == SubSeq(Append(d, x), a, Len(Append(d, x)))
           t == Append(SubSeq(d, a, Len(d)), x)
<1>1. s \in Seq(Packets) /\ t \in Seq(Packets) /\ Len(s) = Len(d) + 2 - a /\ Len(t) = Len(s)
      OBVIOUS
<1>2. \A k \in 1 .. Len(s) : s[k] = t[k]
      OBVIOUS
<1> QED BY <1>1, <1>2, SeqEqual

(* A packet is decoded.                                                    *)
LEMMA IntactDecode ==
  ASSUME NEW d \in Seq(Packets), NEW cs \in Seq(Chunks), NEW rest, NEW x \in Packets,
         Intact(d, cs, rest)
  PROVE  Intact(Append(d, x), cs, Append(rest, x))
<1> DEFINE P(k) == k * ChunkPackets
<1>0. ChunkPackets \in Nat \ {0}
      OBVIOUS
<1>1. \A k \in DOMAIN cs :
        k \in Nat /\ k - 1 \in Nat /\ P(k - 1) \in Nat /\ P(k) = P(k - 1) + ChunkPackets
        /\ P(k) <= P(Len(cs))
  <2> TAKE k \in DOMAIN cs
  <2>1. k \in Nat /\ k - 1 \in Nat /\ k <= Len(cs) /\ Len(cs) \in Nat /\ (k - 1) + 1 = k
        OBVIOUS
  <2> QED BY <2>1, Multiples
<1>2. P(Len(cs)) \in Nat
      BY Multiples
<1>3. /\ \A k \in DOMAIN cs : cs[k].pcm = SubSeq(d, P(k - 1) + 1, P(k))
      /\ rest = SubSeq(d, P(Len(cs)) + 1, Len(d)) /\ P(Len(cs)) <= Len(d)
      BY DEF Intact
<1> HIDE DEF P
<1>4. \A k \in DOMAIN cs : cs[k].pcm = SubSeq(Append(d, x), P(k - 1) + 1, P(k))
  <2> TAKE k \in DOMAIN cs
  <2>0. P(k - 1) \in Nat /\ P(k) = P(k - 1) + ChunkPackets /\ P(k) <= P(Len(cs))
        BY <1>1
  <2>1. P(k) \in 0 .. Len(d) /\ P(k - 1) + 1 \in 1 .. P(k) + 1
    <3>1. P(Len(cs)) <= Len(d) /\ Len(d) \in Nat
          BY <1>3
    <3> DEFINE i == P(k - 1)
               j == P(k)
               m == P(Len(cs))
    <3>2. i \in Nat /\ j = i + ChunkPackets /\ j <= m /\ m \in Nat /\ m <= Len(d)
          BY <2>0, <3>1, <1>2
    <3> HIDE DEF i, j, m
    <3>3. j \in 0 .. Len(d) /\ i + 1 \in 1 .. j + 1
          BY <3>1, <3>2, <1>0
    <3> QED BY <3>3 DEF i, j
  <2>2. SubSeq(Append(d, x), P(k - 1) + 1, P(k)) = SubSeq(d, P(k - 1) + 1, P(k))
        BY <2>1, SubSeqOfLonger
  <2> QED BY <2>2, <1>3
<1>5. Append(rest, x) = SubSeq(Append(d, x), P(Len(cs)) + 1, Len(Append(d, x)))
  <2>1. P(Len(cs)) + 1 \in 1 .. Len(d) + 1
        BY <1>2, <1>3
  <2> QED BY <2>1, <1>3, SubSeqToEnd
<1>6. P(Len(cs)) <= Len(Append(d, x))
      BY <1>2, <1>3
<1> QED BY <1>4, <1>5, <1>6 DEF Intact, P

(* What remains fills a chunk, and goes.                                   *)
LEMMA IntactCut ==
  ASSUME NEW d \in Seq(Packets), NEW cs \in Seq(Chunks), NEW rest, NEW b \in BOOLEAN,
         Intact(d, cs, rest), Len(rest) = ChunkPackets
  PROVE  Intact(d, Append(cs, [pcm |-> rest, last |-> b]), <<>>)
<1> DEFINE P(k) == k * ChunkPackets
           n == Len(cs)
           c == [pcm |-> rest, last |-> b]
<1>0. ChunkPackets \in Nat \ {0} /\ n \in Nat
      OBVIOUS
<1>1. P(n) \in Nat /\ P(n + 1) = P(n) + ChunkPackets
      BY Multiples
<1>2. /\ \A k \in DOMAIN cs : cs[k].pcm = SubSeq(d, P(k - 1) + 1, P(k))
      /\ rest = SubSeq(d, P(n) + 1, Len(d)) /\ P(n) <= Len(d)
      BY DEF Intact
<1> HIDE DEF P
<1>3. Len(d) = P(n + 1)
  <2>1. Len(d) \in Nat /\ P(n) \in Nat /\ P(n) <= Len(d)
        BY <1>1, <1>2
  <2>2. Len(SubSeq(d, P(n) + 1, Len(d))) = Len(d) - P(n)
        BY <2>1
  <2>3. Len(rest) = Len(d) - P(n)
        BY <1>2, <2>2
  <2>4. ChunkPackets = Len(d) - P(n)
        BY <2>3
  <2> QED BY ONLY <2>1, <2>4, <1>0, <1>1
<1>c. c.pcm = rest
      OBVIOUS
<1> HIDE DEF c
<1>4. Len(Append(cs, c)) = n + 1 /\ Append(cs, c)[n + 1] = c
      /\ \A k \in DOMAIN cs : Append(cs, c)[k] = cs[k]
      OBVIOUS
<1>5. \A k \in DOMAIN Append(cs, c) : Append(cs, c)[k].pcm = SubSeq(d, P(k - 1) + 1, P(k))
  <2> SUFFICES ASSUME NEW k \in DOMAIN Append(cs, c)
               PROVE  Append(cs, c)[k].pcm = SubSeq(d, P(k - 1) + 1, P(k))
      OBVIOUS
  <2>1. k \in 1 .. n + 1 /\ DOMAIN cs = 1 .. n
        BY <1>4
  <2>2. CASE k = n + 1
    <3>1. k - 1 = n BY <2>2, <1>0
    <3>2. P(k - 1) = P(n) /\ P(k) = Len(d)
          BY <2>2, <3>1, <1>3
    <3>3. Append(cs, c)[k] = c
          BY <2>2, <1>4
    <3> QED BY <3>2, <3>3, <1>2, <1>c
  <2> QED BY <2>1, <2>2, <1>2, <1>4
<1>6. <<>> = SubSeq(d, P(n + 1) + 1, Len(d))
  <2> DEFINE e == SubSeq(d, Len(d) + 1, Len(d))
  <2>1. e \in Seq(Packets) /\ Len(e) = 0
        OBVIOUS
  <2>2. SubSeq(d, P(n + 1) + 1, Len(d)) = e
        BY <1>3
  <2> HIDE DEF e
  <2>3. e = <<>>
        BY <2>1, EmptySeq
  <2> QED BY <2>2, <2>3
<1>7. /\ <<>> = SubSeq(d, P(Len(Append(cs, c))) + 1, Len(d))
      /\ P(Len(Append(cs, c))) <= Len(d)
      BY <1>0, <1>1, <1>3, <1>4, <1>6
<1>8. Intact(d, Append(cs, c), <<>>)
      BY <1>5, <1>7 DEF Intact, P
<1> QED BY <1>8 DEF c

LEMMA HeldSame ==
  ASSUME NEW o \in Objs, mutex'[o] = mutex[o], chunker'[o] = chunker[o],
         mutex[o] # None => pending'[mutex[o]] = pending[mutex[o]]
  PROVE  Held(o)' = Held(o)
BY DEF Held

LEMMA WholeStep == PoolIInv /\ [PoolNext]_poolVars => Whole'
<1> SUFFICES ASSUME PoolIInv, [PoolNext]_poolVars, NEW o \in Objs, ~Done(o)'
             PROVE  Intact(decoded'[o], Conveyed(o)', Held(o)')
    BY DEF Whole
<1>t. PoolTypeOK /\ Users /\ Serving /\ Fresh /\ Whole
      BY DEF PoolIInv
<1>a. /\ mutex \in [Objs -> Workers \cup {None}]
      /\ pending \in [Workers -> Seq(Packets)]
      /\ chunker \in [Objs -> Seq(Packets)]
      /\ decoded \in [Objs -> Seq(Packets)]
      /\ at \in [Workers -> {"idle", "found", "emit"}]
      BY <1>t DEF PoolTypeOK
<1>0. /\ ~Done(o) /\ Intact(decoded[o], Conveyed(o), Held(o))
      /\ Conveyed(o) \in Seq(Chunks) /\ decoded[o] \in Seq(Packets)
      BY <1>a, <1>t, SessionsGoOn, ConveyedType DEF Whole
<1>1. CASE Conveyed(o)' = Conveyed(o) /\ decoded'[o] = decoded[o] /\ Held(o)' = Held(o)
      BY <1>1, <1>0
<1>2. CASE \E p \in Objs : Flush(p)
  <2> PICK p \in Objs : Flush(p) BY <1>2
  <2>1. flushee[p] = p /\ phase[p] = "flushing" /\ UNCHANGED <<mutex, decoded, pending>>
        BY <1>t DEF Users, Flush, workerVars
  <2>2. chunker'[o] = chunker[o] /\ (p # o \/ chunker[o] = <<>>)
    <3>1. p = o => chunker[o] = <<>>
          BY <2>1, <1>0, <1>t DEF Users, Fresh
    <3> QED BY <2>1, <3>1, <1>a DEF Flush
  <2>3. Conveyed(o)' = Conveyed(o)
    <3>1. heard' = heard /\ audio'[o] = audio[o]
          BY <2>1, <2>2, <1>t DEF Flush, streamVars, PoolTypeOK
    <3> QED BY <3>1 DEF Conveyed
  <2>4. Held(o)' = Held(o)
        BY <2>1, <2>2, HeldSame
  <2> QED BY <2>1, <2>3, <2>4, <1>1
<1>3. CASE \E w \in Workers : Process(w)
  <2> PICK w \in Workers : Process(w) BY <1>3
  <2> DEFINE p == served[w]
             buf == Append(chunker[p], job[w])
  <2>1. at[w] = "found" /\ mutex[p] = None /\ Pipeline(w) = p /\ p \in Objs /\ job[w] \in Packets
        BY <1>t, ServedWorkers DEF Process, Entered
  <2>2. Conveyed(o)' = Conveyed(o)
        BY DEF Process, Conveyed, streamVars
  <2>3. CASE p # o
    <3>1. mutex[o] # None => mutex[o] # w
          BY <2>1, <1>t DEF Serving
    <3>2. decoded'[o] = decoded[o] /\ chunker'[o] = chunker[o] /\ mutex'[o] = mutex[o]
          BY <2>1, <2>3, <1>a DEF Process
    <3>3. mutex[o] # None => pending'[mutex[o]] = pending[mutex[o]]
          BY <3>1, <1>a DEF Process, Finish
    <3> QED BY <2>2, <3>2, <3>3, <1>1, HeldSame
  <2>4. CASE p = o
    <3>1. decoded'[o] = Append(decoded[o], job[w])
          BY <2>1, <2>4, <1>a DEF Process
    <3>2. Held(o) = chunker[o]
          BY <2>1, <2>4 DEF Held
    <3>3. Held(o)' = buf
      <4>1. CASE Full(buf)
        <5>1. mutex'[o] = w /\ pending'[w] = buf /\ w # None
              BY <2>1, <2>4, <4>1, <1>a DEF Process, Holder
        <5> QED BY <5>1 DEF Held
      <4>2. CASE ~Full(buf)
        <5>1. mutex' = mutex /\ chunker'[o] = buf
              BY <2>1, <2>4, <4>2, <1>a DEF Process
        <5> QED BY <5>1, <2>1, <2>4 DEF Held
      <4> QED BY <4>1, <4>2
    <3>4. Intact(Append(decoded[o], job[w]), Conveyed(o), Append(Held(o), job[w]))
      <4> DEFINE d == decoded[o]
                 cs == Conveyed(o)
                 rest == Held(o)
                 x == job[w]
      <4>1. d \in Seq(Packets) /\ cs \in Seq(Chunks) /\ x \in Packets /\ Intact(d, cs, rest)
            BY <2>1, <1>0
      <4> HIDE DEF d, cs, rest, x
      <4>2. Intact(Append(d, x), cs, Append(rest, x))
            BY <4>1, IntactDecode
      <4> QED BY <4>2 DEF d, cs, rest, x
    <3> QED BY <2>2, <2>4, <3>1, <3>2, <3>3, <3>4
  <2> QED BY <2>3, <2>4
<1>4. CASE \E w \in Workers : Finish(w) /\ at[w] = "found" /\ UNCHANGED <<mutex, chunker, decoded, heard, audio>>
  <2> PICK w \in Workers : Finish(w) /\ at[w] = "found" /\ UNCHANGED <<mutex, chunker, decoded, heard, audio>>
      BY <1>4
  <2>1. mutex[o] # None => pending'[mutex[o]] = pending[mutex[o]]
        BY <1>a, <1>t DEF Finish, Serving
  <2>2. Held(o)' = Held(o)
        BY <2>1, HeldSame
  <2> QED BY <2>2, <1>1 DEF Conveyed
<1>5. CASE \E w \in Workers : Emit(w) \/ EmitCancelled(w)
  <2> PICK w \in Workers : Emit(w) \/ EmitCancelled(w) BY <1>5
  <2> DEFINE p == served[w]
  <2>1. /\ at[w] = "emit" /\ Pipeline(w) = p /\ p \in Objs /\ mutex[p] = w /\ w # None
        /\ Len(pending[w]) = ChunkPackets /\ chunker[p] = <<>>
        BY <1>t, ServedWorkers DEF Emit, EmitCancelled, Serving
  <2>2. /\ mutex' = [mutex EXCEPT ![p] = None] /\ pending' = [pending EXCEPT ![w] = <<>>]
        /\ chunker' = chunker /\ decoded' = decoded /\ heard' = heard
        BY <2>1 DEF Emit, EmitCancelled, Unlock, Finish, streamVars
  <2>3. CASE p # o
    <3>1. mutex[o] # None => mutex[o] # w
          BY <2>3, <1>t DEF Serving
    <3>2. Held(o)' = Held(o)
          BY <2>2, <2>3, <3>1, <1>a, HeldSame
    <3>3. audio'[o] = audio[o]
          BY <2>1, <2>3, <1>t DEF Emit, EmitCancelled, PoolTypeOK
    <3> QED BY <2>2, <3>2, <3>3, <1>1 DEF Conveyed
  <2>4. CASE p = o
    <3>1. ~EmitCancelled(w)
          BY <2>1, <2>4, <1>0 DEF EmitCancelled, GivesUp
    <3>2. Emit(w)
          BY <3>1
    <3>3. Conveyed(o)' = Append(Conveyed(o), [pcm |-> pending[w], last |-> FALSE])
      <4>1. audio' = [audio EXCEPT ![o] = Append(@, [pcm |-> pending[w], last |-> FALSE])]
            BY <2>1, <2>4, <3>2 DEF Emit
      <4> DEFINE h == heard[o]
                 a == audio[o]
                 c == [pcm |-> pending[w], last |-> FALSE]
      <4>2. h \in Seq(Chunks) /\ a \in Seq(Chunks) /\ c \in Chunks
            BY <1>a, <1>t DEF PoolTypeOK, Chunks
      <4>3. Conveyed(o)' = h \o Append(a, c)
            BY <4>1, <2>2, <1>t DEF Conveyed, PoolTypeOK
      <4> HIDE DEF h, a, c
      <4>4. h \o Append(a, c) = Append(h \o a, c)
            BY <4>2, AppendJoin
      <4> QED BY <4>3, <4>4 DEF h, a, c, Conveyed
    <3>4. Held(o) = pending[w] /\ Held(o)' = <<>>
          BY <2>1, <2>2, <2>4, <1>a DEF Held
    <3>5. Intact(decoded[o], Append(Conveyed(o), [pcm |-> pending[w], last |-> FALSE]), <<>>)
      <4> DEFINE d == decoded[o]
                 cs == Conveyed(o)
                 rest == pending[w]
      <4>1. d \in Seq(Packets) /\ cs \in Seq(Chunks) /\ Intact(d, cs, rest)
            /\ Len(rest) = ChunkPackets
            BY <2>1, <3>4, <1>0
      <4> HIDE DEF d, cs, rest
      <4>2. Intact(d, Append(cs, [pcm |-> rest, last |-> FALSE]), <<>>)
            BY <4>1, IntactCut
      <4> QED BY <4>2 DEF d, cs, rest
    <3> QED BY <2>2, <3>3, <3>4, <3>5
  <2> QED BY <2>3, <2>4
<1>6. CASE UNCHANGED <<mutex, pending, chunker, decoded, heard, audio>>
  <2>1. Held(o)' = Held(o)
        BY <1>6, HeldSame
  <2> QED BY <2>1, <1>1, <1>6 DEF Conveyed
<1>7. CASE \E p \in Objs : ReaderTakes(p)
  <2>1. Conveyed(o)' = Conveyed(o)
    <3>1. UNCHANGED <<at, phase>>
          BY <1>7 DEF ReaderTakes, workerVars, callerVars
    <3>2. ASSUME NEW w \in Workers, Emit(w) PROVE FALSE
      <4>1. at[w] = "emit" /\ at'[w] = "idle"
            BY <3>2, <1>a DEF Emit, Unlock, Finish
      <4> QED BY <3>1, <4>1
    <3>3. ASSUME Flush(o) PROVE FALSE
      <4>1. phase[o] = "flushing" /\ phase'[o] = "done"
            BY <3>3, <1>t DEF Flush, PoolTypeOK
      <4> QED BY <3>1, <4>1
    <3> QED BY <3>2, <3>3, ConveyedStep
  <2>2. Held(o)' = Held(o) /\ decoded' = decoded
        BY <1>7, HeldSame DEF ReaderTakes, workerVars, pipeVars
  <2> QED BY <2>1, <2>2, <1>1
<1> QED BY <1>2, <1>3, <1>4, <1>5, <1>6, <1>7 DEF PoolNext, poolVars, workerVars, pipeVars, streamVars,
           StoreStep, Register, StartPumps, Unregister, Submit, ReaderStops, WorkerStep, TakeJob,
           ProcessNothing, Entered

-----------------------------------------------------------------------------
(* The inductive invariant of the worker pool, for every number of sessions, *)
(* IDs, workers and packets, every capacity and length of a chunk.         *)
THEOREM WorkerPoolIInv == QuietSpec => []PoolIInv
<1>1. PoolInit => PoolIInv
      BY PoolIInvInit
<1>2. PoolIInv /\ [PoolNext /\ QuietReuse']_poolVars => PoolIInv'
  <2> SUFFICES ASSUME PoolIInv, [PoolNext /\ QuietReuse']_poolVars PROVE PoolIInv'
      OBVIOUS
  <2>1. [PoolNext]_poolVars
        OBVIOUS
  <2>2. QuietReuse'
    <3>1. CASE UNCHANGED poolVars
          BY <3>1 DEF PoolIInv, QuietReuse, Settled, poolVars, storeVars, sharedVars, callerVars
    <3> QED BY <3>1
  <2> QED BY <2>1, <2>2, PoolTypeStep, UsersStep, FreshStep, ServingStep, OwnSoundStep, EndedStep,
             WholeStep DEF PoolIInv
<1> QED BY <1>1, <1>2, PTL DEF QuietSpec

(* The chunk that a worker holds is the one PendingOf finds.               *)
LEMMA PendingHeld ==
  ASSUME PoolTypeOK, Serving, NEW o \in Objs
  PROVE  PendingOf(o) \o chunker[o] = Held(o)
<1>1. CASE mutex[o] = None
  <2>1. Emitting(o) = {}
        BY <1>1 DEF Serving, Emitting
  <2>2. chunker[o] \in Seq(Packets)
        BY DEF PoolTypeOK
  <2> QED BY <1>1, <2>1, <2>2 DEF PendingOf, Held
<1>2. CASE mutex[o] # None
  <2>1. mutex[o] \in Workers /\ at[mutex[o]] = "emit" /\ served[mutex[o]] = o
        BY <1>2 DEF PoolTypeOK, Serving
  <2>2. Emitting(o) = {mutex[o]}
        BY <2>1 DEF Serving, Emitting
  <2>3. chunker[o] = <<>>
        BY <2>1 DEF Serving
  <2>5. PendingOf(o) = pending[mutex[o]]
    <3>1. (CHOOSE w \in {mutex[o]} : TRUE) = mutex[o]
          OBVIOUS
    <3> QED BY <2>2, <3>1 DEF PendingOf
  <2>4. pending[mutex[o]] \in Seq(Packets)
        BY <2>1 DEF PoolTypeOK
  <2> QED BY <1>2, <2>3, <2>4, <2>5 DEF Held
<1> QED BY <1>1, <1>2

(* Whichever workers handle the packets of a session, the sound decoded for *)
(* it is its own, complete and in order, in chunks of the length that was   *)
(* configured, and nothing comes after the chunk that ends it.             *)
THEOREM SoundIsIntact == QuietSpec => []WorkerPoolInv
<1>1. PoolIInv => WorkerPoolInv
  <2> SUFFICES ASSUME PoolIInv PROVE WorkerPoolInv
      OBVIOUS
  <2>1. AudioIntact
    <3> SUFFICES ASSUME NEW o \in Objs, ~Done(o)
                 PROVE  Intact(decoded[o], Conveyed(o), PendingOf(o) \o chunker[o])
        BY DEF AudioIntact, Intact
    <3> QED BY PendingHeld DEF PoolIInv, Whole
  <2>2. OwnSound
        BY DEF PoolIInv, Own, From, OwnSound
  <2>3. EndIsLast
        BY DEF PoolIInv, Ended, EndIsLast
  <2> QED BY <2>1, <2>2, <2>3 DEF PoolIInv, WorkerPoolInv
<1> QED BY <1>1, WorkerPoolIInv, PTL
=============================================================================
