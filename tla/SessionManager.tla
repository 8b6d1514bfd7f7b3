--------------------------- MODULE SessionManager ---------------------------
(***************************************************************************)
(* internal/session: the Manager that owns every media session, the four   *)
(* routing indices it keeps beside its map, the Session status machine and *)
(* the idle collector (gc).                                                *)
(*                                                                         *)
(* One action is one critical section of Manager.mu or Session.mu, or one  *)
(* unlocked statement with a visible effect.  Close is therefore four      *)
(* actions (the locked part, then cancel, the CLOSED status and the        *)
(* counter), run by an API handler or by the collector, and the collector  *)
(* is three (tick, scan under the read lock, Close of one expired ID).     *)
(*                                                                         *)
(* A session object outlives its entry in the map: the goroutines of the   *)
(* session keep the pointer, so Touch may hit an object at any time after  *)
(* its creation.                                                           *)
(*                                                                         *)
(* A definition X_Bug is X with a bug that the runs are known to find; no  *)
(* action uses it.                                                         *)
(***************************************************************************)
EXTENDS Naturals, FiniteSets

CONSTANTS
  Objs,         \* session objects; a Create that succeeds consumes one
  IDs,          \* session IDs
  Kinds,        \* the routing indices; the code has ssrc, addr, peer, track
  Keys,         \* values of SSRC / RemoteAddr / PeerID / TrackID
  None,         \* no object, no ID, no key, no tick (0, "" or nil in the code)
  MaxSessions,  \* ManagerConfig.MaxSessions
  IdleTimeout,  \* ManagerConfig.IdleTimeout, in clock units
  MaxClock      \* bound: the clock stops there

ASSUME ManagerAssumption ==
  /\ None \notin Objs \cup IDs \cup Keys \cup Nat
  /\ "addr" \in Kinds
  /\ MaxSessions \in Nat
  /\ IdleTimeout \in Nat
  /\ MaxClock \in Nat

VARIABLES
  sessions,     \* Manager.sessions: ID -> object
  index,        \* ssrcIndex, addrIndex, peerIndex, trackIndex: key -> ID
  created,      \* Manager.createdTotal
  closed,       \* Manager.closedTotal
  sid,          \* Session.ID
  key,          \* Session.SSRC, RemoteAddr, PeerID, TrackID
  status,       \* Session.status; "ABSENT" before the object exists
  last,         \* Session.lastPacketAt
  ctx,          \* Session.Ctx: "live" or "done"
  closer,       \* progress of the one Close call that unlinked the object
  clock,        \* time.Now()
  tick,         \* value waiting in the GC ticker's channel (capacity 1)
  expired,      \* gc: IDs found idle by the scan and not closed yet
  reaping       \* gc: the object whose Close the collector is executing

managerVars == <<sessions, index, created, closed>>
sessionVars == <<sid, key, status, last, ctx, closer>>
gcVars == <<tick, expired, reaping>>
vars == <<managerVars, sessionVars, clock, gcVars>>

Statuses == {"ABSENT", "CREATED", "ACTIVE", "CLOSING", "CLOSED"}
CloserSteps == {"none", "cancel", "mark", "count", "done"}

Live == {i \in IDs : sessions[i] # None}

TypeOK ==
  /\ sessions \in [IDs -> Objs \cup {None}]
  /\ index \in [Kinds -> [Keys -> IDs \cup {None}]]
  /\ created \in Nat
  /\ closed \in Nat
  /\ sid \in [Objs -> IDs \cup {None}]
  /\ key \in [Objs -> [Kinds -> Keys \cup {None}]]
  /\ status \in [Objs -> Statuses]
  /\ last \in [Objs -> Nat]
  /\ ctx \in [Objs -> {"live", "done"}]
  /\ closer \in [Objs -> CloserSteps]
  /\ clock \in Nat
  /\ tick \in Nat \cup {None}
  /\ expired \in SUBSET IDs
  /\ reaping \in Objs \cup {None}

Init ==
  /\ sessions = [i \in IDs |-> None]
  /\ index = [k \in Kinds |-> [v \in Keys |-> None]]
  /\ created = 0
  /\ closed = 0
  /\ sid = [o \in Objs |-> None]
  /\ key = [o \in Objs |-> [k \in Kinds |-> None]]
  /\ status = [o \in Objs |-> "ABSENT"]
  /\ last = [o \in Objs |-> 0]
  /\ ctx = [o \in Objs |-> "live"]
  /\ closer = [o \in Objs |-> "none"]
  /\ clock = 0
  /\ tick = None
  /\ expired = {}
  /\ reaping = None

-----------------------------------------------------------------------------
(* The routing indices.  An entry is written whatever session held the key *)
(* before, and deleted by key, whatever session it points to.              *)

IndexWith(ks, i) ==
  [k \in Kinds |-> [v \in Keys |-> IF ks[k] = v THEN i ELSE index[k][v]]]

IndexWithout_Kept(ks) == index
IndexWithout_AnyKind(ks) ==
  [k \in Kinds |-> [v \in Keys |-> IF \E j \in Kinds : ks[j] = v THEN None ELSE index[k][v]]]
IndexWithout(ks) ==
  [k \in Kinds |-> [v \in Keys |-> IF ks[k] = v THEN None ELSE index[k][v]]]

-----------------------------------------------------------------------------
(* Operations.                                                             *)

RoomLeft_OffByOne == Cardinality(Live) <= MaxSessions
RoomLeft == Cardinality(Live) < MaxSessions

Create(o, i, ks) ==
  /\ status[o] = "ABSENT"
  /\ RoomLeft                                            \* ErrMaxSessions
  /\ sessions[i] = None                                  \* ErrDuplicateID
  /\ sessions' = [sessions EXCEPT ![i] = o]
  /\ index' = IndexWith(ks, i)
  /\ created' = created + 1
  /\ sid' = [sid EXCEPT ![o] = i]
  /\ key' = [key EXCEPT ![o] = ks]
  /\ status' = [status EXCEPT ![o] = "CREATED"]
  /\ last' = [last EXCEPT ![o] = clock]
  /\ UNCHANGED <<closed, ctx, closer, clock, gcVars>>

(* The part of Close(id) under Manager.mu. *)
CloseLocked(o) ==
  /\ status' = [status EXCEPT ![o] = "CLOSING"]
  /\ sessions' = [sessions EXCEPT ![sid[o]] = None]
  /\ index' = IndexWithout(key[o])
  /\ closer' = [closer EXCEPT ![o] = "cancel"]
  /\ UNCHANGED <<created, closed, sid, key, last, ctx, clock, tick>>

(* Close(id) called by a handler of the control plane. *)
Close(i) ==
  /\ sessions[i] # None
  /\ CloseLocked(sessions[i])
  /\ UNCHANGED <<expired, reaping>>

(* The part of Close after Manager.mu is released, one statement a step. *)
CloseCancel(o) ==
  /\ closer[o] = "cancel"
  /\ ctx' = [ctx EXCEPT ![o] = "done"]
  /\ closer' = [closer EXCEPT ![o] = "mark"]
  /\ UNCHANGED <<managerVars, sid, key, status, last, clock, gcVars>>

CloseMark_Uncounted(o) ==
  /\ closer[o] = "mark"
  /\ status' = [status EXCEPT ![o] = "CLOSED"]
  /\ closer' = [closer EXCEPT ![o] = "done"]
  /\ UNCHANGED <<managerVars, sid, key, last, ctx, clock, gcVars>>

CloseMark(o) ==
  /\ closer[o] = "mark"
  /\ status' = [status EXCEPT ![o] = "CLOSED"]
  /\ closer' = [closer EXCEPT ![o] = "count"]
  /\ UNCHANGED <<managerVars, sid, key, last, ctx, clock, gcVars>>

CloseCount(o) ==
  /\ closer[o] = "count"
  /\ closed' = closed + 1
  /\ closer' = [closer EXCEPT ![o] = "done"]
  /\ UNCHANGED <<sessions, index, created, sid, key, status, last, ctx,
                 clock, gcVars>>

(* Update with a RemoteAddr; the other fields of the patch are not kept here. *)
Update(i, v) ==
  LET o == sessions[i]
      old == [k \in Kinds |-> IF k = "addr" THEN key[o][k] ELSE None]
  IN
  /\ o # None                                            \* ErrNotFound
  /\ v # key[o]["addr"]
  /\ key' = [key EXCEPT ![o]["addr"] = v]
  /\ index' = [IndexWithout(old) EXCEPT !["addr"][v] = i]
  /\ UNCHANGED <<sessions, created, closed, sid, status, last, ctx, closer,
                 clock, gcVars>>

(* The status a packet leaves behind. *)
Touched_Reopens(s) == "ACTIVE"
Touched_Idle(s) == IF s = "ACTIVE" THEN "IDLE" ELSE "ACTIVE"
Touched(s) == IF s = "CREATED" THEN "ACTIVE" ELSE s

(* Touch, called by the session's packet pump for every packet. *)
Touch(o) ==
  /\ status[o] # "ABSENT"
  /\ last' = [last EXCEPT ![o] = clock]
  /\ status' = [status EXCEPT ![o] = Touched(@)]
  /\ UNCHANGED <<managerVars, sid, key, ctx, closer, clock, gcVars>>

-----------------------------------------------------------------------------
(* The idle collector: Run's ticker loop and gc.                           *)

Idle(o, now) ==
  /\ status[o] \notin {"CLOSING", "CLOSED"}
  /\ now > last[o] + IdleTimeout

(* The ticker drops a tick when the previous one was not consumed. *)
GCTick ==
  /\ tick = None
  /\ tick' = clock
  /\ UNCHANGED <<managerVars, sessionVars, clock, expired, reaping>>

GCFree_Stuck == reaping = None
GCFree == reaping # None => closer[reaping] = "done"

(* gc(t): the scan, under the read lock. *)
GCScan ==
  /\ tick # None
  /\ expired = {}
  /\ GCFree
  /\ expired' = {i \in Live : Idle(sessions[i], tick)}
  /\ tick' = None
  /\ reaping' = None
  /\ UNCHANGED <<managerVars, sessionVars, clock>>

(* gc(t): Close of one expired ID, by ID; false when nothing has that ID. *)
GCClose(i) ==
  /\ i \in expired
  /\ GCFree
  /\ expired' = expired \ {i}
  /\ \/ /\ sessions[i] # None
        /\ CloseLocked(sessions[i])
        /\ reaping' = sessions[i]
     \/ /\ sessions[i] = None
        /\ UNCHANGED <<managerVars, sessionVars, clock, tick, reaping>>

TimePasses ==
  /\ clock < MaxClock
  /\ clock' = clock + 1
  /\ UNCHANGED <<managerVars, sessionVars, gcVars>>

-----------------------------------------------------------------------------

Next ==
  \/ \E o \in Objs, i \in IDs, ks \in [Kinds -> Keys \cup {None}] :
        Create(o, i, ks)
  \/ \E i \in IDs : Close(i)
  \/ \E o \in Objs : CloseCancel(o)
  \/ \E o \in Objs : CloseMark(o)
  \/ \E o \in Objs : CloseCount(o)
  \/ \E i \in IDs, v \in Keys : Update(i, v)
  \/ \E o \in Objs : Touch(o)
  \/ GCTick
  \/ GCScan
  \/ \E i \in IDs : GCClose(i)
  \/ TimePasses

Spec == Init /\ [][Next]_vars

(* A Close call runs to its end, and the collector keeps ticking, scanning and *)
(* closing: each is a goroutine that is never blocked for good.  Nothing obliges *)
(* a client to create, touch, update or close, nor the clock to advance.       *)
Fairness ==
  /\ \A o \in Objs : WF_vars(CloseCancel(o) \/ CloseMark(o) \/ CloseCount(o))
  /\ WF_vars(GCTick)
  /\ WF_vars(GCScan)
  /\ \A i \in IDs : WF_vars(GCClose(i))

FairSpec == Spec /\ Fairness

(* The deployments in which no two open sessions are given the same key.       *)
KeysUnique ==
  \A i, j \in Live, k \in Kinds :
    /\ key[sessions[i]][k] # None
    /\ key[sessions[i]][k] = key[sessions[j]][k]
    => i = j

UniqueKeysSpec == Init /\ [][Next /\ KeysUnique']_vars

-----------------------------------------------------------------------------
(* Properties.                                                             *)

(* The map holds, under its own ID, every session that is open and none that  *)
(* is not: what Get returns has a live context and was not closed, and a       *)
(* session that is still open can be found and closed.                         *)
MapHoldsOpenSessions ==
  /\ \A i \in Live :
       LET o == sessions[i] IN
       /\ sid[o] = i
       /\ status[o] \in {"CREATED", "ACTIVE"}
       /\ ctx[o] = "live"
       /\ closer[o] = "none"
  /\ \A o \in Objs :
       status[o] \in {"CREATED", "ACTIVE"} => sid[o] \in IDs /\ sessions[sid[o]] = o

(* How far the Close call of an object is decides its status and context.       *)
CloserOrder ==
  \A o \in Objs :
    /\ closer[o] = "none" <=> status[o] \in {"ABSENT", "CREATED", "ACTIVE"}
    /\ closer[o] \in {"none", "cancel"} <=> ctx[o] = "live"
    /\ closer[o] \in {"cancel", "mark"} <=> status[o] = "CLOSING"

(* A routing index never leads to a closed session, nor to a session that does *)
(* not have the key looked up, whatever keys sessions share or exchange by     *)
(* Update, and whatever IDs are used again.                                    *)
IndexSound ==
  \A k \in Kinds, v \in Keys :
    index[k][v] # None =>
      /\ sessions[index[k][v]] # None
      /\ key[sessions[index[k][v]]][k] = v

(* The map, the indices and the progress of each Close agree: what the properties *)
(* of the manager rest on. Type, map and indices alone are not inductive: without *)
(* CloserOrder a CLOSED status says nothing of the map.                           *)
IInv == TypeOK /\ MapHoldsOpenSessions /\ CloserOrder /\ IndexSound

(* Where keys are unique, every open session is reachable by each of its keys: *)
(* closing or moving another session never removes its entry.                  *)
IndexComplete ==
  \A i \in Live, k \in Kinds :
    LET v == key[sessions[i]][k] IN v # None => index[k][v] = i

HasKey(i, k, v) == i \in Live /\ key[sessions[i]][k] = v

(* An open session loses a routing entry only to a session that has the same   *)
(* key: one that is given it now, or one that is closed or moved and whose     *)
(* entry this was before.  Closing, moving or creating a session with other    *)
(* keys, or another kind of key, takes nothing from it.                        *)
EntriesKept ==
  [][\A i \in IDs, k \in Kinds, v \in Keys :
       HasKey(i, k, v) /\ index[k][v] = i /\ HasKey(i, k, v)' /\ sessions'[i] = sessions[i]
       => \/ index'[k][v] = i
          \/ \E j \in IDs \ {i} : HasKey(j, k, v) \/ HasKey(j, k, v)']_vars

(* Create never lets more than MaxSessions sessions be open.                   *)
Capacity == Cardinality(Live) <= MaxSessions

Closing == {o \in Objs : closer[o] \in {"cancel", "mark", "count"}}

(* The two totals account for every session: created minus closed is the       *)
(* sessions open plus the Close calls in progress.                             *)
Accounting == created = closed + Cardinality(Live) + Cardinality(Closing)

(* The counts of the manager are right while Closes overlap with each other   *)
(* and with Create: the capacity holds and no session is missed or counted    *)
(* twice.                                                                      *)
Counts == Capacity /\ Accounting

(* The session as the rest of the gateway sees it: the stages of SessionStore. *)
Stage(o) ==
  CASE status[o] = "ABSENT" -> "absent"
    [] status[o] \in {"CREATED", "ACTIVE"} -> "open"
    [] status[o] \in {"CLOSING", "CLOSED"} /\ ctx[o] = "live" -> "unlinked"
    [] OTHER -> "ended"

Store == INSTANCE SessionStore WITH stage <- [o \in Objs |-> Stage(o)]

(* The manager, with its indices, locks and collector, implements SessionStore:*)
(* one open session per ID, at most MaxSessions, and no session ever comes     *)
(* back, in particular not by a late Touch.                                    *)
ImplementsStore == Store!StoreSpec

(* A session that stays idle is collected: from any state in which an open     *)
(* session is past IdleTimeout, it is closed or touched.                       *)
IdleCollected ==
  \A o \in Objs :
    (status[o] # "ABSENT" /\ Idle(o, clock)) ~> ~Idle(o, clock)
=============================================================================
