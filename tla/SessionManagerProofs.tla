------------------------ MODULE SessionManagerProofs ------------------------
(***************************************************************************)
(* What SessionManager guarantees for every number of sessions, IDs, keys  *)
(* and indices, every capacity and every idle timeout.                     *)
(*                                                                         *)
(* The inductive invariant adds to the checked invariants the line a Close *)
(* call follows (CloserOrder): without it nothing tells that an object     *)
(* whose status is CLOSED has left the map for good.                       *)
(***************************************************************************)
EXTENDS SessionManager, TLAPS, FiniteSetTheorems

(* A fresh manager (NewManager) is well typed.                             *)
LEMMA TypeInit == Init => TypeOK
  BY ManagerAssumption DEF Init, TypeOK, Statuses, CloserSteps

(* Every operation of the manager, Create, Close, Update, Touch and gc,    *)
(* keeps its state well typed.                                             *)
LEMMA TypeStep == TypeOK /\ [Next]_vars => TypeOK'
<1> SUFFICES ASSUME TypeOK, [Next]_vars PROVE TypeOK'
  OBVIOUS
<1> USE ManagerAssumption DEF TypeOK, Statuses, CloserSteps
<1>1. ASSUME NEW o \in Objs, NEW i \in IDs, NEW ks \in [Kinds -> Keys \cup {None}],
             Create(o, i, ks)
      PROVE  TypeOK'
  BY <1>1 DEF Create, RoomLeft, IndexWith, gcVars
<1>2. ASSUME NEW o \in Objs, CloseLocked(o),
             expired' \in SUBSET IDs, reaping' \in Objs \cup {None}
      PROVE  TypeOK'
  BY <1>2 DEF CloseLocked, IndexWithout
<1>3. ASSUME NEW i \in IDs, Close(i)
      PROVE  TypeOK'
  BY <1>2, <1>3 DEF Close
<1>4. ASSUME NEW o \in Objs, CloseCancel(o) \/ CloseMark(o) \/ CloseCount(o) \/ Touch(o)
      PROVE  TypeOK'
  <2>1. CASE CloseCancel(o)
    BY <2>1 DEF CloseCancel, managerVars, gcVars
  <2>2. CASE CloseMark(o)
    BY <2>2 DEF CloseMark, managerVars, gcVars
  <2>3. CASE CloseCount(o)
    BY <2>3 DEF CloseCount, gcVars
  <2>4. CASE Touch(o)
    BY <2>4 DEF Touch, Touched, managerVars, gcVars
  <2> QED
    BY <1>4, <2>1, <2>2, <2>3, <2>4
<1>5. ASSUME NEW i \in IDs, NEW v \in Keys, Update(i, v)
      PROVE  TypeOK'
  <2> DEFINE old == [k \in Kinds |-> IF k = "addr" THEN key[sessions[i]][k] ELSE None]
  <2>1. sessions[i] \in Objs
    BY <1>5 DEF Update
  <2>2. IndexWithout(old) \in [Kinds -> [Keys -> IDs \cup {None}]]
    BY DEF IndexWithout
  <2>3. index' \in [Kinds -> [Keys -> IDs \cup {None}]]
    <3> DEFINE w == IndexWithout(old)
    <3>1. index' = [w EXCEPT !["addr"][v] = i]
      BY <1>5 DEF Update
    <3>2. w \in [Kinds -> [Keys -> IDs \cup {None}]]
      BY <2>2
    <3> HIDE DEF w
    <3> QED
      BY <1>5, <3>1, <3>2
  <2>4. key' \in [Objs -> [Kinds -> Keys \cup {None}]]
    BY <1>5, <2>1 DEF Update
  <2> QED
    BY <1>5, <2>3, <2>4 DEF Update, gcVars
<1>6. CASE GCTick \/ GCScan \/ TimePasses
  BY <1>6 DEF GCTick, GCScan, TimePasses, Live, managerVars, sessionVars, gcVars
<1>7. ASSUME NEW i \in IDs, GCClose(i)
      PROVE  TypeOK'
  <2>1. expired' \in SUBSET IDs
    BY <1>7 DEF GCClose
  <2>2. CASE sessions[i] # None
    BY <1>2, <1>7, <2>1, <2>2 DEF GCClose
  <2>3. CASE sessions[i] = None
    BY <1>7, <2>1, <2>3 DEF GCClose, managerVars, sessionVars
  <2> QED
    BY <2>2, <2>3
<1>8. CASE UNCHANGED vars
  BY <1>8 DEF vars, managerVars, sessionVars, gcVars
<1> QED
  BY <1>1, <1>3, <1>4, <1>5, <1>6, <1>7, <1>8 DEF Next

(* Every reachable state is well typed.                                    *)
THEOREM TypeCorrect == Spec => []TypeOK
  BY TypeInit, TypeStep, PTL DEF Spec

-----------------------------------------------------------------------------
(* The map, the routing indices and the order of a Close.                  *)

(* A fresh manager has an empty map, empty indices and no Close under way. *)
LEMMA IInvInit == Init => IInv
<1> SUFFICES ASSUME Init PROVE IInv
  OBVIOUS
<1>1. TypeOK
  BY TypeInit
<1>2. MapHoldsOpenSessions /\ CloserOrder /\ IndexSound
  BY ManagerAssumption DEF Init, MapHoldsOpenSessions, CloserOrder, IndexSound, Live
<1> QED
  BY <1>1, <1>2 DEF IInv

(* An open session leaves the map together with its index entries.         *)
LEMMA CloseLockedStep ==
  ASSUME IInv, NEW i \in IDs, sessions[i] # None, CloseLocked(sessions[i])
  PROVE  (MapHoldsOpenSessions /\ CloserOrder /\ IndexSound)'
<1> DEFINE o == sessions[i]
<1> USE DEF IInv, TypeOK
<1>1. /\ o \in Objs
      /\ sid[o] = i
      /\ closer[o] = "none"
      /\ ctx[o] = "live"
  BY DEF MapHoldsOpenSessions, Live
<1>2. /\ status' = [status EXCEPT ![o] = "CLOSING"]
      /\ sessions' = [sessions EXCEPT ![i] = None]
      /\ closer' = [closer EXCEPT ![o] = "cancel"]
      /\ UNCHANGED <<sid, key, ctx>>
  BY <1>1 DEF CloseLocked
<1>3. \A j \in IDs : j # i => sessions[j] # o
  BY <1>1, ManagerAssumption DEF MapHoldsOpenSessions, Live
<1>4. MapHoldsOpenSessions'
  BY <1>1, <1>2, <1>3, ManagerAssumption DEF MapHoldsOpenSessions, Live
<1>5. CloserOrder'
  BY <1>1, <1>2 DEF CloserOrder
<1>6. IndexSound'
  <2> SUFFICES ASSUME NEW k \in Kinds, NEW v \in Keys, index'[k][v] # None
               PROVE  /\ sessions'[index'[k][v]] # None
                      /\ key'[sessions'[index'[k][v]]][k] = v
    BY DEF IndexSound
  <2>1. key[o][k] # v /\ index'[k][v] = index[k][v]
    BY <1>1 DEF CloseLocked, IndexWithout
  <2>2. /\ index[k][v] \in IDs
        /\ sessions[index[k][v]] # None
        /\ key[sessions[index[k][v]]][k] = v
    BY <2>1 DEF IndexSound
  <2>3. index[k][v] # i
    BY <2>1, <2>2
  <2> QED
    BY <1>2, <2>1, <2>2, <2>3
<1> QED
  BY <1>4, <1>5, <1>6

(* Every operation of the manager keeps the map, the routing indices and   *)
(* the order of each Close in agreement.                                   *)
LEMMA IInvStep == IInv /\ [Next]_vars => IInv'
<1> SUFFICES ASSUME IInv, [Next]_vars PROVE IInv'
  OBVIOUS
<1>0. TypeOK'
  BY TypeStep DEF IInv
<1> SUFFICES (MapHoldsOpenSessions /\ CloserOrder /\ IndexSound)'
  BY <1>0 DEF IInv
<1>1. ASSUME NEW o \in Objs, NEW i \in IDs, NEW ks \in [Kinds -> Keys \cup {None}],
             Create(o, i, ks)
      PROVE  (MapHoldsOpenSessions /\ CloserOrder /\ IndexSound)'
  <2> USE ManagerAssumption DEF IInv, TypeOK, Statuses
  <2>1. /\ status[o] = "ABSENT"
        /\ sessions[i] = None
        /\ sessions' = [sessions EXCEPT ![i] = o]
        /\ sid' = [sid EXCEPT ![o] = i]
        /\ key' = [key EXCEPT ![o] = ks]
        /\ status' = [status EXCEPT ![o] = "CREATED"]
        /\ UNCHANGED <<ctx, closer>>
    BY <1>1 DEF Create, RoomLeft
  <2>2. \A j \in IDs : sessions[j] # o
    <3>1. ASSUME NEW j \in IDs, sessions[j] = o
          PROVE  FALSE
      <4>1. sessions[j] # None
        BY <3>1, ManagerAssumption
      <4>2. status[sessions[j]] \in {"CREATED", "ACTIVE"}
        BY <4>1 DEF MapHoldsOpenSessions, Live
      <4> QED
        BY <2>1, <3>1, <4>2
    <3> QED
      BY <3>1
  <2>3. closer[o] = "none" /\ ctx[o] = "live"
    BY <2>1 DEF CloserOrder
  <2>4. MapHoldsOpenSessions'
    BY <2>1, <2>2, <2>3 DEF MapHoldsOpenSessions, Live
  <2>5. CloserOrder'
    BY <2>1, <2>3 DEF CloserOrder
  <2>6. IndexSound'
    <3> SUFFICES ASSUME NEW k \in Kinds, NEW v \in Keys, index'[k][v] # None
                 PROVE  /\ sessions'[index'[k][v]] # None
                        /\ key'[sessions'[index'[k][v]]][k] = v
      BY DEF IndexSound
    <3>1. index'[k][v] = IF ks[k] = v THEN i ELSE index[k][v]
      BY <1>1 DEF Create, RoomLeft, IndexWith
    <3>2. CASE ks[k] = v
      BY <2>1, <3>1, <3>2
    <3>3. CASE ks[k] # v
      <4>1. /\ index[k][v] \in IDs
            /\ sessions[index[k][v]] # None
            /\ key[sessions[index[k][v]]][k] = v
        BY <3>1, <3>3 DEF IndexSound
      <4>2. index[k][v] # i /\ sessions[index[k][v]] # o
        BY <2>1, <2>2, <4>1
      <4> QED
        BY <2>1, <3>1, <3>3, <4>1, <4>2
    <3> QED
      BY <3>2, <3>3
  <2> QED
    BY <2>4, <2>5, <2>6
<1>2. ASSUME NEW i \in IDs, Close(i)
      PROVE  (MapHoldsOpenSessions /\ CloserOrder /\ IndexSound)'
  BY <1>2, CloseLockedStep DEF Close
<1>3. ASSUME NEW o \in Objs, CloseCancel(o) \/ CloseMark(o) \/ CloseCount(o)
      PROVE  (MapHoldsOpenSessions /\ CloserOrder /\ IndexSound)'
  <2> USE ManagerAssumption DEF IInv, TypeOK, Statuses, CloserSteps
  <2>1. /\ UNCHANGED <<sessions, index, key, sid>>
        /\ closer[o] \in {"cancel", "mark", "count"}
        /\ closer' = [closer EXCEPT ![o] = CASE closer[o] = "cancel" -> "mark"
                                             [] closer[o] = "mark" -> "count"
                                             [] OTHER -> "done"]
        /\ ctx' = [ctx EXCEPT ![o] = "done"]
        /\ status' = [status EXCEPT ![o] = IF closer[o] = "cancel" THEN "CLOSING" ELSE "CLOSED"]
    <3>1. CASE CloseCancel(o)
      BY <3>1 DEF CloseCancel, managerVars, CloserOrder
    <3>2. CASE CloseMark(o)
      BY <3>2 DEF CloseMark, managerVars, CloserOrder
    <3>3. CASE CloseCount(o)
      BY <3>3 DEF CloseCount, CloserOrder
    <3> QED
      BY <1>3, <3>1, <3>2, <3>3
  <2>2. \A j \in IDs : sessions[j] # o
    BY <2>1 DEF MapHoldsOpenSessions, Live
  <2>3. MapHoldsOpenSessions'
    BY <2>1, <2>2 DEF MapHoldsOpenSessions, Live
  <2>4. CloserOrder'
    BY <2>1 DEF CloserOrder
  <2>5. IndexSound'
    BY <2>1 DEF IndexSound
  <2> QED
    BY <2>3, <2>4, <2>5
<1>4. ASSUME NEW i \in IDs, NEW v \in Keys, Update(i, v)
      PROVE  (MapHoldsOpenSessions /\ CloserOrder /\ IndexSound)'
  <2> DEFINE o == sessions[i]
             old == [k \in Kinds |-> IF k = "addr" THEN key[o][k] ELSE None]
  <2> USE ManagerAssumption DEF IInv, TypeOK
  <2>1. /\ o \in Objs
        /\ key' = [key EXCEPT ![o]["addr"] = v]
        /\ index' = [IndexWithout(old) EXCEPT !["addr"][v] = i]
        /\ UNCHANGED <<sessions, sid, status, ctx, closer>>
    BY <1>4 DEF Update
  <2>2. MapHoldsOpenSessions' /\ CloserOrder'
    BY <2>1 DEF MapHoldsOpenSessions, CloserOrder, Live
  <2>3. IndexSound'
    <3> SUFFICES ASSUME NEW k \in Kinds, NEW w \in Keys, index'[k][w] # None
                 PROVE  /\ sessions'[index'[k][w]] # None
                        /\ key'[sessions'[index'[k][w]]][k] = w
      BY DEF IndexSound
    <3>1. index'[k][w] = IF k = "addr" /\ w = v THEN i ELSE IndexWithout(old)[k][w]
      <4> DEFINE ix == IndexWithout(old)
      <4>1. ix \in [Kinds -> [Keys -> IDs \cup {None}]]
        BY DEF IndexWithout
      <4>2. index' = [ix EXCEPT !["addr"][v] = i]
        BY <2>1
      <4> HIDE DEF ix
      <4>3. index'[k][w] = IF k = "addr" /\ w = v THEN i ELSE ix[k][w]
        BY <1>4, <4>1, <4>2
      <4> QED
        BY <4>3 DEF ix
    <3>2. CASE k = "addr" /\ w = v
      <4>1. key'[o]["addr"] = v
        BY <2>1
      <4>2. index'[k][w] = i
        BY <3>1, <3>2
      <4> QED
        BY <2>1, <3>2, <4>1, <4>2
    <3>3. CASE ~(k = "addr" /\ w = v)
      <4>1. /\ ~(k = "addr" /\ key[o][k] = w)
            /\ index'[k][w] = index[k][w]
        BY <3>1, <3>3 DEF IndexWithout
      <4>2. /\ index[k][w] \in IDs
            /\ sessions[index[k][w]] \in Objs
            /\ key[sessions[index[k][w]]][k] = w
        BY <4>1 DEF IndexSound
      <4>3. key'[sessions[index[k][w]]][k] = key[sessions[index[k][w]]][k]
        BY <2>1, <4>1, <4>2
      <4> QED
        BY <2>1, <4>1, <4>2, <4>3
    <3> QED
      BY <3>2, <3>3
  <2> QED
    BY <2>2, <2>3
<1>5. ASSUME NEW o \in Objs, Touch(o)
      PROVE  (MapHoldsOpenSessions /\ CloserOrder /\ IndexSound)'
  <2> USE ManagerAssumption DEF IInv, TypeOK
  <2>1. /\ UNCHANGED <<sessions, index, key, sid, ctx, closer>>
        /\ status[o] # "ABSENT"
        /\ status' = [status EXCEPT ![o] = IF status[o] = "CREATED" THEN "ACTIVE" ELSE status[o]]
    BY <1>5 DEF Touch, Touched, managerVars
  <2> QED
    BY <2>1 DEF MapHoldsOpenSessions, CloserOrder, IndexSound, Live
<1>6. CASE GCTick \/ GCScan \/ TimePasses \/ UNCHANGED vars
  <2>1. UNCHANGED <<sessions, index, key, sid, status, ctx, closer>>
    BY <1>6 DEF GCTick, GCScan, TimePasses, vars, managerVars, sessionVars
  <2> QED
    BY <2>1 DEF IInv, MapHoldsOpenSessions, CloserOrder, IndexSound, Live
<1>7. ASSUME NEW i \in IDs, GCClose(i)
      PROVE  (MapHoldsOpenSessions /\ CloserOrder /\ IndexSound)'
  <2>1. CASE sessions[i] # None
    BY <1>7, <2>1, CloseLockedStep DEF GCClose
  <2>2. CASE sessions[i] = None
    <3>1. UNCHANGED <<sessions, index, key, sid, status, ctx, closer>>
      BY <1>7, <2>2 DEF GCClose, managerVars, sessionVars
    <3> QED
      BY <3>1 DEF IInv, MapHoldsOpenSessions, CloserOrder, IndexSound, Live
  <2> QED
    BY <2>1, <2>2
<1> QED
  BY <1>1, <1>2, <1>3, <1>4, <1>5, <1>6, <1>7 DEF Next

(* The inductive invariant holds in every reachable state of the manager.  *)
THEOREM IInvHolds == Spec => []IInv
  BY IInvInit, IInvStep, PTL DEF Spec

(* The map holds exactly the open sessions, each under its own ID: Get,    *)
(* Close and Update by ID reach a session that is live, and only that one. *)
THEOREM MapCorrect == Spec => []MapHoldsOpenSessions
  BY IInvHolds, PTL DEF IInv

(* No routing index ever leads to a closed session or to one without the   *)
(* key, although entries are overwritten and deleted without asking whose  *)
(* they are.                                                               *)
THEOREM RoutingSound == Spec => []IndexSound
  BY IInvHolds, PTL DEF IInv

-----------------------------------------------------------------------------
(* Counting: capacity and the two totals.                                  *)

CountInv ==
  /\ IsFiniteSet(Live)
  /\ IsFiniteSet(Closing)
  /\ Capacity
  /\ Accounting

(* A fresh manager has created and closed nothing.                         *)
LEMMA CountInit == Init => CountInv
<1> SUFFICES ASSUME Init PROVE CountInv
  OBVIOUS
<1>1. Live = {} /\ Closing = {}
  BY DEF Init, Live, Closing
<1>2. created = 0 /\ closed = 0
  BY DEF Init
<1> QED
  BY <1>1, <1>2, FS_EmptySet, ManagerAssumption
  DEF CountInv, Capacity, Accounting, ManagerAssumption

(* Close moves one session from the open ones to the closing ones.         *)
LEMMA CloseLockedCount ==
  ASSUME IInv, CountInv, NEW i \in IDs, sessions[i] # None, CloseLocked(sessions[i])
  PROVE  CountInv'
<1> DEFINE o == sessions[i]
<1> USE DEF IInv, TypeOK
<1>1. o \in Objs /\ sid[o] = i /\ closer[o] = "none"
  BY DEF MapHoldsOpenSessions, Live
<1>2. Live' = Live \ {i} /\ i \in Live
  BY <1>1 DEF CloseLocked, Live
<1>3. Closing' = Closing \cup {o} /\ o \notin Closing
  BY <1>1 DEF CloseLocked, Closing
<1>4. created' = created /\ closed' = closed
  BY DEF CloseLocked
<1>5. /\ IsFiniteSet(Live')
      /\ Cardinality(Live') = Cardinality(Live) - 1
      /\ Cardinality(Live) \in Nat
  BY <1>2, FS_RemoveElement, FS_CardinalityType DEF CountInv
<1>6. /\ IsFiniteSet(Closing')
      /\ Cardinality(Closing') = Cardinality(Closing) + 1
      /\ Cardinality(Closing) \in Nat
  BY <1>3, FS_AddElement, FS_CardinalityType DEF CountInv
<1> QED
  BY <1>4, <1>5, <1>6, ManagerAssumption
  DEF CountInv, Capacity, Accounting, ManagerAssumption

(* Every operation of the manager keeps the totals equal to what was       *)
(* created and closed.                                                     *)
LEMMA CountStep == IInv /\ CountInv /\ [Next]_vars => CountInv'
<1> SUFFICES ASSUME IInv, CountInv, [Next]_vars PROVE CountInv'
  OBVIOUS
<1> USE DEF IInv, TypeOK
<1>0. Cardinality(Live) \in Nat /\ Cardinality(Closing) \in Nat
  BY FS_CardinalityType DEF CountInv
<1>1. ASSUME UNCHANGED <<sessions, created, closed>>, Closing' = Closing
      PROVE  CountInv'
  <2>1. Live' = Live
    BY <1>1 DEF Live
  <2> QED
    BY <1>1, <2>1 DEF CountInv, Capacity, Accounting
<1>2. ASSUME NEW o \in Objs, NEW i \in IDs, NEW ks \in [Kinds -> Keys \cup {None}],
             Create(o, i, ks)
      PROVE  CountInv'
  <2>1. Live' = Live \cup {i} /\ i \notin Live
    BY <1>2, ManagerAssumption DEF Create, RoomLeft, Live, ManagerAssumption
  <2>2. Closing' = Closing /\ created' = created + 1 /\ closed' = closed
    BY <1>2 DEF Create, RoomLeft, Closing
  <2>3. IsFiniteSet(Live') /\ Cardinality(Live') = Cardinality(Live) + 1
    BY <2>1, FS_AddElement DEF CountInv
  <2>4. Cardinality(Live) < MaxSessions
    BY <1>2 DEF Create, RoomLeft
  <2> QED
    BY <1>0, <2>2, <2>3, <2>4, ManagerAssumption
    DEF CountInv, Capacity, Accounting, ManagerAssumption
<1>3. ASSUME NEW i \in IDs, Close(i)
      PROVE  CountInv'
  BY <1>3, CloseLockedCount DEF Close
<1>4. ASSUME NEW i \in IDs, GCClose(i)
      PROVE  CountInv'
  <2>1. CASE sessions[i] # None
    BY <1>4, <2>1, CloseLockedCount DEF GCClose
  <2>2. CASE sessions[i] = None
    BY <1>1, <1>4, <2>2 DEF GCClose, managerVars, sessionVars, Closing
  <2> QED
    BY <2>1, <2>2
<1>5. ASSUME NEW o \in Objs, CloseCount(o)
      PROVE  CountInv'
  <2>1. Live' = Live /\ created' = created /\ closed' = closed + 1
    BY <1>5 DEF CloseCount, Live
  <2>2. Closing' = Closing \ {o} /\ o \in Closing
    BY <1>5 DEF CloseCount, Closing
  <2>3. IsFiniteSet(Closing') /\ Cardinality(Closing') = Cardinality(Closing) - 1
    BY <2>2, FS_RemoveElement DEF CountInv
  <2> QED
    BY <1>0, <2>1, <2>3 DEF CountInv, Capacity, Accounting
<1>6. ASSUME NEW o \in Objs, CloseCancel(o) \/ CloseMark(o)
      PROVE  CountInv'
  <2>1. Closing' = Closing /\ UNCHANGED <<sessions, created, closed>>
    BY <1>6 DEF CloseCancel, CloseMark, Closing, managerVars
  <2> QED
    BY <1>1, <2>1
<1>7. ASSUME \/ \E i \in IDs, v \in Keys : Update(i, v)
             \/ \E o \in Objs : Touch(o)
             \/ GCTick \/ GCScan \/ TimePasses \/ UNCHANGED vars
      PROVE  CountInv'
  <2>1. UNCHANGED <<sessions, created, closed, closer>>
    BY <1>7 DEF Update, Touch, Touched, GCTick, GCScan, TimePasses, vars, managerVars, sessionVars
  <2> QED
    BY <1>1, <2>1 DEF Closing
<1> QED
  BY <1>2, <1>3, <1>4, <1>5, <1>6, <1>7 DEF Next

(* The capacity and the totals of the manager are right in every reachable *)
(* state.                                                                  *)
THEOREM CountHolds == Spec => []CountInv
<1>1. Spec => []IInv
  BY IInvHolds
<1>2. Init => CountInv
  BY CountInit
<1>3. IInv /\ CountInv /\ [Next]_vars => CountInv'
  BY CountStep
<1> QED
  BY <1>1, <1>2, <1>3, PTL DEF Spec

(* Never more than MaxSessions sessions are open.                          *)
THEOREM CapacityRespected == Spec => []Capacity
  BY CountHolds, PTL DEF CountInv

(* The totals exported as metrics account for every session ever created.  *)
THEOREM TotalsExact == Spec => []Accounting
  BY CountHolds, PTL DEF CountInv

(* Both together, as the runs check them.                                  *)
THEOREM CountsRight == Spec => []Counts
  BY CapacityRespected, TotalsExact, PTL DEF Counts

-----------------------------------------------------------------------------
(* The manager implements SessionStore.                                    *)

(* The sessions SessionStore calls open are the live sessions of the       *)
(* manager that have their ID's place in the map.                          *)
LEMMA OpenStage ==
  ASSUME IInv
  PROVE  Store!OpenSessions = {sessions[i] : i \in Live}
<1> USE DEF IInv, TypeOK, Statuses
<1>1. Store!OpenSessions = {o \in Objs : status[o] \in {"CREATED", "ACTIVE"}}
  BY DEF Store!OpenSessions, Stage
<1>2. \A i \in Live : sessions[i] \in Objs /\ status[sessions[i]] \in {"CREATED", "ACTIVE"}
  BY DEF MapHoldsOpenSessions, Live
<1>3. \A o \in Objs : status[o] \in {"CREATED", "ACTIVE"} =>
                     \E i \in Live : sessions[i] = o
  BY ManagerAssumption DEF MapHoldsOpenSessions, Live, ManagerAssumption
<1> QED
  BY <1>1, <1>2, <1>3

(* The map and the set of open objects have the same size.                 *)
LEMMA OpenCount ==
  ASSUME IInv, IsFiniteSet(Live)
  PROVE  Cardinality(Store!OpenSessions) = Cardinality(Live)
<1> DEFINE f == [i \in Live |-> sessions[i]]
<1>1. \A i, j \in Live : f[i] = f[j] => i = j
  BY DEF IInv, MapHoldsOpenSessions
<1>2. f \in Bijection(Live, Store!OpenSessions)
  BY <1>1, OpenStage DEF Bijection, Injection, Surjection, IsInjective
<1> QED
  BY <1>2, FS_Bijection DEF ExistsBijection

(* A fresh manager is a fresh SessionStore.                                *)
LEMMA StoreInitRefined == Init => Store!StoreInit
  BY DEF Init, Store!StoreInit, Stage

(* Unlinking is the locked part of Close, whoever calls it.                *)
LEMMA CloseLockedRefined ==
  ASSUME IInv, NEW i \in IDs, sessions[i] # None, CloseLocked(sessions[i])
  PROVE  Store!StoreNext
<1> DEFINE o == sessions[i]
<1> USE DEF IInv, TypeOK, Statuses
<1>1. o \in Objs /\ status[o] \in {"CREATED", "ACTIVE"} /\ ctx[o] = "live"
  BY DEF MapHoldsOpenSessions, Live
<1>2. /\ status' = [status EXCEPT ![o] = "CLOSING"]
      /\ UNCHANGED <<ctx, sid>>
  BY DEF CloseLocked
<1>3. Store!Unlink(o)
  BY <1>1, <1>2 DEF Store!Unlink, Stage
<1> QED
  BY <1>1, <1>3 DEF Store!StoreNext

(* Every operation of the manager is an operation of SessionStore on the   *)
(* session's stage, or leaves all stages alone.                            *)
LEMMA StoreStepRefined ==
  IInv /\ CountInv /\ [Next]_vars => [Store!StoreNext]_(Store!storeVars)
<1> SUFFICES ASSUME IInv, CountInv, [Next]_vars
             PROVE  Store!StoreNext \/ UNCHANGED Store!storeVars
  OBVIOUS
<1> USE DEF IInv, TypeOK, Statuses
<1>1. ASSUME UNCHANGED <<status, ctx, sid>>
      PROVE  UNCHANGED Store!storeVars
  BY <1>1 DEF Store!storeVars, Stage
<1>2. ASSUME NEW o \in Objs, NEW i \in IDs, NEW ks \in [Kinds -> Keys \cup {None}],
             Create(o, i, ks)
      PROVE  Store!StoreNext
  <2>1. /\ status[o] = "ABSENT"
        /\ sessions[i] = None
        /\ sid' = [sid EXCEPT ![o] = i]
        /\ status' = [status EXCEPT ![o] = "CREATED"]
        /\ UNCHANGED ctx
    BY <1>2 DEF Create, RoomLeft
  <2>2. Store!Cardinality(Store!OpenSessions) < MaxSessions
    <3>1. Cardinality(Store!OpenSessions) < MaxSessions
      BY <1>2, OpenCount DEF Create, RoomLeft, CountInv
    <3> HIDE DEF IInv, TypeOK, Statuses
    <3>2. Store!Cardinality(Store!OpenSessions) = Cardinality(Store!OpenSessions)
      BY DEF Store!Cardinality, Cardinality
    <3> QED
      BY <3>1, <3>2
  <2>3. \A p \in Store!OpenSessions : sid[p] # i
    BY <2>1, OpenStage DEF MapHoldsOpenSessions, Live
  <2>4. [q \in Objs |-> Stage(q)]' = [[q \in Objs |-> Stage(q)] EXCEPT ![o] = "open"]
    BY <2>1 DEF Stage
  <2>5. [q \in Objs |-> Stage(q)][o] = "absent"
    BY <2>1 DEF Stage
  <2>6. Store!Allocate(o, i)
    BY <2>1, <2>2, <2>3, <2>4, <2>5, Zenon DEF Store!Allocate
  <2> QED
    BY <2>6 DEF Store!StoreNext
<1>3. ASSUME NEW i \in IDs, Close(i)
      PROVE  Store!StoreNext
  BY <1>3, CloseLockedRefined DEF Close
<1>4. ASSUME NEW o \in Objs, CloseCancel(o)
      PROVE  Store!StoreNext
  <2>1. status[o] = "CLOSING" /\ ctx[o] = "live"
    BY <1>4 DEF CloseCancel, CloserOrder
  <2>2. Store!End(o)
    BY <1>4, <2>1 DEF CloseCancel, Store!End, Stage
  <2> QED
    BY <2>2 DEF Store!StoreNext
<1>5. ASSUME NEW o \in Objs, CloseMark(o)
      PROVE  UNCHANGED Store!storeVars
  <2>1. status[o] = "CLOSING" /\ ctx[o] = "done"
    BY <1>5 DEF CloseMark, CloserOrder
  <2> QED
    BY <1>5, <2>1 DEF CloseMark, Store!storeVars, Stage
<1>6. ASSUME NEW o \in Objs, Touch(o)
      PROVE  UNCHANGED Store!storeVars
  <2>1. /\ status[o] # "ABSENT"
        /\ status' = [status EXCEPT ![o] = IF status[o] = "CREATED" THEN "ACTIVE" ELSE status[o]]
        /\ UNCHANGED <<ctx, sid>>
    BY <1>6 DEF Touch, Touched
  <2>2. \A p \in Objs : Stage(p)' = Stage(p)
    <3> SUFFICES ASSUME NEW p \in Objs PROVE Stage(p)' = Stage(p)
      OBVIOUS
    <3>1. CASE p = o
      BY <2>1, <3>1 DEF Stage
    <3>2. CASE p # o
      BY <2>1, <3>2 DEF Stage
    <3> QED
      BY <3>1, <3>2
  <2> QED
    BY <2>1, <2>2 DEF Store!storeVars
<1>7. ASSUME NEW i \in IDs, GCClose(i)
      PROVE  Store!StoreNext \/ UNCHANGED Store!storeVars
  <2>1. CASE sessions[i] # None
    BY <1>7, <2>1, CloseLockedRefined DEF GCClose
  <2>2. CASE sessions[i] = None
    BY <1>1, <1>7, <2>2 DEF GCClose, sessionVars
  <2> QED
    BY <2>1, <2>2
<1>8. ASSUME \/ \E o \in Objs : CloseCount(o)
             \/ \E i \in IDs, v \in Keys : Update(i, v)
             \/ GCTick \/ GCScan \/ TimePasses \/ UNCHANGED vars
      PROVE  UNCHANGED Store!storeVars
  <2>1. UNCHANGED <<status, ctx, sid>>
    BY <1>8 DEF CloseCount, Update, GCTick, GCScan, TimePasses, vars, sessionVars
  <2> QED
    BY <1>1, <2>1
<1> QED
  BY <1>2, <1>3, <1>4, <1>5, <1>6, <1>7, <1>8 DEF Next

(* session.Manager keeps the promise of SessionStore: one open session per *)
(* ID, at most MaxSessions of them, and every session passes once through  *)
(* open, unlinked and ended, never back.                                   *)
THEOREM ManagerImplementsStore == Spec => ImplementsStore
<1>1. Spec => []IInv /\ []CountInv
  BY IInvHolds, CountHolds
<1>2. Init => Store!StoreInit
  BY StoreInitRefined
<1>3. IInv /\ CountInv /\ [Next]_vars => [Store!StoreNext]_(Store!storeVars)
  BY StoreStepRefined
<1> QED
  BY <1>1, <1>2, <1>3, PTL DEF Spec, ImplementsStore, Store!StoreSpec

-----------------------------------------------------------------------------
(* Who may take a routing entry.                                           *)

(* The entries Close deletes, under the lock, are those of the keys of the *)
(* session it closes.                                                      *)
LEMMA CloseLockedKeeps ==
  ASSUME TypeOK, MapHoldsOpenSessions,
         NEW j \in IDs, sessions[j] # None, CloseLocked(sessions[j]),
         NEW i \in IDs, NEW k \in Kinds, NEW v \in Keys,
         HasKey(i, k, v), index[k][v] = i, sessions'[i] = sessions[i]
  PROVE  index'[k][v] = i \/ \E q \in IDs \ {i} : HasKey(q, k, v)
<1>1. sid[sessions[j]] = j
  BY DEF MapHoldsOpenSessions, Live
<1>2. j # i
  BY <1>1, ManagerAssumption DEF CloseLocked, HasKey, Live, TypeOK, ManagerAssumption
<1>3. CASE key[sessions[j]][k] = v
  <2>1. HasKey(j, k, v)
    BY <1>3 DEF HasKey, Live
  <2> QED
    BY <2>1, <1>2
<1>4. CASE key[sessions[j]][k] # v
  BY <1>4 DEF CloseLocked, IndexWithout
<1> QED
  BY <1>3, <1>4

(* Update takes an entry only for the address it sets, and only one of the *)
(* address it replaces.                                                    *)
LEMMA UpdateKeeps ==
  ASSUME TypeOK, NEW j \in IDs, NEW w \in Keys, Update(j, w),
         NEW i \in IDs, NEW k \in Kinds, NEW v \in Keys,
         HasKey(i, k, v), index[k][v] = i, HasKey(i, k, v)'
  PROVE  \/ index'[k][v] = i
         \/ \E q \in IDs \ {i} : HasKey(q, k, v) \/ HasKey(q, k, v)'
<1> DEFINE o == sessions[j]
           old == [m \in Kinds |-> IF m = "addr" THEN key[o][m] ELSE None]
<1>1. /\ o \in Objs
      /\ w # key[o]["addr"]
      /\ sessions' = sessions
      /\ key' = [key EXCEPT ![o]["addr"] = w]
      /\ index' = [IndexWithout(old) EXCEPT !["addr"][w] = j]
  BY DEF Update, TypeOK
<1>2. CASE k # "addr"
  <2>1. index'[k][v] = IndexWithout(old)[k][v]
    BY <1>1, <1>2 DEF IndexWithout
  <2>2. old[k] # v
    BY <1>2, ManagerAssumption DEF ManagerAssumption
  <2> QED
    BY <2>1, <2>2 DEF IndexWithout
<1>3. CASE k = "addr" /\ j = i
  <2>1. key[o]["addr"] = v
    BY <1>3 DEF HasKey
  <2>2. key'[o]["addr"] = v
    BY <1>1, <1>3 DEF HasKey
  <2>3. key'[o]["addr"] = w
    BY <1>1, ManagerAssumption DEF TypeOK, ManagerAssumption
  <2> QED
    BY <1>1, <2>1, <2>2, <2>3
<1>4. CASE k = "addr" /\ j # i /\ v = w
  <2>1. HasKey(j, k, v)'
    <3>1. key'[o]["addr"] = w
      BY <1>1, ManagerAssumption DEF TypeOK, ManagerAssumption
    <3>2. sessions'[j] = o /\ o # None
      BY <1>1, ManagerAssumption DEF ManagerAssumption
    <3> QED
      BY <1>4, <3>1, <3>2 DEF HasKey, Live
  <2> QED
    BY <2>1, <1>4
<1>5. CASE k = "addr" /\ j # i /\ v # w /\ key[o]["addr"] = v
  <2>1. HasKey(j, k, v)
    BY <1>1, <1>5, ManagerAssumption DEF HasKey, Live, ManagerAssumption
  <2> QED
    BY <2>1, <1>5
<1>6. CASE k = "addr" /\ j # i /\ v # w /\ key[o]["addr"] # v
  <2>1. IndexWithout(old)[k][v] = index[k][v]
    BY <1>6 DEF IndexWithout
  <2>2. index'[k][v] = IndexWithout(old)[k][v]
    BY <1>1, <1>6, ManagerAssumption DEF IndexWithout, ManagerAssumption
  <2> QED
    BY <2>1, <2>2
<1> QED
  BY <1>2, <1>3, <1>4, <1>5, <1>6

(* Every step leaves an open session its entries, but for a session that   *)
(* shares the key before or after it.                                      *)
LEMMA KeptStep ==
  ASSUME TypeOK, MapHoldsOpenSessions, [Next]_vars,
         NEW i \in IDs, NEW k \in Kinds, NEW v \in Keys,
         HasKey(i, k, v), index[k][v] = i, HasKey(i, k, v)',
         sessions'[i] = sessions[i]
  PROVE  \/ index'[k][v] = i
         \/ \E j \in IDs \ {i} : HasKey(j, k, v) \/ HasKey(j, k, v)'
<1>1. ASSUME NEW o \in Objs, NEW j \in IDs, NEW ks \in [Kinds -> Keys \cup {None}],
             Create(o, j, ks)
      PROVE  index'[k][v] = i \/ \E q \in IDs \ {i} : HasKey(q, k, v)'
  <2>1. sessions[j] = None /\ j # i
    BY <1>1 DEF Create, HasKey, Live
  <2>2. CASE ks[k] = v
    <3>1. sessions'[j] = o /\ key'[o][k] = v /\ o # None
      BY <1>1, <2>2, ManagerAssumption DEF Create, TypeOK, ManagerAssumption
    <3>2. HasKey(j, k, v)'
      BY <3>1 DEF HasKey, Live
    <3> QED
      BY <3>2, <2>1
  <2>3. CASE ks[k] # v
    BY <1>1, <2>3 DEF Create, IndexWith
  <2> QED
    BY <2>2, <2>3
<1>2. ASSUME NEW j \in IDs, Close(j)
      PROVE  index'[k][v] = i \/ \E q \in IDs \ {i} : HasKey(q, k, v)
  BY <1>2, CloseLockedKeeps DEF Close
<1>3. ASSUME NEW j \in IDs, GCClose(j)
      PROVE  index'[k][v] = i \/ \E q \in IDs \ {i} : HasKey(q, k, v)
  BY <1>3, CloseLockedKeeps DEF GCClose, managerVars
<1>4. ASSUME NEW j \in IDs, NEW w \in Keys, Update(j, w)
      PROVE  \/ index'[k][v] = i
             \/ \E q \in IDs \ {i} : HasKey(q, k, v) \/ HasKey(q, k, v)'
  BY <1>4, UpdateKeeps
<1>5. ASSUME NEW o \in Objs, CloseCancel(o) \/ CloseMark(o) \/ CloseCount(o) \/ Touch(o)
      PROVE  index'[k][v] = i
  BY <1>5 DEF CloseCancel, CloseMark, CloseCount, Touch, managerVars
<1>6. CASE GCTick \/ GCScan \/ TimePasses \/ UNCHANGED vars
  BY <1>6 DEF GCTick, GCScan, TimePasses, vars, managerVars
<1> QED
  BY <1>1, <1>2, <1>3, <1>4, <1>5, <1>6 DEF Next

(* A routing entry of an open session goes only to a session with the same *)
(* key: closing, moving or creating others never makes it unreachable.     *)
THEOREM EntriesAreKept == Spec => EntriesKept
<1>1. TypeOK /\ MapHoldsOpenSessions /\ [Next]_vars =>
        [\A i \in IDs, k \in Kinds, v \in Keys :
           HasKey(i, k, v) /\ index[k][v] = i /\ HasKey(i, k, v)' /\ sessions'[i] = sessions[i]
           => \/ index'[k][v] = i
              \/ \E j \in IDs \ {i} : HasKey(j, k, v) \/ HasKey(j, k, v)']_vars
  BY KeptStep
<1> QED
  BY <1>1, TypeCorrect, MapCorrect, PTL DEF Spec, EntriesKept

-----------------------------------------------------------------------------
(* Where no two open sessions share a key, no entry is ever lost.          *)

(* Removing a session's own index entries (Close, under the lock) makes no *)
(* other open session unreachable when no two share a key.                 *)
LEMMA CloseLockedComplete ==
  ASSUME IInv, KeysUnique, IndexComplete,
         NEW i \in IDs, sessions[i] # None, CloseLocked(sessions[i])
  PROVE  IndexComplete'
<1> DEFINE o == sessions[i]
<1> USE DEF IInv, TypeOK
<1>1. o \in Objs /\ sid[o] = i
  BY DEF MapHoldsOpenSessions, Live
<1>2. sessions' = [sessions EXCEPT ![i] = None] /\ key' = key
  BY <1>1 DEF CloseLocked
<1> SUFFICES ASSUME NEW j \in Live', NEW k \in Kinds, key[sessions[j]][k] # None
             PROVE  index'[k][key[sessions[j]][k]] = j
  BY <1>2 DEF IndexComplete, Live
<1>3. j \in Live /\ j # i /\ i \in Live
  BY <1>2 DEF Live
<1>4. key[o][k] # key[sessions[j]][k]
  BY <1>3 DEF KeysUnique
<1>5. key[sessions[j]][k] \in Keys
  BY <1>3, ManagerAssumption DEF Live, ManagerAssumption
<1> QED
  BY <1>3, <1>4, <1>5 DEF CloseLocked, IndexWithout, IndexComplete

(* Every operation of the manager keeps each open session reachable by its *)
(* keys when no two open sessions share a key.                             *)
LEMMA CompleteStep ==
  IInv /\ KeysUnique /\ IndexComplete /\ [Next /\ KeysUnique']_vars
  => (KeysUnique /\ IndexComplete)'
<1> SUFFICES ASSUME IInv, KeysUnique, IndexComplete, [Next /\ KeysUnique']_vars
             PROVE  (KeysUnique /\ IndexComplete)'
  OBVIOUS
<1> USE DEF IInv, TypeOK
<1>1. ASSUME UNCHANGED <<sessions, index, key>>
      PROVE  (KeysUnique /\ IndexComplete)'
  BY <1>1 DEF KeysUnique, IndexComplete, Live
<1>2. ASSUME NEW o \in Objs, NEW i \in IDs, NEW ks \in [Kinds -> Keys \cup {None}],
             Create(o, i, ks), KeysUnique'
      PROVE  IndexComplete'
  <2>1. /\ sessions[i] = None
        /\ sessions' = [sessions EXCEPT ![i] = o]
        /\ key' = [key EXCEPT ![o] = ks]
        /\ status[o] = "ABSENT"
    BY <1>2 DEF Create, RoomLeft
  <2> SUFFICES ASSUME NEW j \in Live', NEW k \in Kinds, key'[sessions'[j]][k] # None
               PROVE  index'[k][key'[sessions'[j]][k]] = j
    BY DEF IndexComplete
  <2> DEFINE w == key'[sessions'[j]][k]
  <2>2. j \in IDs /\ i \in Live' /\ sessions'[i] = o
    BY <2>1, ManagerAssumption DEF Live, ManagerAssumption
  <2>3. CASE j = i
    <3>1. w = ks[k] /\ w \in Keys
      BY <2>1, <2>2, <2>3
    <3> QED
      BY <1>2, <2>3, <3>1 DEF Create, RoomLeft, IndexWith
  <2>4. CASE j # i
    <3>1. j \in Live /\ sessions'[j] = sessions[j] /\ sessions[j] \in Objs
      BY <2>1, <2>2, <2>4 DEF Live
    <3>2. sessions[j] # o
      BY <2>1, <3>1 DEF MapHoldsOpenSessions
    <3>3. w = key[sessions[j]][k] /\ w \in Keys
      BY <2>1, <3>1, <3>2
    <3>4. ks[k] # w
      <4> SUFFICES ASSUME ks[k] = w PROVE FALSE
        OBVIOUS
      <4>1. key'[sessions'[i]][k] = w /\ w # None
        BY <2>1, <2>2, <3>3, ManagerAssumption DEF ManagerAssumption
      <4>2. i = j
        BY <1>2, <2>2, <3>1, <4>1 DEF KeysUnique
      <4> QED
        BY <2>4, <4>2
    <3>5. index[k][w] = j
      BY <3>1, <3>3 DEF IndexComplete
    <3> QED
      BY <1>2, <3>3, <3>4, <3>5 DEF Create, RoomLeft, IndexWith
  <2> QED
    BY <2>3, <2>4
<1>3. ASSUME NEW i \in IDs, Close(i)
      PROVE  IndexComplete'
  BY <1>3, CloseLockedComplete DEF Close
<1>4. ASSUME NEW i \in IDs, GCClose(i)
      PROVE  IndexComplete'
  <2>1. CASE sessions[i] # None
    BY <1>4, <2>1, CloseLockedComplete DEF GCClose
  <2>2. CASE sessions[i] = None
    BY <1>1, <1>4, <2>2 DEF GCClose, managerVars, sessionVars
  <2> QED
    BY <2>1, <2>2
<1>5. ASSUME NEW i \in IDs, NEW v \in Keys, Update(i, v), KeysUnique'
      PROVE  IndexComplete'
  <2> DEFINE o == sessions[i]
             old == [k \in Kinds |-> IF k = "addr" THEN key[o][k] ELSE None]
             ix == IndexWithout(old)
  <2>1. /\ o \in Objs /\ i \in Live
        /\ key' = [key EXCEPT ![o]["addr"] = v]
        /\ index' = [ix EXCEPT !["addr"][v] = i]
        /\ sessions' = sessions
    BY <1>5 DEF Update, Live
  <2>2. /\ ix \in [Kinds -> [Keys -> IDs \cup {None}]]
        /\ \A k \in Kinds, w \in Keys :
             ix[k][w] = IF k = "addr" /\ key[o][k] = w THEN None ELSE index[k][w]
    BY ManagerAssumption DEF IndexWithout, ManagerAssumption
  <2> HIDE DEF ix
  <2>3. \A k \in Kinds, w \in Keys :
           index'[k][w] = IF k = "addr" /\ w = v THEN i ELSE ix[k][w]
    BY <2>1, <2>2
  <2> SUFFICES ASSUME NEW j \in Live, NEW k \in Kinds, key'[sessions[j]][k] # None
               PROVE  index'[k][key'[sessions[j]][k]] = j
    BY <2>1 DEF IndexComplete, Live
  <2>4. j \in IDs /\ sessions[j] \in Objs
    BY DEF Live
  <2>5. key[o] \in [Kinds -> Keys \cup {None}] /\ "addr" \in Kinds
    BY <2>1, ManagerAssumption DEF ManagerAssumption
  <2>6. CASE j = i /\ k = "addr"
    <3>1. key'[sessions[j]][k] = v
      BY <2>1, <2>5, <2>6
    <3> QED
      BY <2>3, <2>6, <3>1
  <2>7. CASE ~(j = i /\ k = "addr")
    <3>1. sessions[j] # o \/ k # "addr"
      BY <2>1, <2>4, <2>7 DEF MapHoldsOpenSessions
    <3>2. key'[sessions[j]][k] = key[sessions[j]][k]
      BY <2>1, <2>4, <2>5, <3>1
    <3> DEFINE w == key[sessions[j]][k]
    <3>3. w \in Keys /\ index[k][w] = j
      BY <2>4, <3>2 DEF IndexComplete
    <3>4. ~(k = "addr" /\ w = v)
      <4> SUFFICES ASSUME k = "addr", w = v PROVE FALSE
        OBVIOUS
      <4>1. key'[sessions[i]][k] = v
        BY <2>1, <2>5
      <4>2. i \in Live' /\ j \in Live' /\ v # None
        BY <2>1, <3>2 DEF Live
      <4>3. i = j
        BY <2>1, <3>2, <4>1, <4>2, <1>5 DEF KeysUnique
      <4> QED
        BY <2>7, <4>3
    <3>5. ~(k = "addr" /\ key[o][k] = w)
      <4> SUFFICES ASSUME k = "addr", key[o][k] = w PROVE FALSE
        OBVIOUS
      <4>1. j = i
        BY <2>1, <3>2 DEF KeysUnique
      <4> QED
        BY <2>7, <4>1
    <3> QED
      BY <2>2, <2>3, <3>2, <3>3, <3>4, <3>5
  <2> QED
    BY <2>6, <2>7
<1>6. ASSUME \/ \E o \in Objs : \/ CloseCancel(o) \/ CloseMark(o)
                               \/ CloseCount(o) \/ Touch(o)
             \/ GCTick \/ GCScan \/ TimePasses \/ UNCHANGED vars
      PROVE  (KeysUnique /\ IndexComplete)'
  <2>1. UNCHANGED <<sessions, index, key>>
    BY <1>6 DEF CloseCancel, CloseMark, CloseCount, Touch, Touched, GCTick, GCScan,
                TimePasses, vars, managerVars, sessionVars
  <2> QED
    BY <1>1, <2>1
<1> QED
  BY <1>2, <1>3, <1>4, <1>5, <1>6 DEF Next

(* With unique keys every open session stays reachable by its SSRC, its    *)
(* address, its peer and its track until it is closed.                     *)
THEOREM RoutingComplete == UniqueKeysSpec => []IndexComplete
<1>1. Init => IInv /\ KeysUnique /\ IndexComplete
  <2>1. Init => KeysUnique /\ IndexComplete
    BY DEF Init, KeysUnique, IndexComplete, Live
  <2> QED
    BY <2>1, IInvInit
<1>2. IInv /\ KeysUnique /\ IndexComplete /\ [Next /\ KeysUnique']_vars
      => (IInv /\ KeysUnique /\ IndexComplete)'
  <2>1. [Next /\ KeysUnique']_vars => [Next]_vars
    OBVIOUS
  <2> QED
    BY <2>1, IInvStep, CompleteStep
<1> QED
  BY <1>1, <1>2, PTL DEF UniqueKeysSpec
=============================================================================
