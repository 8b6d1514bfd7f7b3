----------------------- MODULE CoordinatorJitterProofs -----------------------
(***************************************************************************)
(* Proofs about the jitter buffers the coordinator keeps for its sessions, *)
(* and below about the coordinator's tables.  The two parts do not depend  *)
(* on each other.                                                          *)
(***************************************************************************)
EXTENDS Coordinator, JitterBuffer, TLAPS, FiniteSetTheorems, FunctionTheorems,
        SequenceTheorems, WellFoundedInduction

(***************************************************************************)
(* The order in which packets leave the jitter buffer and its books, for   *)
(* every sequence space, buffer time and capacity, a stream of any length, *)
(* and whatever the network delivers, as long as nothing comes half of the *)
(* sequence space away from the places in use.                             *)
(*                                                                         *)
(* The buffer only sees sequence numbers.  Behind next there is a place N  *)
(* of the sender's stream, not stored anywhere.  It lies between the last  *)
(* packet that went through and the newest one held, so within half of the *)
(* sequence space of all places in use: SeqDiff of two numbers is the      *)
(* difference of their places, and the buffer's decisions are decisions    *)
(* about places, however often the numbers have been used before.          *)
(***************************************************************************)

(* What is held, and the last packet that went through.                    *)
KeptPlaces == Held \cup (IF newest = 0 THEN {} ELSE {newest})

(* next is the number of place N: what has left is before N, what is held  *)
(* is not, but for copies of the newest packet that the flush under way    *)
(* will still meet.                                                        *)
At(N) ==
  /\ next = Wire(N)
  /\ last # Nil => last = Wire(N - 1)
  /\ \E a \in KeptPlaces : a <= N
  /\ \E b \in KeptPlaces : N - 1 <= b
  /\ newest < N
  /\ \A n \in Held : n < N => flushing # Nil /\ n = newest
  /\ last = Nil => flushing # Nil /\ N \in Held /\ \A n \in Held : N <= n

(* Before the first flush nothing has left.                                *)
Unset == last = Nil /\ newest = 0 /\ flushing = Nil

Anchored ==
  /\ next = Nil => Unset
  /\ next # Nil => \E N \in Nat : At(N)

(* The places in use are close enough to be told apart by their numbers.   *)
PlacesClose == \A m, n \in InUse : Near(m, n)

Books == IsFiniteSet(Copies(arrivals)) /\ IsFiniteSet(Copies(heap)) /\ Conservation

HeapIInv == JitterTypeOK /\ PlacesClose /\ Anchored /\ Books

-----------------------------------------------------------------------------
(* Sequence numbers.                                                       *)

Half == SeqSpace \div 2

(* Half of the sequence space.                                             *)
LEMMA HalfType == Half \in Nat \ {0} /\ SeqSpace = 2 * Half /\ SeqSpace \in Nat \ {0}
<1>1. SeqSpace \in Nat \ {0} /\ SeqSpace % 2 = 0
  BY JitterAssumption
<1> QED
  BY <1>1 DEF Half

(* A number is what remains of its place.                                  *)
LEMMA Remainder ==
  ASSUME NEW x \in Int
  PROVE  /\ Wire(x) \in Nat /\ Wire(x) < SeqSpace
         /\ \E q \in Int : x = q * SeqSpace + Wire(x)
<1>0. SeqSpace \in Nat \ {0}
  BY HalfType
<1>1. x % SeqSpace \in Nat /\ x % SeqSpace < SeqSpace
  BY <1>0
<1>2. x = (x \div SeqSpace) * SeqSpace + (x % SeqSpace) /\ x \div SeqSpace \in Int
  BY <1>0
<1> QED
  BY <1>1, <1>2 DEF Wire

(* Only 0 is a multiple of d between -d and d.                             *)
LEMMA NoMultiple ==
  ASSUME NEW k \in Int, NEW d \in Nat \ {0}, k * d < d, 0 - d < k * d
  PROVE  k = 0
<1>1. ASSUME k >= 1 PROVE FALSE
  <2>1. (k - 1) * d >= 0
    BY <1>1
  <2> QED
    BY <2>1
<1>2. ASSUME k <= 0 - 1 PROVE FALSE
  <2>1. (0 - k - 1) * d >= 0
    BY <1>2
  <2> QED
    BY <2>1
<1> QED
  BY <1>1, <1>2

(* The difference of two numbers is that of their places, if they are less *)
(* than half of the space apart.                                           *)
LEMMA WireDiff ==
  ASSUME NEW m \in Nat, NEW n \in Nat, m - n < Half, n - m <= Half
  PROVE  SeqDiff(Wire(m), Wire(n)) = m - n
<1>0. SeqSpace \in Nat \ {0} /\ Half \in Nat \ {0} /\ SeqSpace = 2 * Half
  BY HalfType
<1>1. PICK r, s \in Nat : r = Wire(m) /\ s = Wire(n) /\ r < SeqSpace /\ s < SeqSpace
  BY Remainder
<1>2. PICK p \in Int : m = p * SeqSpace + r
  BY <1>1, Remainder
<1>3. PICK q \in Int : n = q * SeqSpace + s
  BY <1>1, Remainder
<1>4. PICK d \in Nat : d = Wire(r - s) /\ d < SeqSpace
  BY Remainder
<1>5. PICK k \in Int : r - s = k * SeqSpace + d
  BY <1>4, Remainder
<1>6. SeqDiff(Wire(m), Wire(n)) = IF d < Half THEN d ELSE d - SeqSpace
  BY <1>1, <1>4 DEF SeqDiff, Wire, Half
<1>7. PICK j \in Int : j = p - q + k
  BY <1>2, <1>3, <1>5
<1>8. m - n = j * SeqSpace + d
  <2>1. j * SeqSpace = p * SeqSpace - q * SeqSpace + k * SeqSpace
    BY <1>0, <1>7
  <2>2. p * SeqSpace \in Int /\ q * SeqSpace \in Int /\ k * SeqSpace \in Int
    BY <1>0
  <2> QED
    BY <1>1, <1>2, <1>3, <1>4, <1>5, <2>1, <2>2
<1>9. CASE 0 <= m - n
  <2>1. j * SeqSpace < SeqSpace /\ 0 - SeqSpace < j * SeqSpace
    <3>1. j * SeqSpace \in Int
      BY <1>0
    <3> QED
      BY <1>0, <1>4, <1>8, <1>9, <3>1
  <2>2. j = 0
    BY <1>0, <2>1, NoMultiple
  <2> QED
    BY <1>0, <1>4, <1>6, <1>8, <1>9, <2>2
<1>10. CASE m - n < 0
  <2>1. (j + 1) * SeqSpace = j * SeqSpace + SeqSpace /\ j * SeqSpace \in Int /\ j + 1 \in Int
    BY <1>0
  <2>2. (j + 1) * SeqSpace < SeqSpace /\ 0 - SeqSpace < (j + 1) * SeqSpace
    BY <1>0, <1>4, <1>8, <1>10, <2>1
  <2>3. j + 1 = 0
    BY <1>0, <2>1, <2>2, NoMultiple
  <2>4. j * SeqSpace = 0 - SeqSpace
    BY <1>0, <2>1, <2>3
  <2> QED
    BY <1>0, <1>4, <1>6, <1>8, <1>10, <2>4
<1> QED
  BY <1>9, <1>10

(* A difference is 0 only for one place, and the numbers stay in range.    *)
LEMMA WireRange ==
  \A n \in Nat : /\ Wire(n) \in Wires
                 /\ \A i \in Wires : i = Wire(n) => Wire(i + 1) = Wire(n + 1)
<1> SUFFICES ASSUME NEW n \in Nat
             PROVE  /\ Wire(n) \in Wires
                    /\ \A i \in Wires : i = Wire(n) => Wire(i + 1) = Wire(n + 1)
  OBVIOUS
<1>0. SeqSpace \in Nat \ {0}
  BY HalfType
<1>1. PICK r \in Nat : r = Wire(n) /\ r < SeqSpace
  BY Remainder
<1>2. r \in Wires
  BY <1>0, <1>1 DEF Wires
<1>3. Wire(r + 1) = Wire(n + 1)
  <2>1. PICK q \in Int : n = q * SeqSpace + r
    BY <1>1, Remainder
  <2>2. PICK u \in Nat : u = Wire(r + 1) /\ u < SeqSpace
    BY Remainder
  <2>3. PICK v \in Nat : v = Wire(n + 1) /\ v < SeqSpace
    BY Remainder
  <2>4. PICK a \in Int : r + 1 = a * SeqSpace + u
    BY <2>2, Remainder
  <2>5. PICK b \in Int : n + 1 = b * SeqSpace + v
    BY <2>3, Remainder
  <2>6. PICK k \in Int : k = b - a - q
    BY <2>1, <2>4, <2>5
  <2>7. k * SeqSpace = b * SeqSpace - a * SeqSpace - q * SeqSpace
    BY <1>0, <2>6
  <2>8. /\ q * SeqSpace \in Int /\ a * SeqSpace \in Int /\ b * SeqSpace \in Int
    BY <1>0
  <2>9. k * SeqSpace = u - v
    BY <1>1, <2>1, <2>2, <2>3, <2>4, <2>5, <2>7, <2>8
  <2>10. k = 0
    BY <1>0, <2>2, <2>3, <2>9, NoMultiple
  <2> QED
    BY <1>0, <2>2, <2>3, <2>9, <2>10
<1> QED
  BY <1>1, <1>2, <1>3

-----------------------------------------------------------------------------
(* The top of the heap.                                                    *)

(* A finite set of numbers has a least one.                                *)
LEMMA LeastExists ==
  ASSUME NEW S \in SUBSET Nat, IsFiniteSet(S), S # {}
  PROVE  \E n \in S : \A m \in S : n <= m
<1> DEFINE Below(n) == {m \in S : m <= n}
           T == {Below(n) : n \in S}
<1>1. T \subseteq FiniteSubsetsOf(S) /\ T # {}
  <2>1. \A n \in S : Below(n) \in SUBSET S /\ IsFiniteSet(Below(n))
    BY FS_Subset
  <2> QED
    BY <2>1 DEF FiniteSubsetsOf
<1>2. PICK x \in T : \A y \in T : <<y, x>> \notin StrictSubsetOrdering(S)
  BY <1>1, FS_StrictSubsetOrderingWellFounded, WFMin
<1>3. PICK n \in S : x = Below(n)
  OBVIOUS
<1>4. ASSUME NEW m \in S, m < n PROVE FALSE
  <2>1. Below(m) \in T /\ Below(m) \subseteq Below(n) /\ Below(m) # Below(n)
    <3>0. m \in Nat /\ n \in Nat
      OBVIOUS
    <3>1. n \in Below(n) /\ n \notin Below(m)
      BY <1>4, <3>0
    <3>2. \A k \in S : k \in Nat /\ (k <= m => k <= n)
      BY <1>4
    <3>3. Below(m) \subseteq Below(n)
      BY <3>2
    <3> QED
      BY <3>1, <3>3
  <2>2. <<Below(m), Below(n)>> \in StrictSubsetOrdering(S)
    BY <2>1 DEF StrictSubsetOrdering
  <2> QED
    BY <1>2, <1>3, <2>1, <2>2
<1> QED
  BY <1>3, <1>4

(* The places are numbers.                                                 *)
LEMMA PlacesTyped == Places \subseteq Nat \ {0} /\ IsFiniteSet(Places)
BY JitterAssumption

(* Those in use are less than half of the space apart.                     *)
LEMMA CloseIs ==
  ASSUME PlacesClose, NEW m \in InUse, NEW n \in InUse
  PROVE  m - n < Half /\ n - m < Half
BY DEF PlacesClose, Near, Half

(* The packet at the top is the oldest of those held.                      *)
LEMMA TopIsOldest ==
  ASSUME PlacesClose, Held # {}
  PROVE  Top \in Held /\ \A m \in Held : Top <= m
<1>0. Held \subseteq Places /\ Held \in SUBSET Nat /\ IsFiniteSet(Held)
  BY PlacesTyped, FS_Subset DEF Held
<1>1. \A m, n \in Held : SeqLess(Wire(m), Wire(n)) <=> m < n
  <2> SUFFICES ASSUME NEW m \in Held, NEW n \in Held
               PROVE  SeqLess(Wire(m), Wire(n)) <=> m < n
    OBVIOUS
  <2>1. m \in Nat /\ n \in Nat /\ m - n < Half /\ n - m < Half
    <3>1. m \in InUse /\ n \in InUse
      BY DEF InUse
    <3> QED
      BY <1>0, <3>1, CloseIs
  <2>2. SeqDiff(Wire(m), Wire(n)) = m - n
    BY <2>1, HalfType, WireDiff
  <2> QED
    BY <2>1, <2>2 DEF SeqLess
<1>2. PICK n \in Held : \A m \in Held : n <= m
  BY <1>0, LeastExists
<1>3. \A m \in Held : ~SeqLess(Wire(m), Wire(n))
  BY <1>0, <1>1, <1>2
<1>4. Top \in Held /\ \A m \in Held : ~SeqLess(Wire(m), Wire(Top))
  BY <1>3 DEF Top
<1> QED
  BY <1>0, <1>1, <1>4

-----------------------------------------------------------------------------
(* Types.                                                                  *)

(* The components of the type invariant.                                   *)
LEMMA TypeParts ==
  ASSUME JitterTypeOK
  PROVE  /\ arrivals \in [Places -> Nat] /\ heap \in [Places -> Nat]
         /\ queue \in Seq([n : Places, at : Nat]) /\ queueDropped \in Nat
         /\ firstAt \in Nat \cup {Nil} /\ next \in Wires \cup {Nil} /\ holdUntil \in Nat
         /\ last \in Wires \cup {Nil} /\ out \in Seq(Places) /\ newest \in Nat
         /\ received \in Nat /\ released \in Nat /\ lost \in Nat
         /\ dropped \in [{"late", "dup", "full"} -> Nat]
         /\ clock \in Nat /\ tick \in Nat \cup {Nil} /\ flushing \in Nat \cup {Nil}
BY DEF JitterTypeOK

(* The bounds and capacities are numbers, Nil is not one.                  *)
LEMMA Numbers ==
  /\ MaxCopies \in Nat /\ BufferTime \in Nat /\ MaxLate \in Nat /\ QueueCap \in Nat
  /\ OutCap \in Nat /\ Nil \notin Nat /\ Nil \notin Wires
<1>1. Wires \subseteq Int
  BY HalfType DEF Wires
<1>2. {MaxCopies, BufferTime, MaxLate, QueueCap, OutCap} \subseteq Nat
  BY JitterAssumption
<1>3. Nil \notin Int
  BY JitterAssumption
<1>4. Nil \notin Nat /\ Nil \notin Wires
  <2>1. Nil \in Nat => Nil \in Int
    OBVIOUS
  <2>2. Nil \in Wires => Nil \in Int
    BY <1>1
  <2> QED
    BY <1>3, <2>1, <2>2
<1>5. \A S : {MaxCopies, BufferTime, MaxLate, QueueCap, OutCap} \subseteq S =>
             /\ MaxCopies \in S /\ BufferTime \in S /\ MaxLate \in S /\ QueueCap \in S
             /\ OutCap \in S
  OBVIOUS
<1> QED
  BY <1>2, <1>4, <1>5

(* A counter of drops stays one.                                           *)
LEMMA DropTyped ==
  ASSUME JitterTypeOK, NEW r \in {"late", "dup", "full"}, Drop(r)
  PROVE  /\ dropped' \in [{"late", "dup", "full"} -> Nat]
         /\ dropped'["late"] + dropped'["dup"] + dropped'["full"] =
              dropped["late"] + dropped["dup"] + dropped["full"] + 1
<1>1. dropped \in [{"late", "dup", "full"} -> Nat] /\ dropped' = [dropped EXCEPT ![r] = @ + 1]
  BY TypeParts DEF Drop
<1> QED
  BY <1>1

(* Once a flush has begun, the buffer expects a packet.                    *)
LEMMA NextSet ==
  ASSUME JitterTypeOK, Anchored, flushing # Nil
  PROVE  next \in Wires /\ Wire(next + 1) \in Wires
<1>1. next \in Wires
  BY TypeParts DEF Anchored, Unset
<1>2. next \in Nat
  BY <1>1, HalfType DEF Wires
<1> QED
  BY <1>1, <1>2, WireRange

(* Advance keeps the types.                                                *)
LEMMA AdvanceTyped ==
  ASSUME JitterTypeOK, Anchored, flushing # Nil, Advance
  PROVE  /\ last' \in Wires \cup {Nil} /\ next' \in Wires \cup {Nil} /\ holdUntil' \in Nat
         /\ firstAt' \in Nat \cup {Nil}
<1>1. flushing \in Nat
  BY TypeParts
<1>2. flushing + BufferTime \in Nat
  BY <1>1, Numbers
<1> QED
  BY <1>2, TypeParts, NextSet DEF Advance

(* Every step keeps the types.                                             *)
LEMMA StepTyped ==
  ASSUME JitterTypeOK, PlacesClose, Anchored, JitterNext
  PROVE  JitterTypeOK'
<1>1. ASSUME NEW n \in Places, Arrive(n) PROVE JitterTypeOK'
  <2>1. arrivals' \in [Places -> Nat]
    <3>1. arrivals' = [arrivals EXCEPT ![n] = @ + 1]
      BY <1>1 DEF Arrive
    <3> QED
      BY <3>1, TypeParts
  <2>2. queue' \in Seq([n : Places, at : Nat]) /\ queueDropped' \in Nat
    <3>0. [n |-> n, at |-> clock] \in [n : Places, at : Nat]
      <4>1. clock \in Nat
        BY TypeParts
      <4> QED
        BY <4>1
    <3>1. PICK p : p = [n |-> n, at |-> clock] /\ p \in [n : Places, at : Nat]
      BY <3>0
    <3>2. Append(queue, p) \in Seq([n : Places, at : Nat])
      BY <3>1, TypeParts, AppendProperties
    <3>3. \/ queue' = Append(queue, p) /\ queueDropped' = queueDropped
          \/ queue' = queue /\ queueDropped' = queueDropped + 1
      BY <1>1, <3>1 DEF Arrive
    <3>4. queue \in Seq([n : Places, at : Nat]) /\ queueDropped \in Nat
      BY TypeParts
    <3>5. queueDropped + 1 \in Nat
      BY <3>4
    <3> QED
      BY <3>2, <3>3, <3>4, <3>5
  <2> QED
    BY <1>1, <2>1, <2>2 DEF Arrive, JitterTypeOK, stateVars, countVars, timeVars
<1>2. CASE PushRejects
  <2>1. queue' \in Seq([n : Places, at : Nat])
    BY <1>2, TypeParts, HeadTailProperties DEF PushRejects, Dequeue
  <2>2. dropped' \in [{"late", "dup", "full"} -> Nat]
    BY <1>2, DropTyped DEF PushRejects
  <2> QED
    BY <1>2, <2>1, <2>2 DEF PushRejects, Dequeue, JitterTypeOK, timeVars
<1>3. CASE PushAccepts
  <2>1. queue' \in Seq([n : Places, at : Nat]) /\ Head(queue) \in [n : Places, at : Nat]
    BY <1>3, TypeParts, HeadTailProperties DEF PushAccepts, Dequeue
  <2>2. heap' \in [Places -> Nat]
    <3>1. PICK n \in Places : heap' = [heap EXCEPT ![n] = @ + 1]
      BY <1>3, <2>1 DEF PushAccepts
    <3> QED
      BY <3>1, TypeParts
  <2>3. received' \in Nat /\ firstAt' \in Nat \cup {Nil} /\ dropped' = dropped
    BY <1>3, TypeParts DEF PushAccepts
  <2> QED
    BY <1>3, <2>1, <2>2, <2>3 DEF PushAccepts, Dequeue, JitterTypeOK, timeVars
<1>4. CASE Tick
  BY <1>4 DEF Tick, JitterTypeOK, netVars, stateVars, countVars
<1>5. CASE FlushIdle
  BY <1>5 DEF FlushIdle, JitterTypeOK, netVars, stateVars, countVars
<1>6. CASE FlushStart
  <2>1. tick \in Nat /\ tick + BufferTime \in Nat
    BY <1>6, TypeParts, Numbers DEF FlushStart
  <2>2. next' \in Wires \cup {Nil} /\ holdUntil' \in Nat
    <3>1. CASE next = Nil
      <4>1. Held # {}
        BY <1>6, <3>1 DEF FlushStart, FlushReturns
      <4>2. Top \in Nat
        BY <4>1, TopIsOldest, PlacesTyped DEF Held
      <4> QED
        BY <1>6, <2>1, <3>1, <4>2, WireRange DEF FlushStart
    <3>2. CASE next # Nil
      BY <1>6, <3>2, TypeParts DEF FlushStart
    <3> QED
      BY <3>1, <3>2
  <2> QED
    BY <1>6, <2>1, <2>2 DEF FlushStart, JitterTypeOK, netVars, countVars
<1>7. CASE FlushEnd
  BY <1>7 DEF FlushEnd, JitterTypeOK, netVars, stateVars, countVars, timeVars
<1>8. ASSUME NEW n \in Places, heap[n] > 0, Pop(n) PROVE heap' \in [Places -> Nat]
  <2>1. heap[n] - 1 \in Nat
    BY <1>8, TypeParts
  <2> QED
    BY <1>8, <2>1, TypeParts DEF Pop
<1>9. ASSUME NEW n \in Places, AtTop(n) PROVE flushing # Nil /\ heap[n] > 0
  BY <1>9, TopIsOldest DEF AtTop, Held
<1>10. ASSUME NEW n \in Places, Release(n) PROVE JitterTypeOK'
  <2>1. heap' \in [Places -> Nat] /\ flushing # Nil
    BY <1>8, <1>9, <1>10 DEF Release
  <2>2. /\ last' \in Wires \cup {Nil} /\ next' \in Wires \cup {Nil} /\ holdUntil' \in Nat
        /\ firstAt' \in Nat \cup {Nil}
    BY <1>10, <2>1, AdvanceTyped DEF Release
  <2>3. out' \in Seq(Places) /\ released' \in Nat /\ dropped' \in [{"late", "dup", "full"} -> Nat]
    <3>1. Append(out, n) \in Seq(Places) /\ released + 1 \in Nat
      BY TypeParts, AppendProperties
    <3> QED
      BY <1>10, <3>1, TypeParts, DropTyped DEF Release
  <2>4. newest' \in Nat
    BY <1>10, PlacesTyped DEF Release
  <2>5. UNCHANGED <<arrivals, queue, queueDropped, received, lost, clock, tick, flushing>>
    BY <1>10 DEF Release, netVars, timeVars
  <2> QED
    BY <2>1, <2>2, <2>3, <2>4, <2>5 DEF JitterTypeOK
<1>11. ASSUME NEW n \in Places, DropOld(n) PROVE JitterTypeOK'
  <2>1. heap' \in [Places -> Nat] /\ dropped' \in [{"late", "dup", "full"} -> Nat]
    BY <1>8, <1>9, <1>11, DropTyped DEF DropOld
  <2> QED
    BY <1>11, <2>1 DEF DropOld, JitterTypeOK, netVars, stateVars, timeVars
<1>12. ASSUME NEW n \in Places, DeclareLost(n) PROVE JitterTypeOK'
  <2>1. /\ last' \in Wires \cup {Nil} /\ next' \in Wires \cup {Nil} /\ holdUntil' \in Nat
        /\ firstAt' \in Nat \cup {Nil}
    BY <1>9, <1>12, AdvanceTyped DEF DeclareLost
  <2>2. /\ lost' = lost + 1
        /\ received' = received /\ released' = released /\ dropped' = dropped
        /\ arrivals' = arrivals /\ heap' = heap /\ queue' = queue
        /\ queueDropped' = queueDropped /\ out' = out /\ newest' = newest
        /\ clock' = clock /\ tick' = tick /\ flushing' = flushing
    BY <1>12 DEF DeclareLost, netVars, timeVars
  <2>3. {received', released', lost'} \subseteq Nat
    BY ONLY <2>2, TypeParts, JitterTypeOK
  <2>4. arrivals' \in [Places -> Nat] /\ heap' \in [Places -> Nat]
    BY ONLY <2>2, TypeParts, JitterTypeOK
  <2>5. queue' \in Seq([n : Places, at : Nat]) /\ queueDropped' \in Nat /\ out' \in Seq(Places)
    BY ONLY <2>2, TypeParts, JitterTypeOK
  <2>6. dropped' \in [{"late", "dup", "full"} -> Nat]
    BY ONLY <2>2, TypeParts, JitterTypeOK
  <2>7. /\ newest' \in Nat /\ clock' \in Nat
        /\ tick' \in Nat \cup {Nil} /\ flushing' \in Nat \cup {Nil}
    BY ONLY <2>2, TypeParts, JitterTypeOK
  <2> QED
    BY ONLY <2>1, <2>3, <2>4, <2>5, <2>6, <2>7 DEF JitterTypeOK
<1>13. CASE Take
  <2>1. out' \in Seq(Places)
    BY <1>13, TypeParts, HeadTailProperties DEF Take
  <2> QED
    BY <1>13, <2>1 DEF Take, JitterTypeOK, netVars, stateVars, countVars, timeVars
<1>14. CASE TimePasses
  BY <1>14 DEF TimePasses, JitterTypeOK, netVars, stateVars, countVars
<1> QED
  BY <1>1, <1>2, <1>3, <1>4, <1>5, <1>6, <1>7, <1>10, <1>11, <1>12, <1>13, <1>14 DEF JitterNext, Flush

-----------------------------------------------------------------------------
(* The place behind next.                                                  *)

(* The places in use are numbers.                                          *)
LEMMA InUseTyped ==
  ASSUME JitterTypeOK
  PROVE  InUse \subseteq Nat \ {0} /\ Held \subseteq InUse /\ Queued \subseteq InUse
         /\ KeptPlaces \subseteq InUse
<1>1. Held \subseteq Nat \ {0}
  BY PlacesTyped DEF Held
<1>2. \A i \in 1 .. Len(queue) : queue[i] \in [n : Places, at : Nat]
  BY TypeParts, ElementOfSeq, Zenon
<1>3. Queued \subseteq Places
  BY <1>2 DEF Queued
<1>4. Queued \subseteq Nat \ {0}
  BY <1>3, PlacesTyped
<1>5. newest \in Nat
  BY TypeParts
<1> QED
  BY <1>1, <1>4, <1>5 DEF InUse, KeptPlaces

(* N is not before all places kept, and at most one after the last.        *)
LEMMA AtPlace ==
  ASSUME JitterTypeOK, PlacesClose, NEW N \in Nat, At(N), NEW n \in InUse
  PROVE  /\ n \in Nat /\ n - N < Half /\ N - n <= Half
         /\ N - 1 \in Nat /\ (N - 1) - n < Half
<1>1. PICK a \in InUse : a <= N
  BY InUseTyped DEF At
<1>2. PICK b \in InUse : N - 1 <= b
  BY InUseTyped DEF At
<1>3. a \in Nat /\ a # 0 /\ b \in Nat /\ n \in Nat /\ Half \in Nat
  BY InUseTyped, HalfType
<1>4. n - a < Half /\ b - n < Half
  BY CloseIs
<1> QED
  BY <1>1, <1>2, <1>3, <1>4

(* To compare a packet with next is to compare its place with N.           *)
LEMMA ComparesNext ==
  ASSUME JitterTypeOK, PlacesClose, NEW N \in Nat, At(N), NEW n \in InUse
  PROVE  SeqDiff(Wire(n), next) = n - N
BY AtPlace, WireDiff DEF At

(* A packet that Push does not find stale is not before N.                 *)
LEMMA NotStale ==
  ASSUME JitterTypeOK, PlacesClose, NEW N \in Nat, At(N), last # Nil, NEW n \in InUse,
         ~(SeqDiff(Wire(n), last) <= 0)
  PROVE  N <= n
<1>1. SUFFICES ASSUME n < N PROVE FALSE
  BY AtPlace
<1>2. PICK k \in Nat : k = N - 1
  BY AtPlace
<1>3. n \in Nat /\ n - k <= 0 /\ k - n < Half /\ Half \in Nat \ {0}
  BY <1>1, <1>2, AtPlace, HalfType
<1>4. n - k < Half /\ k - n <= Half
  BY <1>3
<1>5. SeqDiff(Wire(n), Wire(k)) = n - k
  BY <1>3, <1>4, WireDiff
<1> QED
  BY <1>2, <1>3, <1>5 DEF At

(* What N is does not depend on the rest of the state.                     *)
LEMMA AnchorKept ==
  ASSUME Anchored, UNCHANGED <<next, last, heap, newest, flushing>>
  PROVE  Anchored'
BY DEF Anchored, Unset, At, Held, KeptPlaces

(* The packet at the top is held, and the oldest.                          *)
LEMMA AtTopParts ==
  ASSUME PlacesClose, NEW n \in Places, AtTop(n)
  PROVE  flushing # Nil /\ n \in Held /\ \A m \in Held : n <= m
BY TopIsOldest DEF AtTop

(* A packet that is popped may remain as a copy, and nothing else changes. *)
LEMMA PopHolds ==
  ASSUME JitterTypeOK, NEW n \in Places, Pop(n)
  PROVE  Held' \subseteq Held
BY TypeParts DEF Pop, Held

(* Advance moves on by one place.                                          *)
LEMMA Advances ==
  ASSUME JitterTypeOK, NEW N \in Nat, At(N), next # Nil, Advance
  PROVE  next' = Wire(N + 1) /\ last' = Wire(N) /\ last' # Nil /\ next' # Nil
<1>1. next \in Wires /\ next = Wire(N)
  BY TypeParts DEF At
<1>2. next' = Wire(N + 1)
  BY <1>1, WireRange DEF Advance
<1>3. Wire(N + 1) \in Wires
  BY WireRange
<1> QED
  BY <1>1, <1>2, <1>3, Numbers DEF Advance

(* While flush runs the buffer expects a place.                            *)
LEMMA Expects ==
  ASSUME Anchored, flushing # Nil
  PROVE  next # Nil /\ \E N \in Nat : At(N)
BY DEF Anchored, Unset

(* A packet that is released is the one expected, and so newer than all    *)
(* before it.                                                              *)
LEMMA ReleaseExpected ==
  ASSUME JitterTypeOK, PlacesClose, Anchored, NEW n \in Places, Release(n)
  PROVE  At(n)
<1>1. AtTop(n) /\ SeqDiff(Wire(n), next) = 0
  BY DEF Release
<1>2. PICK N \in Nat : At(N)
  BY <1>1, AtTopParts, Expects
<1>i. n \in InUse
  BY <1>1, AtTopParts, InUseTyped
<1>3. n - N = 0 /\ n \in Nat
  BY <1>1, <1>2, <1>i, ComparesNext, AtPlace
<1>4. n = N
  BY <1>3
<1> QED
  BY <1>2, <1>4

(* A packet that flush throws away is a copy of the newest.                *)
LEMMA OldIsNewest ==
  ASSUME JitterTypeOK, PlacesClose, Anchored, NEW n \in Places, DropOld(n)
  PROVE  n = newest
<1>1. AtTop(n) /\ SeqDiff(Wire(n), next) < 0
  BY DEF DropOld
<1>2. PICK N \in Nat : At(N)
  BY <1>1, AtTopParts, Expects
<1>i. n \in InUse
  BY <1>1, AtTopParts, InUseTyped
<1>3. n - N < 0 /\ n \in Nat
  BY <1>1, <1>2, <1>i, ComparesNext, AtPlace
<1> QED
  BY <1>1, <1>2, <1>3, AtTopParts DEF At

(* Every step keeps a place behind next.                                   *)
LEMMA StepAnchored ==
  ASSUME JitterTypeOK, PlacesClose, Anchored, JitterNext
  PROVE  Anchored'
<1>1. ASSUME NEW n \in Places, Arrive(n) PROVE Anchored'
  BY <1>1, AnchorKept DEF Arrive, stateVars
<1>2. CASE PushRejects
  BY <1>2, AnchorKept DEF PushRejects, Dequeue
<1>3. CASE PushAccepts
  <2>1. /\ flushing = Nil /\ queue # <<>> /\ ~Stale(Head(queue))
        /\ heap' = [heap EXCEPT ![Head(queue).n] = @ + 1]
        /\ UNCHANGED <<next, last, newest, flushing>>
    BY <1>3 DEF PushAccepts, Dequeue
  <2>2. PICK n \in Places : n = Head(queue).n
    <3>1. Head(queue) \in [n : Places, at : Nat]
      BY <2>1, TypeParts, HeadTailProperties
    <3> QED
      BY <3>1
  <2>3. Held' \subseteq Held \cup {n}
    BY <2>1, <2>2, TypeParts DEF Held
  <2>4. CASE next = Nil
    BY <2>1, <2>4 DEF Anchored, Unset
  <2>5. CASE next # Nil
    <3>1. PICK N \in Nat : At(N)
      BY <2>5 DEF Anchored
    <3>2. last # Nil
      BY <2>1, <3>1 DEF At
    <3>i. n \in InUse
      <4>1. 1 \in 1 .. Len(queue) /\ Head(queue) = queue[1]
        <5>1. queue \in Seq([n : Places, at : Nat]) /\ queue # <<>>
          BY <2>1, TypeParts
        <5>2. Len(queue) \in Nat /\ Len(queue) # 0 /\ Head(queue) = queue[1]
          BY <5>1, HeadTailProperties, EmptySeq, LenProperties
        <5> QED
          BY <5>2
      <4>2. n \in Queued
        BY <2>2, <4>1 DEF Queued
      <4> QED
        BY <4>2, InUseTyped
    <3>3. N <= n
      BY <2>1, <2>2, <3>1, <3>2, <3>i, NotStale DEF Stale
    <3>k. KeptPlaces \subseteq KeptPlaces'
      <4>0. heap \in [Places -> Nat] /\ heap' = [heap EXCEPT ![n] = @ + 1]
        BY <2>1, <2>2, TypeParts
      <4>1. \A m \in Places : heap[m] > 0 => heap'[m] > 0
        BY <4>0
      <4>2. Held \subseteq Held'
        BY <4>1 DEF Held
      <4> QED
        BY <2>1, <4>2 DEF KeptPlaces
    <3>4. \A k \in Held' : k < N => FALSE
      <4>1. n \in Nat
        BY PlacesTyped
      <4> QED
        BY <2>1, <2>3, <3>1, <3>3, <4>1 DEF At
    <3>5. At(N)'
      BY <2>1, <3>1, <3>2, <3>4, <3>k DEF At
    <3> QED
      BY <2>1, <2>5, <3>5 DEF Anchored
  <2> QED
    BY <2>4, <2>5
<1>4. CASE Tick
  BY <1>4, AnchorKept DEF Tick, stateVars
<1>5. CASE FlushIdle
  BY <1>5, AnchorKept DEF FlushIdle, stateVars
<1>6. CASE FlushStart
  <2>1. /\ tick # Nil /\ flushing = Nil /\ flushing' = tick /\ Held' = Held
        /\ UNCHANGED <<last, newest>>
    BY <1>6 DEF FlushStart, Held
  <2>2. CASE next = Nil
    <3>1. Held # {} /\ last = Nil /\ newest = 0 /\ next' = Wire(Top)
      BY <1>6, <2>2 DEF FlushStart, FlushReturns, Anchored, Unset
    <3>2. PICK n \in Places : n = Top /\ n \in Held /\ \A m \in Held : n <= m
      BY <3>1, TopIsOldest DEF Held
    <3>3. n \in Nat /\ n # 0 /\ next' \in Wires
      BY <3>1, <3>2, PlacesTyped, WireRange
    <3>4. \A k \in Held : k \in Nat
      BY PlacesTyped DEF Held
    <3>5. At(n)'
      <4>1. next' = Wire(n) /\ last' = Nil /\ newest' < n /\ n <= n /\ n - 1 <= n
        BY <2>1, <3>1, <3>2, <3>3
      <4>2. \A k \in Held' : ~(k < n)
        BY <2>1, <3>2, <3>3, <3>4
      <4>3. flushing' # Nil /\ n \in Held' /\ \A k \in Held' : n <= k
        BY <2>1, <3>2
      <4>4. n \in KeptPlaces'
        BY <4>3 DEF KeptPlaces
      <4> QED
        BY <4>1, <4>2, <4>3, <4>4 DEF At
    <3> QED
      BY <3>3, <3>5, Numbers DEF Anchored
  <2>3. CASE next # Nil
    <3>1. PICK N \in Nat : At(N)
      BY <2>3 DEF Anchored
    <3>2. next' = next
      BY <1>6, <2>3 DEF FlushStart
    <3>3. At(N)'
      BY <2>1, <3>1, <3>2 DEF At, KeptPlaces
    <3> QED
      BY <2>3, <3>2, <3>3 DEF Anchored
  <2> QED
    BY <2>2, <2>3
<1>7. CASE FlushEnd
  <2>1. /\ flushing # Nil /\ Held' = Held /\ UNCHANGED <<next, last, newest>>
        /\ Held # {} => SeqDiff(Wire(Top), next) > 0
    BY <1>7 DEF FlushEnd, Held, stateVars
  <2>2. next # Nil
    BY <2>1, Expects
  <2>3. PICK N \in Nat : At(N)
    BY <2>1, Expects
  <2>4. \A k \in Held : k \in Nat /\ k > N
    <3> SUFFICES ASSUME NEW k \in Held PROVE k \in Nat /\ k > N
      OBVIOUS
    <3>1. PICK n \in Places : n = Top /\ n <= k
      BY TopIsOldest DEF Held
    <3>2. n - N > 0
      <4>1. n \in InUse
        BY <3>1, TopIsOldest, InUseTyped
      <4> QED
        BY <2>1, <2>3, <3>1, <4>1, ComparesNext
    <3>3. n \in Nat /\ k \in Nat
      BY <3>1, PlacesTyped DEF Held
    <3> QED
      BY <3>1, <3>2, <3>3
  <2>5. N \notin Held /\ \A k \in Held : ~(k < N)
    BY <2>4
  <2>6. At(N)'
    BY <2>1, <2>3, <2>5 DEF At, KeptPlaces
  <2> QED
    BY <2>1, <2>2, <2>6 DEF Anchored
<1>8. ASSUME NEW n \in Places, Release(n) PROVE Anchored'
  <2>1. /\ flushing # Nil /\ n \in Held /\ \A m \in Held : n <= m
        /\ next # Nil /\ At(n) /\ n \in Nat
    BY <1>8, AtTopParts, Expects, ReleaseExpected, PlacesTyped DEF Release
  <2>2. flushing' = flushing /\ newest' = n /\ Held' \subseteq Held
    BY <1>8, PopHolds DEF Release
  <2>3. next' = Wire(n + 1) /\ last' = Wire(n) /\ last' # Nil /\ next' # Nil
    BY <1>8, <2>1, Advances DEF Release
  <2>4. \A k \in Held' : k < n + 1 => k = n
    <3>1. \A k \in Held : k \in Nat
      BY PlacesTyped DEF Held
    <3> QED
      BY <2>1, <2>2, <3>1
  <2>5. n <= n + 1 /\ (n + 1) - 1 = n /\ n <= n /\ n < n + 1 /\ n + 1 \in Nat
    BY <2>1
  <2>k. n \in KeptPlaces'
    BY <2>2, PlacesTyped DEF KeptPlaces
  <2>6. At(n + 1)'
    BY <2>1, <2>2, <2>3, <2>4, <2>5, <2>k DEF At
  <2> QED
    BY <2>3, <2>5, <2>6 DEF Anchored
<1>9. ASSUME NEW n \in Places, DropOld(n) PROVE Anchored'
  <2>1. flushing # Nil /\ n \in Held /\ next # Nil /\ n \in Nat
    BY <1>9, AtTopParts, Expects, PlacesTyped DEF DropOld
  <2>2. PICK N \in Nat : At(N)
    BY <2>1, Expects
  <2>3. Held' \subseteq Held /\ UNCHANGED <<next, last, newest, flushing>>
    BY <1>9, PopHolds DEF DropOld, stateVars
  <2>4. n < N
    <3>1. n - N < 0
      BY <1>9, <2>1, <2>2, InUseTyped, ComparesNext DEF DropOld
    <3> QED
      BY <2>1, <3>1
  <2>5. last # Nil
    BY <2>1, <2>2, <2>4 DEF At
  <2>k. KeptPlaces' = KeptPlaces
    <3>1. n = newest /\ newest # 0
      BY <1>9, OldIsNewest, PlacesTyped
    <3>2. \A m \in Places : m # n => (m \in Held' <=> m \in Held)
      BY <1>9, TypeParts DEF DropOld, Pop, Held
    <3> QED
      BY <2>1, <2>3, <3>1, <3>2 DEF KeptPlaces, Held
  <2>6. At(N)'
    BY <2>2, <2>3, <2>5, <2>k DEF At
  <2> QED
    BY <2>1, <2>3, <2>6 DEF Anchored
<1>10. ASSUME NEW n \in Places, DeclareLost(n) PROVE Anchored'
  <2>1. flushing # Nil /\ n \in Held /\ next # Nil /\ n \in Nat /\ \A m \in Held : n <= m
    BY <1>10, AtTopParts, Expects, PlacesTyped DEF DeclareLost
  <2>2. PICK N \in Nat : At(N)
    BY <2>1, Expects
  <2>3. Held' = Held /\ UNCHANGED <<newest, flushing>>
    BY <1>10 DEF DeclareLost, Held
  <2>4. next' = Wire(N + 1) /\ last' = Wire(N) /\ last' # Nil /\ next' # Nil
    BY <1>10, <2>1, <2>2, Advances DEF DeclareLost
  <2>5. N < n
    <3>1. n - N > 0
      BY <1>10, <2>1, <2>2, InUseTyped, ComparesNext DEF DeclareLost
    <3> QED
      BY <2>1, <3>1
  <2>6. \A k \in Held : ~(k < N + 1)
    <3>1. \A k \in Held : k \in Nat
      BY PlacesTyped DEF Held
    <3> QED
      BY <2>1, <2>5, <3>1
  <2>7. PICK a \in KeptPlaces : a <= N
    BY <2>2 DEF At
  <2>k. KeptPlaces' = KeptPlaces /\ n \in KeptPlaces
    BY <2>1, <2>3 DEF KeptPlaces
  <2>8. a <= N + 1 /\ (N + 1) - 1 = N /\ N <= n /\ newest < N + 1 /\ N + 1 \in Nat
    <3>1. a \in Nat /\ newest \in Nat /\ newest < N
      BY <2>2, InUseTyped, TypeParts DEF At
    <3> QED
      BY <2>1, <2>5, <2>7, <3>1
  <2>9. At(N + 1)'
    <3>1. \A k \in Held' : k < N + 1 => FALSE
      BY <2>3, <2>6
    <3>2. last' = Wire((N + 1) - 1)
      BY <2>4, <2>8
    <3> QED
      BY <2>3, <2>4, <2>7, <2>8, <2>k, <3>1, <3>2 DEF At
  <2> QED
    BY <2>4, <2>8, <2>9 DEF Anchored
<1>11. CASE Take
  BY <1>11, AnchorKept DEF Take, stateVars
<1>12. CASE TimePasses
  BY <1>12, AnchorKept DEF TimePasses, stateVars
<1> QED
  BY <1>1, <1>2, <1>3, <1>4, <1>5, <1>6, <1>7, <1>8, <1>9, <1>10, <1>11, <1>12 DEF JitterNext, Flush

(* A packet that is taken off the queue may only be in use elsewhere.      *)
LEMMA QueueShrinks ==
  ASSUME JitterTypeOK, Dequeue
  PROVE  Queued' \subseteq Queued /\ Head(queue).n \in Queued
<1>1. queue # <<>> /\ queue' = Tail(queue) /\ queue \in Seq([n : Places, at : Nat])
  BY TypeParts DEF Dequeue
<1>2. /\ Len(queue') = Len(queue) - 1 /\ Len(queue) \in Nat \ {0}
      /\ \A i \in 1 .. Len(queue') : queue'[i] = queue[i + 1]
  BY <1>1, HeadTailProperties
<1>3. Queued' \subseteq Queued
  <2> SUFFICES ASSUME NEW i \in 1 .. Len(queue') PROVE queue'[i].n \in Queued
    BY DEF Queued
  <2>1. i + 1 \in 1 .. Len(queue) /\ queue'[i] = queue[i + 1]
    BY <1>2
  <2> QED
    BY <2>1 DEF Queued
<1>4. 1 \in 1 .. Len(queue) /\ Head(queue) = queue[1]
  BY <1>1, <1>2, HeadTailProperties
<1> QED
  BY <1>3, <1>4 DEF Queued

(* A new place is near all those in use, and no other step adds one.       *)
LEMMA StepPlacesClose ==
  ASSUME JitterTypeOK, PlacesClose, Anchored, JitterNext
  PROVE  PlacesClose'
<1>k. ASSUME InUse' \subseteq InUse PROVE PlacesClose'
  BY <1>k DEF PlacesClose, Near
<1>1. ASSUME NEW n \in Places, Arrive(n) PROVE PlacesClose'
  <2>1. /\ \A m \in InUse : Near(m, n)
        /\ Held' = Held /\ newest' = newest
    BY <1>1 DEF Arrive, Held
  <2>2. Queued' \subseteq Queued \cup {n}
    <3>1. CASE queue' = Append(queue, [n |-> n, at |-> clock])
      <4>1. queue \in Seq([n : Places, at : Nat])
        BY TypeParts
      <4>2. PICK p : p = [n |-> n, at |-> clock]
        OBVIOUS
      <4>3. /\ Len(queue') = Len(queue) + 1 /\ Len(queue) \in Nat
            /\ \A i \in 1 .. Len(queue) : queue'[i] = queue[i]
            /\ queue'[Len(queue) + 1] = p
        BY <3>1, <4>1, <4>2
      <4> SUFFICES ASSUME NEW i \in 1 .. Len(queue') PROVE queue'[i].n \in Queued \cup {n}
        BY DEF Queued
      <4>4. i \in 1 .. Len(queue) \/ i = Len(queue) + 1
        BY <4>3
      <4> QED
        BY <4>2, <4>3, <4>4 DEF Queued
    <3>2. CASE queue' = queue
      BY <3>2 DEF Queued
    <3> QED
      BY <1>1, <3>1, <3>2 DEF Arrive
  <2>3. InUse' \subseteq InUse \cup {n}
    BY <2>1, <2>2 DEF InUse
  <2>4. Near(n, n)
    BY PlacesTyped, HalfType DEF Near, Half
  <2>5. \A m \in InUse : Near(n, m)
    BY <2>1 DEF Near
  <2> QED
    BY <2>1, <2>3, <2>4, <2>5 DEF PlacesClose, Near
<1>2. CASE PushRejects
  <2>1. Held' = Held /\ newest' = newest /\ Queued' \subseteq Queued
    BY <1>2, QueueShrinks DEF PushRejects, Dequeue, Held
  <2> QED
    BY <1>k, <2>1 DEF InUse
<1>3. CASE PushAccepts
  <2>1. newest' = newest /\ Queued' \subseteq Queued /\ Head(queue).n \in Queued
    BY <1>3, QueueShrinks DEF PushAccepts, Dequeue
  <2>2. heap' = [heap EXCEPT ![Head(queue).n] = @ + 1]
    BY <1>3 DEF PushAccepts
  <2>3. Held' \subseteq Held \cup {Head(queue).n}
    BY <2>2, TypeParts DEF Held
  <2> QED
    BY <1>k, <2>1, <2>3 DEF InUse
<1>4. ASSUME UNCHANGED <<queue, heap, newest>> PROVE PlacesClose'
  BY <1>4, <1>k DEF InUse, Queued, Held
<1>5. CASE Tick \/ FlushIdle \/ FlushStart \/ FlushEnd \/ Take \/ TimePasses
  BY <1>4, <1>5 DEF Tick, FlushIdle, FlushStart, FlushEnd, Take, TimePasses, netVars
<1>6. ASSUME NEW n \in Places, DeclareLost(n) PROVE PlacesClose'
  BY <1>4, <1>6 DEF DeclareLost, netVars
<1>7. ASSUME NEW n \in Places, Release(n) PROVE PlacesClose'
  <2>1. n \in Held /\ Held' \subseteq Held /\ queue' = queue /\ newest' = n
    BY <1>7, AtTopParts, PopHolds DEF Release, netVars
  <2> QED
    BY <1>k, <2>1 DEF InUse, Queued
<1>8. ASSUME NEW n \in Places, DropOld(n) PROVE PlacesClose'
  <2>1. Held' \subseteq Held /\ queue' = queue /\ newest' = newest
    BY <1>8, PopHolds DEF DropOld, netVars
  <2> QED
    BY <1>k, <2>1 DEF InUse, Queued
<1> QED
  BY <1>1, <1>2, <1>3, <1>5, <1>6, <1>7, <1>8 DEF JitterNext, Flush

-----------------------------------------------------------------------------
(* The books.                                                              *)

(* A copy of n is one of the first f[n].                                   *)
LEMMA CopyIs ==
  ASSUME NEW f \in [Places -> Nat], NEW c
  PROVE  c \in Copies(f) <=>
           \E n \in Places : \E k \in Nat \ {0} : c = <<n, k>> /\ k <= f[n]
<1>1. ASSUME NEW n \in Places
      PROVE  c \in {n} \X (1 .. f[n]) <=> \E k \in Nat \ {0} : c = <<n, k>> /\ k <= f[n]
  <2>1. PICK m \in Nat : m = f[n]
    OBVIOUS
  <2>2. \A k : k \in 1 .. m <=> k \in Nat \ {0} /\ k <= m
    BY <2>1
  <2>3. c \in {n} \X (1 .. m) <=> \E k \in 1 .. m : c = <<n, k>>
    OBVIOUS
  <2> QED
    BY <2>1, <2>2, <2>3
<1> QED
  BY <1>1 DEF Copies

(* One copy more.                                                          *)
LEMMA CopyAdded ==
  ASSUME NEW f \in [Places -> Nat], NEW n \in Places, IsFiniteSet(Copies(f)),
         NEW g, g = [f EXCEPT ![n] = @ + 1]
  PROVE  /\ IsFiniteSet(Copies(g))
         /\ Cardinality(Copies(g)) = Cardinality(Copies(f)) + 1
<1>1. PICK m \in Nat : m = f[n]
  OBVIOUS
<1>2. g \in [Places -> Nat] /\ g[n] = m + 1 /\ \A p \in Places : p # n => g[p] = f[p]
  BY <1>1
<1>3. PICK x : x = <<n, m + 1>>
  OBVIOUS
<1>4. x \notin Copies(f)
  <2> SUFFICES ASSUME NEW p \in Places, NEW k \in Nat \ {0}, x = <<p, k>>, k <= f[p] PROVE FALSE
    BY CopyIs
  <2>1. p = n /\ k = m + 1
    BY <1>3
  <2> QED
    BY <1>1, <2>1
<1>5. \A c : c \in Copies(g) <=> c \in Copies(f) \/ c = x
  <2> SUFFICES ASSUME NEW c PROVE c \in Copies(g) <=> c \in Copies(f) \/ c = x
    OBVIOUS
  <2>1. ASSUME NEW p \in Places, NEW k \in Nat \ {0}, c = <<p, k>>, k <= g[p]
        PROVE  c \in Copies(f) \/ c = x
    <3>1. CASE p # n
      BY <1>2, <2>1, <3>1, CopyIs
    <3>2. CASE p = n
      <4>1. k <= m \/ k = m + 1
        BY <1>2, <2>1, <3>2
      <4> QED
        BY <1>1, <1>3, <2>1, <3>2, <4>1, CopyIs
    <3> QED
      BY <3>1, <3>2
  <2>2. ASSUME NEW p \in Places, NEW k \in Nat \ {0}, c = <<p, k>>, k <= f[p]
        PROVE  c \in Copies(g)
    <3>1. k <= g[p]
      <4>1. f[p] \in Nat /\ (g[p] = f[p] \/ g[p] = f[p] + 1)
        BY <1>1, <1>2
      <4> QED
        BY <2>2, <4>1
    <3> QED
      BY <1>2, <2>2, <3>1, CopyIs
  <2>3. x \in Copies(g)
    <3>1. m + 1 \in Nat \ {0} /\ m + 1 <= g[n]
      BY <1>2
    <3> QED
      BY <1>2, <1>3, <3>1, CopyIs
  <2> QED
    BY <1>2, <2>1, <2>2, <2>3, CopyIs
<1>6. Copies(g) = Copies(f) \cup {x}
  BY <1>5
<1>7. \A S : IsFiniteSet(S) /\ x \notin S =>
              IsFiniteSet(S \cup {x}) /\ Cardinality(S \cup {x}) = Cardinality(S) + 1
  BY FS_AddElement
<1> QED
  BY <1>4, <1>6, <1>7

(* One copy less.                                                          *)
LEMMA CopyTaken ==
  ASSUME NEW f \in [Places -> Nat], NEW n \in Places, IsFiniteSet(Copies(f)), f[n] > 0,
         NEW g, g = [f EXCEPT ![n] = @ - 1]
  PROVE  /\ IsFiniteSet(Copies(g))
         /\ Cardinality(Copies(g)) + 1 = Cardinality(Copies(f))
         /\ Cardinality(Copies(g)) \in Nat
<1>1. PICK m \in Nat : f[n] = m + 1
  <2>1. f[n] - 1 \in Nat /\ f[n] = (f[n] - 1) + 1
    OBVIOUS
  <2> QED
    BY <2>1
<1>2. g \in [Places -> Nat] /\ g[n] = m /\ \A p \in Places : p # n => g[p] = f[p]
  BY <1>1
<1>3. f = [g EXCEPT ![n] = @ + 1]
  BY <1>1, <1>2
<1>4. Copies(g) \subseteq Copies(f)
  <2>1. \A p \in Places : g[p] \in Nat /\ f[p] \in Nat /\ g[p] <= f[p]
    BY <1>1, <1>2
  <2>2. ASSUME NEW c, NEW p \in Places, NEW k \in Nat \ {0}, c = <<p, k>>, k <= g[p]
        PROVE  c \in Copies(f)
    <3>1. k <= f[p]
      BY <2>1, <2>2
    <3> QED
      BY <2>2, <3>1, CopyIs
  <2>3. ASSUME NEW c, c \in Copies(g) PROVE c \in Copies(f)
    <3>1. PICK p \in Places : \E k \in Nat \ {0} : c = <<p, k>> /\ k <= g[p]
      BY <1>2, <2>3, CopyIs
    <3> QED
      BY <2>2, <3>1
  <2> QED
    BY <2>3
<1>5. IsFiniteSet(Copies(g))
  BY <1>4, FS_Subset
<1> QED
  BY <1>2, <1>3, <1>5, CopyAdded, FS_CardinalityType

(* What the reader took and what it must account for.                      *)
Taken == Cardinality(Copies(arrivals))
HeapSize == Cardinality(Copies(heap))
Drops == dropped["late"] + dropped["dup"] + dropped["full"]

(* The books as an equation of numbers.                                    *)
LEMMA BooksAre ==
  ASSUME JitterTypeOK, IsFiniteSet(Copies(arrivals)), IsFiniteSet(Copies(heap))
  PROVE  /\ Taken \in Nat /\ HeapSize \in Nat /\ Len(queue) \in Nat /\ queueDropped \in Nat
         /\ released \in Nat /\ Drops \in Nat
         /\ Conservation <=> Taken = Len(queue) + queueDropped + HeapSize + (released + Drops)
<1>1. Taken \in Nat /\ HeapSize \in Nat
  BY FS_CardinalityType DEF Taken, HeapSize
<1>2. Len(queue) \in Nat
  BY TypeParts, LenProperties
<1>3. dropped["late"] \in Nat /\ dropped["dup"] \in Nat /\ dropped["full"] \in Nat
  BY TypeParts
<1>4. released \in Nat /\ queueDropped \in Nat
  BY TypeParts
<1>5. Drops \in Nat /\ Counted = released + Drops
  BY <1>3, <1>4 DEF Counted, Drops
<1> QED
  BY <1>1, <1>2, <1>4, <1>5 DEF Conservation, Taken, HeapSize

(* A step that touches nothing the books count.                            *)
LEMMA BooksKept ==
  ASSUME Books, UNCHANGED <<arrivals, queue, queueDropped, heap, released, dropped>>
  PROVE  Books'
BY DEF Books, Conservation, Counted, Copies

(* Every step keeps the books.                                             *)
LEMMA StepBooks ==
  ASSUME JitterTypeOK, JitterTypeOK', PlacesClose, Books, JitterNext
  PROVE  Books'
<1>0. IsFiniteSet(Copies(arrivals)) /\ IsFiniteSet(Copies(heap)) /\ Conservation
  BY DEF Books
<1>00. PICK t, q, x, h, r, d \in Nat :
         /\ Taken = t /\ Len(queue) = q /\ queueDropped = x /\ HeapSize = h
         /\ released = r /\ Drops = d /\ t = q + x + h + (r + d)
  BY <1>0, BooksAre
<1>a. ASSUME NEW tt \in Nat, NEW qq \in Nat, NEW xx \in Nat, NEW hh \in Nat, NEW rr \in Nat,
             NEW dd \in Nat, tt = qq + xx + hh + (rr + dd),
             IsFiniteSet(Copies(arrivals)'), IsFiniteSet(Copies(heap)'),
             Taken' = tt, Len(queue') = qq, queueDropped' = xx, HeapSize' = hh,
             released' = rr, Drops' = dd
      PROVE  Books'
  <2>1. dropped'["late"] \in Nat /\ dropped'["dup"] \in Nat /\ dropped'["full"] \in Nat
    BY DEF JitterTypeOK
  <2>2. released' \in Nat
    BY <1>a
  <2>3. Counted' = released' + Drops'
    BY <2>1, <2>2 DEF Counted, Drops
  <2>4. Counted' = rr + dd
    BY <1>a, <2>3
  <2> QED
    BY <1>a, <2>4 DEF Books, Conservation, Taken, HeapSize
<1>b. ASSUME arrivals' = arrivals PROVE Taken' = t /\ IsFiniteSet(Copies(arrivals)')
  BY <1>b, <1>0, <1>00 DEF Taken, Copies
<1>c. ASSUME heap' = heap PROVE HeapSize' = h /\ IsFiniteSet(Copies(heap)')
  BY <1>c, <1>0, <1>00 DEF HeapSize, Copies
<1>d. ASSUME queue # <<>>, queue' = Tail(queue)
      PROVE  \E k \in Nat : Len(queue') = k /\ k + 1 = q
  <2>1. queue \in Seq([n : Places, at : Nat])
    BY TypeParts
  <2>2. Len(Tail(queue)) = Len(queue) - 1 /\ Len(queue) > 0
    BY <1>00, <1>d, <2>1, HeadTailProperties, EmptySeq
  <2>3. q - 1 \in Nat /\ (q - 1) + 1 = q
    BY <1>00, <2>2
  <2> QED
    BY <1>00, <1>d, <2>2, <2>3
<1>e. ASSUME NEW n \in Places, heap[n] > 0, Pop(n)
      PROVE  IsFiniteSet(Copies(heap)') /\ \E k \in Nat : HeapSize' = k /\ k + 1 = h
  <2>1. heap' = [heap EXCEPT ![n] = @ - 1] /\ heap \in [Places -> Nat]
    BY <1>e, TypeParts DEF Pop
  <2>2. PICK g : g = heap'
    OBVIOUS
  <2>3. Copies(heap)' = Copies(g)
    BY <2>2 DEF Copies
  <2>4. IsFiniteSet(Copies(g)) /\ Cardinality(Copies(g)) + 1 = Cardinality(Copies(heap))
        /\ Cardinality(Copies(g)) \in Nat
    BY <1>0, <1>e, <2>1, <2>2, CopyTaken
  <2> QED
    BY <1>00, <2>3, <2>4 DEF HeapSize
<1>g. ASSUME NEW c \in {"late", "dup", "full"}, Drop(c) PROVE Drops' = d + 1
  BY <1>00, <1>g, DropTyped DEF Drops
<1>h. ASSUME dropped' = dropped PROVE Drops' = d
  BY <1>00, <1>h DEF Drops
<1>f. ASSUME NEW n \in Places, AtTop(n) PROVE heap[n] > 0
  BY <1>f, TopIsOldest DEF AtTop, Held
<1>1. ASSUME NEW n \in Places, Arrive(n) PROVE Books'
  <2>1. PICK g : g = arrivals'
    OBVIOUS
  <2>2. arrivals \in [Places -> Nat] /\ g = [arrivals EXCEPT ![n] = @ + 1]
    BY <1>1, <2>1, TypeParts DEF Arrive
  <2>3. IsFiniteSet(Copies(g)) /\ Cardinality(Copies(g)) = t + 1
    BY <1>0, <1>00, <2>2, CopyAdded DEF Taken
  <2>4. Copies(arrivals)' = Copies(g)
    BY <2>1 DEF Copies
  <2>5. Taken' = t + 1 /\ IsFiniteSet(Copies(arrivals)')
    BY <2>3, <2>4 DEF Taken
  <2>6. heap' = heap /\ released' = r /\ Drops' = d
    BY <1>1, <1>00, <1>h DEF Arrive, countVars
  <2>7. \/ Len(queue') = q + 1 /\ queueDropped' = x
        \/ Len(queue') = q /\ queueDropped' = x + 1
    <3>1. PICK p : p = [n |-> n, at |-> clock]
      OBVIOUS
    <3>2. queue \in Seq([n : Places, at : Nat]) /\ p \in [n : Places, at : Nat]
      <4>1. clock \in Nat
        BY TypeParts
      <4> QED
        BY <3>1, <4>1, TypeParts
    <3>3. Len(Append(queue, p)) = Len(queue) + 1
      BY <3>2, AppendProperties
    <3>4. \/ queue' = Append(queue, p) /\ queueDropped' = queueDropped
          \/ queue' = queue /\ queueDropped' = queueDropped + 1
      BY <1>1, <3>1 DEF Arrive
    <3> QED
      BY <1>00, <3>3, <3>4
  <2>8. HeapSize' = h /\ IsFiniteSet(Copies(heap)')
    BY <1>c, <2>6
  <2> QED
    <3>1. t + 1 \in Nat /\ q + 1 \in Nat /\ x + 1 \in Nat
          /\ t + 1 = (q + 1) + x + h + (r + d) /\ t + 1 = q + (x + 1) + h + (r + d)
      BY <1>00
    <3> QED
      BY <1>a, <2>5, <2>6, <2>7, <2>8, <3>1
<1>2. CASE PushRejects
  <2>1. queue # <<>> /\ queue' = Tail(queue)
        /\ UNCHANGED <<arrivals, heap, queueDropped, released>>
    BY <1>2 DEF PushRejects, Dequeue
  <2>2. Drops' = d + 1
    BY <1>2, <1>g DEF PushRejects
  <2>3. PICK k \in Nat : Len(queue') = k /\ k + 1 = q
    BY <1>d, <2>1
  <2>4. t = k + x + h + (r + (d + 1)) /\ d + 1 \in Nat
    BY <1>00, <2>3
  <2>5. queueDropped' = x /\ released' = r
    BY <1>00, <2>1
  <2> QED
    BY <1>a, <1>b, <1>c, <2>1, <2>2, <2>3, <2>4, <2>5
<1>3. CASE PushAccepts
  <2>1. queue # <<>> /\ queue' = Tail(queue)
        /\ UNCHANGED <<arrivals, queueDropped, released, dropped>>
    BY <1>3 DEF PushAccepts, Dequeue
  <2>2. PICK n \in Places : n = Head(queue).n
    <3>1. Head(queue) \in [n : Places, at : Nat]
      BY <2>1, TypeParts, HeadTailProperties
    <3> QED
      BY <3>1
  <2>3. PICK g : g = heap'
    OBVIOUS
  <2>4. heap \in [Places -> Nat] /\ g = [heap EXCEPT ![n] = @ + 1]
    BY <1>3, <2>2, <2>3, TypeParts DEF PushAccepts
  <2>5. IsFiniteSet(Copies(g)) /\ Cardinality(Copies(g)) = h + 1
    BY <1>0, <1>00, <2>4, CopyAdded DEF HeapSize
  <2>6. Copies(heap)' = Copies(g)
    BY <2>3 DEF Copies
  <2>7. HeapSize' = h + 1 /\ IsFiniteSet(Copies(heap)')
    BY <2>5, <2>6 DEF HeapSize
  <2> QED
    <3>1. PICK k \in Nat : Len(queue') = k /\ k + 1 = q
      BY <1>d, <2>1
    <3>2. t = k + x + (h + 1) + (r + d) /\ h + 1 \in Nat
      BY <1>00, <3>1
    <3>3. queueDropped' = x /\ released' = r /\ Drops' = d
      BY <1>00, <1>h, <2>1
    <3> QED
      BY <1>a, <1>b, <2>1, <2>7, <3>1, <3>2, <3>3
<1>4. CASE Tick \/ FlushIdle \/ FlushStart \/ FlushEnd \/ Take \/ TimePasses
  BY <1>4, BooksKept DEF Tick, FlushIdle, FlushStart, FlushEnd, Take, TimePasses,
                         netVars, countVars
<1>i. ASSUME NEW n \in Places, Pop(n), heap[n] > 0,
             UNCHANGED <<arrivals, queue, queueDropped>>,
             \/ released' = r + 1 /\ Drops' = d
             \/ released' = r /\ Drops' = d + 1
      PROVE  Books'
  <2>1. PICK k \in Nat : HeapSize' = k /\ k + 1 = h
    BY <1>e, <1>i
  <2>2. /\ t = q + x + k + ((r + 1) + d) /\ t = q + x + k + (r + (d + 1))
        /\ r + 1 \in Nat /\ d + 1 \in Nat
    BY <1>00, <2>1
  <2>3. Taken' = t /\ Len(queue') = q /\ queueDropped' = x
    BY <1>00, <1>b, <1>i
  <2>4. IsFiniteSet(Copies(arrivals)') /\ IsFiniteSet(Copies(heap)')
    BY <1>b, <1>e, <1>i
  <2>5. CASE released' = r + 1 /\ Drops' = d
    BY <1>a, <2>1, <2>2, <2>3, <2>4, <2>5
  <2>6. CASE released' = r /\ Drops' = d + 1
    BY <1>a, <2>1, <2>2, <2>3, <2>4, <2>6
  <2> QED
    BY <1>i, <2>5, <2>6
<1>5. ASSUME NEW n \in Places, Release(n) PROVE Books'
  <2>1. UNCHANGED <<arrivals, queue, queueDropped>> /\ Pop(n) /\ heap[n] > 0
    BY <1>5, <1>f DEF Release, netVars
  <2>2. \/ released' = r + 1 /\ Drops' = d
        \/ released' = r /\ Drops' = d + 1
    BY <1>00, <1>5, <1>g, <1>h DEF Release
  <2> QED
    BY <1>i, <2>1, <2>2
<1>6. ASSUME NEW n \in Places, DropOld(n) PROVE Books'
  <2>1. UNCHANGED <<arrivals, queue, queueDropped>> /\ Pop(n) /\ heap[n] > 0
    BY <1>6, <1>f DEF DropOld, netVars
  <2>2. released' = r /\ Drops' = d + 1
    BY <1>00, <1>6, <1>g DEF DropOld
  <2> QED
    BY <1>i, <2>1, <2>2
<1>7. ASSUME NEW n \in Places, DeclareLost(n) PROVE Books'
  BY <1>7, BooksKept DEF DeclareLost, netVars
<1> QED
  BY <1>1, <1>2, <1>3, <1>4, <1>5, <1>6, <1>7 DEF JitterNext, Flush

-----------------------------------------------------------------------------
(* The theorems.                                                           *)

(* At first nothing has been sent.                                         *)
LEMMA InitIInv == JitterInit => HeapIInv
<1> SUFFICES ASSUME JitterInit PROVE HeapIInv
  OBVIOUS
<1>1. JitterTypeOK
  <2>2. <<>> \in Seq([n : Places, at : Nat]) /\ <<>> \in Seq(Places)
    BY EmptySeq
  <2> QED
    BY <2>2 DEF JitterInit, JitterTypeOK
<1>2. Anchored
  BY DEF JitterInit, Anchored, Unset
<1>3. Books
  <2>1. Copies(arrivals) = {} /\ Copies(heap) = {}
    <3>1. arrivals \in [Places -> Nat] /\ heap \in [Places -> Nat]
          /\ \A n \in Places : arrivals[n] = 0 /\ heap[n] = 0
      BY DEF JitterInit
    <3> QED
      BY <3>1, CopyIs
  <2>2. Len(queue) = 0 /\ queueDropped = 0
    BY EmptySeq DEF JitterInit
  <2>3. Counted = 0
    BY DEF Counted, JitterInit
  <2> QED
    BY <2>1, <2>2, <2>3, FS_EmptySet DEF Books, Conservation
<1>4. InUse = {}
  <2>1. Len(queue) = 0
    BY EmptySeq DEF JitterInit
  <2> QED
    BY <2>1 DEF JitterInit, InUse, Queued, Held
<1> QED
  BY <1>1, <1>2, <1>3, <1>4 DEF HeapIInv, PlacesClose

(* Every step keeps the invariant.                                         *)
LEMMA StepIInv == HeapIInv /\ [JitterNext]_jitterVars => HeapIInv'
<1> SUFFICES ASSUME HeapIInv, [JitterNext]_jitterVars PROVE HeapIInv'
  OBVIOUS
<1>0. JitterTypeOK /\ PlacesClose /\ Anchored /\ Books
  BY DEF HeapIInv
<1>1. CASE JitterNext
  BY <1>0, <1>1, StepTyped, StepAnchored, StepPlacesClose, StepBooks DEF HeapIInv
<1>2. CASE UNCHANGED jitterVars
  <2>1. UNCHANGED <<arrivals, queue, queueDropped, heap, firstAt, next, holdUntil, last>>
        /\ UNCHANGED <<received, released, lost, dropped, out, newest, clock, tick, flushing>>
    BY <1>2 DEF jitterVars, netVars, stateVars, countVars, timeVars
  <2>2. JitterTypeOK'
    BY <1>0, <2>1 DEF JitterTypeOK
  <2>3. PlacesClose'
    BY <1>0, <2>1 DEF PlacesClose, Near, InUse, Queued, Held
  <2> QED
    BY <1>0, <2>1, <2>2, <2>3, AnchorKept, BooksKept DEF HeapIInv
<1> QED
  BY <1>1, <1>2

(* The inductive invariant of the jitter buffer.                           *)
THEOREM JitterIInv == JitterSpec => []HeapIInv
<1> QED
  BY InitIInv, StepIInv, PTL DEF JitterSpec

(* From Push, flush and the reader: the fields stay in range over the      *)
(* wraparound, and every datagram is in the queue, in the heap or in one   *)
(* counter.                                                                *)
THEOREM DatagramsAccounted == JitterSpec => []JitterBufferInv
<1>1. HeapIInv => JitterBufferInv
  BY DEF HeapIInv, Books, JitterBufferInv
<1> QED
  BY <1>1, JitterIInv, PTL

(* From flush: packets are released in the order they were sent, each at   *)
(* most once, in a stream of any length, over any number of wraps of the   *)
(* sequence number, as long as no packet arrives half of the sequence      *)
(* space away from those that wait and the last one released (Arrive).     *)
THEOREM ReleasedInOrder == JitterSpec => InOrder
<1>1. ASSUME HeapIInv, NEW n \in Places, Release(n) PROVE n > newest
  <2>1. At(n) /\ n \in Nat /\ newest \in Nat
    BY <1>1, ReleaseExpected, PlacesTyped, TypeParts DEF HeapIInv
  <2> QED
    BY <2>1 DEF At
<1>2. HeapIInv => [\A n \in Places : Release(n) => n > newest]_jitterVars
  BY <1>1
<1> QED
  BY <1>2, JitterIInv, PTL DEF InOrder

(* From Push and flush: what Push accepted is thrown away as old only if   *)
(* a copy of it has gone through, in a stream of any length, under the     *)
(* same assumption on the network.                                         *)
THEOREM OnlyDuplicatesDropped == JitterSpec => DropsOnlyDuplicates
<1>1. HeapIInv => [\A n \in Places : DropOld(n) => n = newest]_jitterVars
  BY OldIsNewest DEF HeapIInv
<1> QED
  BY <1>1, JitterIInv, PTL DEF DropsOnlyDuplicates

-----------------------------------------------------------------------------
(***************************************************************************)
(* What holds of the coordinator's tables for every number of sessions,    *)
(* IDs and ctrl-results and every limit of streams, with IDs that are used *)
(* again at any moment.                                                    *)
(*                                                                         *)
(* The checked invariants say what the tables contain.  They become        *)
(* inductive together with Lives, which ties the goroutines of a session   *)
(* to the step its Start has reached.                                      *)
(***************************************************************************)

(* A limit is of streams, of which there are finitely many.                *)
TableBound == IsFiniteSet(Streams) /\ Cardinality(Streams) <= MaxActiveStreams

(* How far the other goroutines of a session can be when its Start is at a *)
(* given step.                                                             *)
Lives ==
  /\ \A o \in Objs :
       /\ sid[o] = None <=> stage[o] = "absent"
       /\ stage[o] = "absent" => pc[o] = "idle"
       /\ run[o] # "none" => pc[o] \in {"jitter", "spawn", "started"}
       /\ cleanup[o] = "none" <=> pc[o] # "started"
       /\ cleanup[o] \in {"sinks", "jitter", "done"} => Done(o)
  /\ \A p \in Patchers : patch[p] \in Objs => stage[patch[p]] # "absent"

(* What Start has put into a table, and neither rollback nor cleanup has   *)
(* begun to take out.                                                      *)
HasPipe(o) == pc[o] \in {"stream", "jitter", "spawn", "undo_pool"} \/ cleanup[o] = "pool"

HasJitter(o) == pc[o] = "spawn" \/ cleanup[o] \in {"pool", "sinks", "jitter"}

HasSinks(o) ==
  pc[o] \in {"pool", "stream", "jitter", "spawn"} \/ cleanup[o] \in {"pool", "sinks"}

(* RegisterSession refuses an ID that has a pipeline, so a pipeline is     *)
(* deleted for the session that registered it and for no other.            *)
PipesStay == \A o \in Objs : HasPipe(o) => pipes[sid[o]] = o

(* The other tables are overwritten: as long as the callers are calm, what *)
(* Start has installed is there and only strays are beside it.             *)
OwnSinks(o) ==
  /\ (url[o] # "none" /\ \A p \in Patchers : patch[p] # o) =>
       \E s \in ToSet(sinks[sid[o]]) : s[1] = o
  /\ \A s \in ToSet(sinks[sid[o]]) : s[1] = o \/ s[1] \in past.stray

EntriesOf(o) ==
  /\ HasJitter(o) => jitterBufs[sid[o]] = o
  /\ HasSinks(o) => OwnSinks(o)

EntriesStay == past.calm => \A o \in Objs : EntriesOf(o)

IInv ==
  /\ TypeOK /\ Lives /\ StreamsTracked /\ TableBound
  /\ NothingOrphaned /\ PipesStay /\ EntriesStay

-----------------------------------------------------------------------------
(* The elements of a sequence, as the sinks are built and deleted.         *)
LEMMA ToSetEmpty == ToSet(<<>>) = {}
<1>1. Len(<<>>) = 0
  BY EmptySeq
<1>2. DOMAIN <<>> = {}
  BY <1>1, EmptySeq, LenProperties
<1> QED
  BY <1>2 DEF ToSet

(* Append adds the one element and no other.                               *)
LEMMA ToSetAppend ==
  ASSUME NEW S, NEW s \in Seq(S), NEW e \in S
  PROVE  /\ \A x \in ToSet(Append(s, e)) : x \in ToSet(s) \/ x = e
         /\ e \in ToSet(Append(s, e))
  BY AppendProperties, LenProperties DEF ToSet

(* A patched list has one sink.                                            *)
LEMMA ToSetSingle == ASSUME NEW e PROVE ToSet(<<e>>) = {e}
  BY DEF ToSet

-----------------------------------------------------------------------------
(* Types.                                                                  *)

USE StoreAssumption, CoordinatorAssumption

(* New makes empty tables.                                                 *)
LEMMA TypeInit == Init => TypeOK
<1>1. <<>> \in Seq(Sinks)
  BY EmptySeq
<1> QED
  BY <1>1 DEF Init, StoreInit, TypeOK, Stages, StartSteps, CleanupSteps, URLs

(* Each statement of Start, cleanup or ctrl-result writes what its table   *)
(* may hold.                                                               *)
LEMMA TypeStep == TypeOK /\ Lives /\ [Next]_vars => TypeOK'
<1> SUFFICES ASSUME TypeOK, Lives, [Next]_vars PROVE TypeOK'
  OBVIOUS
<1>c. past' \in [calm : BOOLEAN, stray : SUBSET Objs]
  <2>1. CASE UNCHANGED vars
    BY <2>1 DEF vars, TypeOK
  <2>2. CASE PastAfter
    BY <2>2 DEF PastAfter, TypeOK
  <2> QED
    BY <2>1, <2>2 DEF Next
<1>i. \A o \in Objs : pc[o] # "idle" => sid[o] \in IDs
  BY DEF Lives, TypeOK
<1> USE DEF TypeOK, GoTo, StartSteps, CleanupSteps
<1>1. CASE UNCHANGED vars
  BY <1>1 DEF vars, storeVars, tableVars, startVars
<1>2. ASSUME NEW o \in Objs, NEW i \in IDs, CreateSession(o, i) PROVE TypeOK'
  BY <1>2, <1>c DEF CreateSession, Allocate, Stages, URLs, tableVars, startVars
<1>7. ASSUME NEW o \in Objs, UnlinkSession(o) \/ CancelSession(o) PROVE TypeOK'
  BY <1>7, <1>c
  DEF UnlinkSession, CancelSession, Unlink, End, Stages, tableVars, startVars
<1>3. ASSUME NEW o \in Objs, StartStep(o) \/ CleanupStep(o) PROVE TypeOK'
  <2> USE <1>c, <1>i DEF storeVars
  <2>1. CASE StartSink(o)
    <3>1. sid[o] \in IDs
      BY <2>1 DEF StartSink, Lives
    <3>2. url[o] # "none" => Append(sinks[sid[o]], <<o, url[o]>>) \in Seq(Sinks)
      BY <3>1, AppendProperties DEF Sinks, URLs
    <3>3. sinks' \in [IDs -> Seq(Sinks)]
      BY <2>1, <3>1, <3>2 DEF StartSink
    <3> QED
      BY <2>1, <3>3 DEF StartSink
  <2>2. CASE StartPool(o)
    <3>1. pipes' \in [IDs -> Objs \cup {None}]
      <4>1. CASE UNCHANGED pipes
        BY <4>1
      <4>2. CASE pipes' = [pipes EXCEPT ![sid[o]] = o]
        BY <4>2
      <4>3. UNCHANGED pipes \/ pipes' = [pipes EXCEPT ![sid[o]] = o]
        BY <2>2, Zenon DEF StartPool
      <4> QED
        BY <4>1, <4>2, <4>3
    <3>2. pc' \in [Objs -> StartSteps]
      <4>1. pc' = [pc EXCEPT ![o] = "stream"] \/ pc' = [pc EXCEPT ![o] = "undo_sinks"]
        BY <2>2, Zenon DEF StartPool
      <4> QED
        BY <4>1
    <3>3. UNCHANGED <<storeVars, sinks, streams, jitterBufs, cleanup, run, url, patch>>
      BY <2>2, Zenon DEF StartPool
    <3> QED
      BY <3>1, <3>2, <3>3
  <2>3. CASE StartStream(o)
    <3>1. streams' \in [IDs -> Objs \cup {None}]
      BY <2>3 DEF StartStream
    <3>2. pc' \in [Objs -> StartSteps]
      <4>1. pc' = [pc EXCEPT ![o] = "jitter"] \/ pc' = [pc EXCEPT ![o] = "undo_pool"]
        BY <2>3, Zenon DEF StartStream
      <4> QED
        BY <4>1
    <3>3. run' \in [Objs -> {"none", "running", "stopped", "reaped"}]
      BY <2>3 DEF StartStream
    <3> QED
      BY <2>3, <3>1, <3>2, <3>3 DEF StartStream
  <2>4. CASE StartJitter(o)
    BY <2>4 DEF StartJitter
  <2>5. CASE StartSpawn(o)
    BY <2>5 DEF StartSpawn, tableVars
  <2>6. CASE UndoPool(o)
    BY <2>6 DEF UndoPool
  <2>e. <<>> \in Seq(Sinks)
    BY EmptySeq
  <2>7. CASE UndoSinks(o)
    BY <2>7, <2>e DEF UndoSinks
  <2>8. CASE CleanupPool(o)
    BY <2>8 DEF CleanupPool
  <2>9. CASE CleanupSinks(o)
    BY <2>9, <2>e DEF CleanupSinks
  <2>10. CASE CleanupJitter(o)
    BY <2>10 DEF CleanupJitter
  <2> QED
    BY <1>3, <2>1, <2>2, <2>3, <2>4, <2>5, <2>6, <2>7, <2>8, <2>9, <2>10
    DEF StartStep, CleanupStep
<1>4. ASSUME NEW o \in Objs, StreamStops(o) \/ StreamReaped(o) PROVE TypeOK'
  <2>1. CASE StreamStops(o)
    BY <2>1, <1>c DEF StreamStops, storeVars, tableVars
  <2>2. CASE StreamReaped(o)
    <3>1. streams' \in [IDs -> Objs \cup {None}]
      BY <2>2 DEF StreamReaped
    <3>2. run' \in [Objs -> {"none", "running", "stopped", "reaped"}]
      BY <2>2 DEF StreamReaped
    <3> QED
      BY <2>2, <1>c, <3>1, <3>2 DEF StreamReaped, storeVars
  <2> QED
    BY <1>4, <2>1, <2>2
<1>5. ASSUME NEW o \in Objs, NEW p \in Patchers, PatchSession(p, o) PROVE TypeOK'
  BY <1>5, <1>c DEF PatchSession, URLs, storeVars, tableVars, startVars
<1>6. ASSUME NEW p \in Patchers, ReplaceHTTPSink(p) PROVE TypeOK'
  <2>1. <<<<patch[p], "patched">>>> \in Seq(Sinks)
    BY <1>6 DEF ReplaceHTTPSink, Sinks
  <2> QED
    BY <1>6, <1>c, <2>1 DEF ReplaceHTTPSink, storeVars, startVars
<1> QED
  BY <1>1, <1>2, <1>3, <1>4, <1>5, <1>6, <1>7 DEF Next, Step

-----------------------------------------------------------------------------
(* The goroutines of a session.                                            *)

(* No goroutine gets ahead of the Start it belongs to.                     *)
LEMMA LivesStep == TypeOK /\ Lives /\ [Next]_vars => Lives'
<1> SUFFICES ASSUME TypeOK, Lives, [Next]_vars PROVE Lives'
  OBVIOUS
<1> USE DEF TypeOK, Lives, GoTo, Done
<1>1. CASE UNCHANGED vars
  BY <1>1 DEF vars, storeVars, startVars
<1>2. ASSUME NEW o \in Objs, NEW i \in IDs, CreateSession(o, i) PROVE Lives'
  BY <1>2 DEF CreateSession, Allocate, startVars
<1>3. ASSUME NEW o \in Objs, UnlinkSession(o) \/ CancelSession(o) PROVE Lives'
  BY <1>3 DEF UnlinkSession, CancelSession, Unlink, End, startVars
<1>4. ASSUME NEW o \in Objs, StartStep(o) \/ CleanupStep(o) PROVE Lives'
  <2> USE DEF storeVars
  <2>1. CASE StartSink(o)
    BY <2>1 DEF StartSink
  <2>2. CASE StartPool(o)
    BY <2>2 DEF StartPool
  <2>3. CASE StartStream(o)
    BY <2>3 DEF StartStream
  <2>4. CASE StartJitter(o)
    BY <2>4 DEF StartJitter
  <2>5. CASE StartSpawn(o)
    BY <2>5 DEF StartSpawn
  <2>6. CASE UndoPool(o)
    BY <2>6 DEF UndoPool
  <2>7. CASE UndoSinks(o)
    BY <2>7 DEF UndoSinks
  <2>8. CASE CleanupPool(o)
    BY <2>8 DEF CleanupPool
  <2>9. CASE CleanupSinks(o)
    BY <2>9 DEF CleanupSinks
  <2>10. CASE CleanupJitter(o)
    BY <2>10 DEF CleanupJitter
  <2> QED
    BY <1>4, <2>1, <2>2, <2>3, <2>4, <2>5, <2>6, <2>7, <2>8, <2>9, <2>10
    DEF StartStep, CleanupStep
<1>5. ASSUME NEW o \in Objs, StreamStops(o) \/ StreamReaped(o) PROVE Lives'
  BY <1>5 DEF StreamStops, StreamReaped, storeVars
<1>6. ASSUME NEW o \in Objs, NEW p \in Patchers, PatchSession(p, o) PROVE Lives'
  BY <1>6 DEF PatchSession, storeVars, startVars
<1>7. ASSUME NEW p \in Patchers, ReplaceHTTPSink(p) PROVE Lives'
  BY <1>7 DEF ReplaceHTTPSink, storeVars, startVars
<1> QED
  BY <1>1, <1>2, <1>3, <1>4, <1>5, <1>6, <1>7 DEF Next, Step

-----------------------------------------------------------------------------
(* The AI manager.                                                         *)

(* A stream enters the table only where there is none, and its entry goes  *)
(* only with the stream itself.                                            *)
LEMMA StreamsStep ==
  TypeOK /\ Lives /\ StreamsTracked /\ TableBound /\ [Next]_vars
    => StreamsTracked' /\ TableBound'
<1> SUFFICES ASSUME TypeOK, Lives, StreamsTracked, TableBound, [Next]_vars
             PROVE  StreamsTracked' /\ TableBound'
  OBVIOUS
<1>k. ASSUME UNCHANGED streams PROVE TableBound'
  BY <1>k DEF TableBound, Streams
<1>1. CASE UNCHANGED <<sid, streams, run>>
  BY <1>1, <1>k DEF StreamsTracked
<1>2. ASSUME NEW o \in Objs, NEW i \in IDs, CreateSession(o, i)
      PROVE  StreamsTracked' /\ TableBound'
  <2>1. stage[o] = "absent" /\ run[o] = "none"
    BY <1>2 DEF CreateSession, Allocate, Lives
  <2>2. UNCHANGED <<streams, run>> /\ \A q \in Objs \ {o} : sid'[q] = sid[q]
    BY <1>2 DEF CreateSession, Allocate, TypeOK, startVars, tableVars
  <2> QED
    BY <2>1, <2>2, <1>k DEF StreamsTracked
<1>3. ASSUME NEW o \in Objs, StartStream(o) PROVE StreamsTracked' /\ TableBound'
  <2>1. CASE UNCHANGED <<streams, run>>
    BY <1>1, <1>3, <2>1 DEF StartStream, storeVars
  <2>2. CASE /\ StreamRoom
             /\ NoStream(sid[o])
             /\ streams' = [streams EXCEPT ![sid[o]] = o]
             /\ run' = [run EXCEPT ![o] = "running"]
    <3>1. sid[o] \in IDs /\ UNCHANGED sid
      BY <1>3 DEF StartStream, Lives, TypeOK, storeVars
    <3>2. StreamsTracked'
      BY <2>2, <3>1 DEF StreamsTracked, NoStream, TypeOK
    <3>3. Streams' = Streams \cup {sid[o]}
      BY <2>2, <3>1 DEF Streams, TypeOK
    <3>4. IsFiniteSet(Streams') /\ Cardinality(Streams') <= Cardinality(Streams) + 1
      <4> DEFINE n == Cardinality(Streams)
      <4>1. IsFiniteSet(Streams) /\ n \in Nat
        BY FS_CardinalityType DEF TableBound
      <4>2. /\ IsFiniteSet(Streams \cup {sid[o]})
            /\ \/ Cardinality(Streams \cup {sid[o]}) = n
               \/ Cardinality(Streams \cup {sid[o]}) = n + 1
        BY <4>1, FS_AddElement
      <4> QED
        BY <3>3, <4>1, <4>2
    <3>5. Cardinality(Streams') <= MaxActiveStreams
      BY <2>2, <3>4, FS_CardinalityType DEF TableBound, StreamRoom
    <3> QED
      BY <3>2, <3>4, <3>5 DEF TableBound
  <2> QED
    BY <1>3, <2>1, <2>2 DEF StartStream
<1>4. ASSUME NEW o \in Objs, StreamReaped(o) PROVE StreamsTracked' /\ TableBound'
  <2>1. sid[o] \in IDs /\ streams[sid[o]] = o /\ UNCHANGED sid
    <3>1. run[o] = "stopped" /\ UNCHANGED sid
      BY <1>4 DEF StreamReaped, storeVars
    <3>2. pc[o] # "idle" /\ streams[sid[o]] = o
      BY <3>1 DEF StreamsTracked, Lives
    <3> QED
      BY <3>1, <3>2 DEF Lives, TypeOK
  <2>2. streams' = [streams EXCEPT ![sid[o]] = None] /\ run' = [run EXCEPT ![o] = "reaped"]
    BY <1>4, <2>1 DEF StreamReaped
  <2>3. StreamsTracked'
    BY <2>1, <2>2 DEF StreamsTracked, TypeOK
  <2>4. Streams' \subseteq Streams
    BY <2>1, <2>2 DEF Streams, TypeOK
  <2>5. TableBound'
    BY <2>4, FS_Subset, FS_CardinalityType DEF TableBound
  <2> QED
    BY <2>3, <2>5
<1>5. ASSUME NEW o \in Objs, StreamStops(o) PROVE StreamsTracked' /\ TableBound'
  BY <1>5, <1>k DEF StreamStops, StreamsTracked, TypeOK, storeVars, tableVars
<1>6. CASE UNCHANGED vars
  BY <1>6, <1>1 DEF vars, storeVars, tableVars, startVars
<1>7. ASSUME NEW o \in Objs, StartStep(o) \/ CleanupStep(o), ~StartStream(o)
      PROVE  UNCHANGED <<sid, streams, run>>
  BY <1>7
  DEF StartStep, CleanupStep, StartSink, StartPool, StartJitter, StartSpawn, UndoPool,
      UndoSinks, CleanupPool, CleanupSinks, CleanupJitter, storeVars, tableVars
<1>8. ASSUME NEW o \in Objs, UnlinkSession(o) \/ CancelSession(o)
      PROVE  UNCHANGED <<sid, streams, run>>
  BY <1>8 DEF UnlinkSession, CancelSession, Unlink, End, tableVars, startVars
<1>9. ASSUME NEW p \in Patchers,
             ReplaceHTTPSink(p) \/ \E o \in Objs : PatchSession(p, o)
      PROVE  UNCHANGED <<sid, streams, run>>
  BY <1>9 DEF ReplaceHTTPSink, PatchSession, storeVars, tableVars, startVars
<1> QED
  BY <1>1, <1>2, <1>3, <1>4, <1>5, <1>6, <1>7, <1>8, <1>9 DEF Next, Step

(* The running streams are no more than the table has entries.             *)
LEMMA TableBoundsStreams == TypeOK /\ Lives /\ StreamsTracked /\ TableBound => StreamBound
<1> SUFFICES ASSUME TypeOK, Lives, StreamsTracked, TableBound PROVE StreamBound
  OBVIOUS
<1> DEFINE Running == {o \in Objs : run[o] = "running"}
           f == [o \in Running |-> sid[o]]
<1>1. ASSUME NEW o \in Running PROVE sid[o] \in Streams /\ streams[sid[o]] = o
  <2>1. o \in Objs /\ run[o] = "running" /\ streams[sid[o]] = o
    BY DEF StreamsTracked
  <2>2. stage[o] # "absent"
    BY <2>1 DEF Lives
  <2>3. sid[o] \in IDs
    BY <2>1, <2>2 DEF Lives, TypeOK
  <2>4. None \notin Objs
    OBVIOUS
  <2> QED
    BY <2>1, <2>3, <2>4 DEF Streams
<1>2. f \in [Running -> Streams]
  BY <1>1
<1>3. \A o, q \in Running : f[o] = f[q] => o = q
  BY <1>1
<1>4. f \in Injection(Running, Streams)
  BY <1>2, <1>3, Fun_IsInj
<1>5. Cardinality(Running) <= Cardinality(Streams) /\ IsFiniteSet(Running)
  BY <1>4, FS_Injection DEF TableBound
<1> QED
  BY <1>5, FS_CardinalityType DEF StreamBound, TableBound

-----------------------------------------------------------------------------
(* Nothing is orphaned.  Each part of NothingOrphaned is about one table,  *)
(* and only the actions that write that table or advance a goroutine can   *)
(* disturb it.                                                             *)
SinkOwner(s, i) ==
  sid[s[1]] = i /\ (~Swept(s[1]) \/ (s[2] = "patched" /\ s[1] \in past.stray))

SinksOwned == \A i \in IDs : \A s \in ToSet(sinks[i]) : SinkOwner(s, i)

PipesOwned ==
  \A i \in IDs : pipes[i] # None =>
    /\ sid[pipes[i]] = i
    /\ pc[pipes[i]] \in {"stream", "jitter", "spawn", "undo_pool"} \/ cleanup[pipes[i]] = "pool"

JittersOwned ==
  \A i \in IDs : jitterBufs[i] # None =>
    /\ sid[jitterBufs[i]] = i
    /\ \/ pc[jitterBufs[i]] = "spawn"
       \/ cleanup[jitterBufs[i]] \in {"pool", "sinks", "jitter"}

StreamsOwned ==
  \A i \in IDs : streams[i] # None =>
    sid[streams[i]] = i /\ run[streams[i]] \in {"running", "stopped"}

(* The parts are the whole.                                                *)
LEMMA OrphanParts ==
  NothingOrphaned <=> SinksOwned /\ PipesOwned /\ JittersOwned /\ StreamsOwned
  BY DEF NothingOrphaned, SinksOwned, SinkOwner, PipesOwned, JittersOwned, StreamsOwned

(* A statement that touches neither a table nor the goroutines of sessions *)
(* leaves the tables as they were.                                         *)
LEMMA OwnersSession ==
  ASSUME TypeOK, Lives, NEW o \in Objs, UNCHANGED <<tableVars, startVars>>,
         UNCHANGED sid \/ \E i \in IDs : Allocate(o, i),
         PipesOwned, JittersOwned, StreamsOwned
  PROVE  PipesOwned' /\ JittersOwned' /\ StreamsOwned'
<1>1. CASE UNCHANGED sid
  BY <1>1 DEF PipesOwned, JittersOwned, StreamsOwned, tableVars, startVars
<1>2. ASSUME NEW i \in IDs, Allocate(o, i) PROVE PipesOwned' /\ JittersOwned' /\ StreamsOwned'
  <2>1. pc[o] = "idle" /\ cleanup[o] = "none" /\ run[o] = "none"
    BY <1>2 DEF Allocate, Lives, TypeOK
  <2>2. \A q \in Objs : q # o => sid'[q] = sid[q]
    BY <1>2 DEF Allocate, TypeOK
  <2> QED
    BY <2>1, <2>2
    DEF PipesOwned, JittersOwned, StreamsOwned, TypeOK, tableVars, startVars
<1> QED
  BY <1>1, <1>2

(* Start, cleanup and the stream's goroutines move on with what they hold. *)
LEMMA OwnersStep ==
  TypeOK /\ Lives /\ StreamsTracked /\ PipesOwned /\ JittersOwned /\ StreamsOwned /\ [Next]_vars
    => PipesOwned' /\ JittersOwned' /\ StreamsOwned'
<1> SUFFICES ASSUME TypeOK, Lives, StreamsTracked, [Next]_vars,
                    PipesOwned, JittersOwned, StreamsOwned
             PROVE  PipesOwned' /\ JittersOwned' /\ StreamsOwned'
  OBVIOUS
<1> DEFINE Good == PipesOwned' /\ JittersOwned' /\ StreamsOwned'
<1>i. \A o \in Objs : pc[o] # "idle" => sid[o] \in IDs
  BY DEF Lives, TypeOK
<1>t. \A j \in IDs :
       /\ pipes[j] # None => pipes[j] \in Objs
       /\ jitterBufs[j] # None => jitterBufs[j] \in Objs
       /\ streams[j] # None => streams[j] \in Objs
  BY DEF TypeOK
<1>1. CASE UNCHANGED vars
  BY <1>1 DEF PipesOwned, JittersOwned, StreamsOwned, vars, storeVars, tableVars, startVars
<1>2. ASSUME NEW o \in Objs,
             (\E i \in IDs : CreateSession(o, i)) \/ UnlinkSession(o) \/ CancelSession(o)
      PROVE  Good
  BY <1>2, OwnersSession DEF CreateSession, UnlinkSession, CancelSession, Unlink, End
<1>3. ASSUME NEW o \in Objs, StartStep(o) \/ CleanupStep(o) PROVE Good
  <2>k. StreamsOwned' \/ StartStream(o)
    BY <1>3
    DEF StartStep, CleanupStep, StartSink, StartPool, StartJitter, StartSpawn, UndoPool,
        UndoSinks, CleanupPool, CleanupSinks, CleanupJitter, StreamsOwned, storeVars, tableVars
  <2>1. CASE StartSink(o)
    BY <2>1, <2>k DEF StartSink, StartStream, GoTo, PipesOwned, JittersOwned, TypeOK, storeVars
  <2>2. CASE StartPool(o)
    <3>1. UNCHANGED <<sid, jitterBufs, cleanup>> /\ pc[o] = "pool" /\ cleanup[o] = "none"
      BY <2>2 DEF StartPool, Lives, storeVars
    <3>2. JittersOwned'
      BY <2>2, <3>1 DEF StartPool, GoTo, JittersOwned, TypeOK
    <3>3. PipesOwned'
      <4>1. CASE UNCHANGED pipes
        <5>1. \A j \in IDs : pipes[j] # None => pipes[j] \in Objs \ {o}
          BY <3>1, <1>t DEF PipesOwned
        <5>2. \A q \in Objs \ {o} : pc'[q] = pc[q]
          BY <2>2 DEF StartPool, GoTo, TypeOK
        <5> QED
          BY <3>1, <4>1, <5>1, <5>2 DEF PipesOwned
      <4>2. CASE pipes' = [pipes EXCEPT ![sid[o]] = o] /\ GoTo(o, "stream")
        BY <3>1, <4>2, <1>i DEF GoTo, PipesOwned, TypeOK
      <4> QED
        BY <2>2, <4>1, <4>2 DEF StartPool
    <3> QED
      BY <2>2, <2>k, <3>2, <3>3 DEF StartPool, StartStream
  <2>3. CASE StartStream(o)
    <3>1. UNCHANGED <<sid, pipes, jitterBufs, cleanup>> /\ pc[o] = "stream" /\ cleanup[o] = "none"
      BY <2>3 DEF StartStream, Lives, storeVars
    <3>2. pc' = [pc EXCEPT ![o] = "jitter"] \/ pc' = [pc EXCEPT ![o] = "undo_pool"]
      BY <2>3 DEF StartStream, GoTo
    <3>3. PipesOwned'
      <4>1. \A j \in IDs : pipes[j] # None => pipes[j] \in Objs
        BY DEF TypeOK
      <4>2. \A q \in Objs : \/ pc'[q] = pc[q]
                            \/ q = o /\ pc'[q] \in {"jitter", "undo_pool"}
        BY <3>2 DEF TypeOK
      <4> QED
        BY <3>1, <4>1, <4>2 DEF PipesOwned
    <3>4. JittersOwned'
      BY <3>1, <3>2 DEF JittersOwned, TypeOK
    <3>5. StreamsOwned'
      <4>1. CASE UNCHANGED <<streams, run>>
        BY <3>1, <4>1 DEF StreamsOwned
      <4>2. CASE /\ streams' = [streams EXCEPT ![sid[o]] = o]
                 /\ run' = [run EXCEPT ![o] = "running"]
        <5>1. sid[o] \in IDs
          BY <3>1, <1>i
        <5>2. \A q \in Objs : run[q] \in {"running", "stopped"} \/ q = o
                => run'[q] \in {"running", "stopped"}
          BY <4>2 DEF TypeOK
        <5>3. \A j \in IDs : streams'[j] = IF j = sid[o] THEN o ELSE streams[j]
          BY <4>2, <5>1 DEF TypeOK
        <5> QED
          BY <3>1, <5>1, <5>2, <5>3, <1>t DEF StreamsOwned
      <4> QED
        BY <2>3, <4>1, <4>2 DEF StartStream
    <3> QED
      BY <3>3, <3>4, <3>5
  <2>4. CASE StartJitter(o)
    <3>1. PipesOwned'
      BY <2>4 DEF StartJitter, GoTo, PipesOwned, TypeOK, storeVars
    <3>2. JittersOwned'
      <4>1. sid[o] \in IDs /\ UNCHANGED <<sid, cleanup>> /\ pc' = [pc EXCEPT ![o] = "spawn"]
        BY <2>4, <1>i DEF StartJitter, GoTo, storeVars
      <4>2. \A j \in IDs : jitterBufs'[j] = IF j = sid[o] THEN o ELSE jitterBufs[j]
        BY <2>4, <4>1 DEF StartJitter, TypeOK
      <4>3. \A q \in Objs : pc[q] = "spawn" \/ q = o => pc'[q] = "spawn"
        BY <4>1 DEF TypeOK
      <4> QED
        <5>1. ASSUME NEW j \in IDs, jitterBufs'[j] # None
              PROVE  sid'[jitterBufs'[j]] = j
          BY <4>1, <4>2, <5>1, <1>t DEF JittersOwned
        <5>2. ASSUME NEW j \in IDs, jitterBufs'[j] # None
              PROVE  \/ pc'[jitterBufs'[j]] = "spawn"
                     \/ cleanup'[jitterBufs'[j]] \in {"pool", "sinks", "jitter"}
          BY <4>1, <4>2, <4>3, <5>2, <1>t DEF JittersOwned
        <5> QED
          BY <5>1, <5>2 DEF JittersOwned
    <3> QED
      BY <2>4, <2>k, <3>1, <3>2 DEF StartJitter, StartStream
  <2>5. CASE StartSpawn(o)
    <3>1. PipesOwned'
      BY <2>5 DEF StartSpawn, GoTo, PipesOwned, TypeOK, storeVars, tableVars
    <3>2. JittersOwned'
      BY <2>5 DEF StartSpawn, GoTo, JittersOwned, TypeOK, storeVars, tableVars
    <3> QED
      BY <2>5, <2>k, <3>1, <3>2 DEF StartSpawn, StartStream
  <2>6. CASE UndoPool(o)
    <3>1. PipesOwned'
      BY <2>6, <1>i DEF UndoPool, GoTo, PipesOwned, TypeOK, storeVars
    <3>2. JittersOwned'
      BY <2>6 DEF UndoPool, GoTo, JittersOwned, TypeOK, storeVars
    <3> QED
      BY <2>6, <2>k, <3>1, <3>2 DEF UndoPool, StartStream
  <2>7. CASE UndoSinks(o)
    BY <2>7, <2>k DEF UndoSinks, StartStream, GoTo, PipesOwned, JittersOwned, TypeOK, storeVars
  <2>8. CASE CleanupPool(o)
    <3>0. pc[o] = "started"
      BY <2>8 DEF CleanupPool, Lives
    <3>1. PipesOwned'
      BY <2>8, <3>0, <1>i DEF CleanupPool, PipesOwned, TypeOK, storeVars
    <3>2. JittersOwned'
      BY <2>8 DEF CleanupPool, JittersOwned, TypeOK, storeVars
    <3> QED
      BY <3>0, <2>k, <3>1, <3>2 DEF StartStream
  <2>9. CASE CleanupSinks(o)
    <3>0. pc[o] = "started"
      BY <2>9 DEF CleanupSinks, Lives
    <3> QED
      BY <2>9, <3>0, <2>k DEF CleanupSinks, StartStream, PipesOwned, JittersOwned, TypeOK, storeVars
  <2>10. CASE CleanupJitter(o)
    <3>0. pc[o] = "started"
      BY <2>10 DEF CleanupJitter, Lives
    <3>1. PipesOwned'
      BY <2>10 DEF CleanupJitter, PipesOwned, TypeOK, storeVars
    <3>2. JittersOwned'
      BY <2>10, <3>0, <1>i DEF CleanupJitter, JittersOwned, TypeOK, storeVars
    <3> QED
      BY <3>0, <2>k, <3>1, <3>2 DEF StartStream
  <2> QED
    BY <1>3, <2>1, <2>2, <2>3, <2>4, <2>5, <2>6, <2>7, <2>8, <2>9, <2>10
    DEF StartStep, CleanupStep
<1>4. ASSUME NEW o \in Objs, StreamStops(o) \/ StreamReaped(o) PROVE Good
  <2>1. UNCHANGED <<sid, pipes, jitterBufs, pc, cleanup>>
    BY <1>4 DEF StreamStops, StreamReaped, storeVars, tableVars
  <2>2. CASE StreamStops(o)
    BY <2>1, <2>2 DEF StreamStops, PipesOwned, JittersOwned, StreamsOwned, TypeOK, tableVars
  <2>3. CASE StreamReaped(o)
    <3>1. streams[sid[o]] = o /\ sid[o] \in IDs
      BY <2>3, <1>i DEF StreamReaped, StreamsTracked, Lives
    <3>2. streams' = [streams EXCEPT ![sid[o]] = None] /\ run' = [run EXCEPT ![o] = "reaped"]
      BY <2>3, <3>1 DEF StreamReaped
    <3>3. StreamsOwned'
      BY <2>1, <3>1, <3>2 DEF StreamsOwned, TypeOK
    <3> QED
      BY <2>1, <3>3 DEF PipesOwned, JittersOwned
  <2> QED
    BY <1>4, <2>2, <2>3
<1>5. ASSUME NEW p \in Patchers,
             ReplaceHTTPSink(p) \/ \E o \in Objs : PatchSession(p, o)
      PROVE  Good
  BY <1>5
  DEF ReplaceHTTPSink, PatchSession, PipesOwned, JittersOwned, StreamsOwned, storeVars,
      tableVars, startVars
<1> QED
  BY <1>1, <1>2, <1>3, <1>4, <1>5 DEF Next, Step

(* What the record of the past says of the state before a step.            *)
LEMMA PastIsCalm ==
  ASSUME TypeOK, PastAfter
  PROVE  /\ past.stray \subseteq past'.stray
         /\ past'.calm =>
              /\ past.calm
              /\ \A o, q \in Objs :
                   o # q /\ sid[o] = sid[q] /\ sid[o] # None => Settled(o) \/ Settled(q)
  BY DEF TypeOK, PastAfter

(* Every sink names the session it was made for.                           *)
LEMMA SinksAreOfSessions ==
  ASSUME TypeOK
  PROVE  \A i \in IDs : \A s \in ToSet(sinks[i]) : s[1] \in Objs
<1> SUFFICES ASSUME NEW i \in IDs, NEW s \in ToSet(sinks[i]) PROVE s[1] \in Objs
  OBVIOUS
<1>1. sinks[i] \in Seq(Sinks)
  BY DEF TypeOK
<1>2. s \in Sinks
  BY <1>1, LenProperties, ElementOfSeq DEF ToSet
<1> QED
  BY <1>2 DEF Sinks

(* The sinks of an ID are of sessions that will delete them, or strays of  *)
(* a ctrl-result that came after they had.                                 *)
LEMMA SinksStep == TypeOK /\ Lives /\ SinksOwned /\ [Next]_vars => SinksOwned'
<1> SUFFICES ASSUME TypeOK, Lives, SinksOwned, [Next]_vars PROVE SinksOwned'
  OBVIOUS
<1>i. \A o \in Objs : pc[o] # "idle" \/ stage[o] # "absent" => sid[o] \in IDs
  BY DEF Lives, TypeOK
<1>o. \A i \in IDs : \A s \in ToSet(sinks[i]) : s[1] \in Objs
  BY SinksAreOfSessions
<1>1. CASE UNCHANGED vars
  BY <1>1 DEF SinksOwned, SinkOwner, Swept, vars, storeVars, tableVars, startVars
<1> SUFFICES ASSUME Step, PastAfter PROVE SinksOwned'
  BY <1>1 DEF Next
<1>p. past.stray \subseteq past'.stray
  BY PastIsCalm
(* Sinks stay with their owners, and the new ones have one.                *)
<1>k. ASSUME \A q \in Objs : Swept(q)' => Swept(q),
             \A q \in Objs : sid[q] # None => sid'[q] = sid[q],
             \A i \in IDs : \A s \in ToSet(sinks'[i]) :
               s \in ToSet(sinks[i]) \/ SinkOwner(s, i)'
      PROVE  SinksOwned'
  <2> SUFFICES ASSUME NEW i \in IDs, NEW s \in ToSet(sinks'[i]), s \in ToSet(sinks[i])
               PROVE  SinkOwner(s, i)'
    BY <1>k DEF SinksOwned
  <2>1. s[1] \in Objs /\ SinkOwner(s, i) /\ i # None
    BY <1>o DEF SinksOwned
  <2> QED
    BY <2>1, <1>k, <1>p DEF SinkOwner
(* The session whose sinks are swept loses all of its ID.                  *)
<1>d. ASSUME NEW o \in Objs, sid[o] \in IDs, UNCHANGED sid,
             sinks' = [sinks EXCEPT ![sid[o]] = <<>>],
             \A q \in Objs \ {o} : Swept(q)' => Swept(q)
      PROVE  SinksOwned'
  <2>1. \A i \in IDs : sinks'[i] = IF i = sid[o] THEN <<>> ELSE sinks[i]
    BY <1>d DEF TypeOK
  <2> SUFFICES ASSUME NEW i \in IDs, NEW s \in ToSet(sinks'[i]) PROVE SinkOwner(s, i)'
    BY DEF SinksOwned
  <2>2. i # sid[o] /\ s \in ToSet(sinks[i])
    BY <2>1, ToSetEmpty
  <2>3. s[1] \in Objs \ {o} /\ SinkOwner(s, i)
    BY <2>2, <1>o DEF SinksOwned, SinkOwner
  <2> QED
    BY <1>d, <2>3, <1>p DEF SinkOwner
<1>2. ASSUME NEW o \in Objs, NEW i \in IDs, CreateSession(o, i) PROVE SinksOwned'
  <2>1. UNCHANGED <<sinks, pc, cleanup>> /\ \A q \in Objs : sid[q] # None => sid'[q] = sid[q]
    BY <1>2 DEF CreateSession, Allocate, Lives, TypeOK, tableVars, startVars
  <2> QED
    BY <2>1, <1>k DEF Swept
<1>3. ASSUME NEW o \in Objs,
             \/ UnlinkSession(o) \/ CancelSession(o) \/ StreamStops(o) \/ StreamReaped(o)
             \/ \E p \in Patchers : PatchSession(p, o)
      PROVE  SinksOwned'
  <2>1. UNCHANGED <<sid, sinks, pc, cleanup>>
    BY <1>3
    DEF UnlinkSession, CancelSession, Unlink, End, StreamStops, StreamReaped, PatchSession,
        storeVars, tableVars, startVars
  <2> QED
    BY <2>1, <1>k DEF Swept
<1>4. ASSUME NEW o \in Objs, StartStep(o) \/ CleanupStep(o) PROVE SinksOwned'
  <2>0. UNCHANGED sid
    BY <1>4
    DEF StartStep, CleanupStep, StartSink, StartPool, StartStream, StartJitter, StartSpawn,
        UndoPool, UndoSinks, CleanupPool, CleanupSinks, CleanupJitter, storeVars
  <2>c. cleanup[o] = "none" <=> pc[o] # "started"
    BY DEF Lives
  <2>k. ASSUME UNCHANGED sinks, \A q \in Objs : Swept(q)' => Swept(q) PROVE SinksOwned'
    BY <2>k, <2>0, <1>k
  <2>1. CASE StartSink(o)
    <3>1. sid[o] \in IDs /\ sinks[sid[o]] \in Seq(Sinks)
      BY <2>1, <1>i DEF StartSink, TypeOK
    <3>2. \A q \in Objs : Swept(q)' => Swept(q)
      BY <2>1, <2>c DEF StartSink, GoTo, TypeOK, Swept
    <3>3. ~Swept(o)' /\ sid'[o] = sid[o]
      BY <2>0, <2>1, <2>c DEF StartSink, GoTo, TypeOK, Swept
    <3>4. CASE url[o] = "none"
      BY <2>1, <2>k, <3>2, <3>4 DEF StartSink
    <3>5. CASE url[o] # "none"
      <4>1. \A i \in IDs : sinks'[i] = IF i = sid[o] THEN Append(sinks[i], <<o, url[o]>>)
                                                     ELSE sinks[i]
        BY <2>1, <3>5 DEF StartSink, TypeOK
      <4>2. <<o, url[o]>> \in Sinks
        BY <3>5 DEF Sinks, URLs, TypeOK
      <4>3. \A i \in IDs : \A s \in ToSet(sinks'[i]) :
              s \in ToSet(sinks[i]) \/ (i = sid[o] /\ s = <<o, url[o]>>)
        BY <3>1, <4>1, <4>2, ToSetAppend
      <4>4. \A i \in IDs : \A s \in ToSet(sinks'[i]) :
              s \in ToSet(sinks[i]) \/ SinkOwner(s, i)'
        BY <3>3, <4>3 DEF SinkOwner
      <4> QED
        BY <1>k, <2>0, <3>2, <4>4
    <3> QED
      BY <3>4, <3>5
  <2>2. CASE StartPool(o)
    BY <2>2, <2>k DEF StartPool, GoTo, TypeOK, Swept
  <2>3. CASE StartStream(o)
    <3>1. UNCHANGED <<sinks, cleanup>> /\ \A q \in Objs : pc'[q] = "failed" => pc[q] = "failed"
      BY <2>3 DEF StartStream, GoTo, TypeOK
    <3> QED
      BY <3>1, <2>k DEF Swept
  <2>4. CASE StartJitter(o)
    BY <2>4, <2>k DEF StartJitter, GoTo, TypeOK, Swept
  <2>5. CASE StartSpawn(o)
    BY <2>5, <2>k DEF StartSpawn, GoTo, TypeOK, Swept, tableVars
  <2>6. CASE UndoPool(o)
    BY <2>6, <2>k DEF UndoPool, GoTo, TypeOK, Swept
  <2>7. CASE UndoSinks(o)
    <3>1. sid[o] \in IDs /\ \A q \in Objs \ {o} : Swept(q)' => Swept(q)
      BY <2>7, <1>i DEF UndoSinks, GoTo, TypeOK, Swept
    <3> QED
      BY <2>0, <2>7, <3>1, <1>d DEF UndoSinks
  <2>8. CASE CleanupPool(o)
    BY <2>8, <2>k DEF CleanupPool, TypeOK, Swept
  <2>9. CASE CleanupSinks(o)
    <3>1. sid[o] \in IDs
      BY <2>9, <2>c, <1>i DEF CleanupSinks
    <3>2. \A q \in Objs \ {o} : Swept(q)' => Swept(q)
      BY <2>9 DEF CleanupSinks, TypeOK, Swept
    <3> QED
      BY <2>0, <2>9, <3>1, <3>2, <1>d DEF CleanupSinks
  <2>10. CASE CleanupJitter(o)
    BY <2>10, <2>k DEF CleanupJitter, TypeOK, Swept
  <2> QED
    BY <1>4, <2>1, <2>2, <2>3, <2>4, <2>5, <2>6, <2>7, <2>8, <2>9, <2>10
    DEF StartStep, CleanupStep
<1>5. ASSUME NEW p \in Patchers, ReplaceHTTPSink(p) PROVE SinksOwned'
  <2> DEFINE o == patch[p]
  <2>1. o \in Objs /\ sid[o] \in IDs
    BY <1>5, <1>i DEF ReplaceHTTPSink, Lives
  <2>2. UNCHANGED <<sid, pc, cleanup>> /\ patch'[p] = "over"
    BY <1>5 DEF ReplaceHTTPSink, TypeOK, storeVars, startVars
  <2>3. ~Swept(o) \/ o \in past'.stray
    BY <2>1, <2>2 DEF PastAfter
  <2>4. sid'[o] = sid[o] /\ (o \in past'.stray \/ ~(pc'[o] = "failed" \/ cleanup'[o] \in {"jitter", "done"}))
    BY <2>1, <2>2, <2>3 DEF Swept
  <2>5. \A i \in IDs : sinks'[i] = IF i = sid[o] THEN <<<<o, "patched">>>> ELSE sinks[i]
    BY <1>5 DEF ReplaceHTTPSink, TypeOK
  <2>6. \A i \in IDs : \A s \in ToSet(sinks'[i]) :
          s \in ToSet(sinks[i]) \/ (i = sid[o] /\ s = <<o, "patched">>)
    BY <2>5, ToSetSingle
  <2>7. \A i \in IDs : \A s \in ToSet(sinks'[i]) : s \in ToSet(sinks[i]) \/ SinkOwner(s, i)'
    BY <2>4, <2>6 DEF SinkOwner, Swept
  <2> QED
    BY <2>2, <2>7, <1>k DEF Swept
<1> QED
  BY <1>2, <1>3, <1>4, <1>5 DEF Step

-----------------------------------------------------------------------------
(* What Start has installed stays.                                         *)

(* A pipeline goes only with the session that registered it.               *)
LEMMA PipesStep == TypeOK /\ Lives /\ PipesStay /\ [Next]_vars => PipesStay'
<1> SUFFICES ASSUME TypeOK, Lives, PipesStay, [Next]_vars, NEW o \in Objs, HasPipe(o)'
             PROVE  pipes'[sid'[o]] = o
  BY DEF PipesStay
<1>n. o # None
  OBVIOUS
<1>h. HasPipe(o) => sid[o] \in IDs /\ pipes[sid[o]] = o
  BY DEF PipesStay, HasPipe, Lives, TypeOK
<1>k. ASSUME HasPipe(o), sid'[o] = sid[o], pipes'[sid[o]] = pipes[sid[o]]
      PROVE  pipes'[sid'[o]] = o
  BY <1>k, <1>h
<1>1. CASE UNCHANGED vars
  BY <1>1, <1>k DEF HasPipe, vars, storeVars, tableVars, startVars
<1>2. ASSUME NEW q \in Objs, NEW i \in IDs, CreateSession(q, i) PROVE pipes'[sid'[o]] = o
  <2>1. stage[q] = "absent" /\ UNCHANGED <<pipes, pc, cleanup>>
    BY <1>2 DEF CreateSession, Allocate, tableVars, startVars
  <2>2. HasPipe(o) /\ o # q
    BY <2>1 DEF HasPipe, Lives
  <2> QED
    BY <1>2, <1>k, <2>1, <2>2 DEF CreateSession, Allocate, TypeOK
<1>3. ASSUME UNCHANGED <<sid, pipes, pc, cleanup>> PROVE pipes'[sid'[o]] = o
  BY <1>3, <1>k DEF HasPipe
<1>4. ASSUME NEW q \in Objs, StartStep(q) \/ CleanupStep(q) PROVE pipes'[sid'[o]] = o
  <2>0. UNCHANGED sid
    BY <1>4
    DEF StartStep, CleanupStep, StartSink, StartPool, StartStream, StartJitter, StartSpawn,
        UndoPool, UndoSinks, CleanupPool, CleanupSinks, CleanupJitter, storeVars
  <2>c. cleanup[q] = "none" <=> pc[q] # "started"
    BY DEF Lives
  <2>1. CASE StartPool(q)
    <3>1. CASE pc'[q] = "stream"
      <4>1. pipes[sid[q]] = None /\ sid[q] \in IDs /\ UNCHANGED cleanup
        BY <2>1, <3>1 DEF StartPool, GoTo, Lives, TypeOK
      <4>2. pipes' = [pipes EXCEPT ![sid[q]] = q]
        BY <2>1, <3>1 DEF StartPool, GoTo, TypeOK
      <4>3. CASE o = q
        BY <2>0, <4>1, <4>2, <4>3 DEF TypeOK
      <4>4. CASE o # q
        <5>1. HasPipe(o)
          BY <2>1, <4>4, <4>1 DEF StartPool, GoTo, HasPipe, TypeOK
        <5>2. sid[o] # sid[q]
          BY <5>1, <1>h, <1>n, <4>1
        <5> QED
          BY <1>h, <1>k, <2>0, <4>1, <4>2, <5>1, <5>2 DEF TypeOK
      <4> QED
        BY <4>3, <4>4
    <3>2. CASE pc'[q] # "stream"
      <4>1. UNCHANGED <<pipes, cleanup>>
        BY <2>1, <3>2 DEF StartPool, GoTo, TypeOK
      <4>2. HasPipe(o)
        BY <2>1, <2>c, <3>2 DEF StartPool, GoTo, HasPipe, TypeOK
      <4> QED
        BY <1>k, <2>0, <4>1, <4>2
    <3> QED
      BY <3>1, <3>2
  <2>2. ASSUME HasPipe(q), ~HasPipe(q)', pipes' = [pipes EXCEPT ![sid[q]] = None],
               \A p \in Objs \ {q} : pc'[p] = pc[p] /\ cleanup'[p] = cleanup[p]
        PROVE  pipes'[sid'[o]] = o
    <3>1. o # q
      BY <2>2
    <3>2. HasPipe(o)
      BY <2>2, <3>1 DEF HasPipe
    <3>3. pipes[sid[q]] = q /\ sid[q] \in IDs
      BY <2>2 DEF PipesStay, HasPipe, Lives, TypeOK
    <3>4. sid[q] # sid[o]
      BY <3>1, <3>2, <3>3, <1>h
    <3> QED
      BY <1>h, <1>k, <2>0, <2>2, <3>2, <3>3, <3>4 DEF TypeOK
  <2>3. CASE UndoPool(q)
    <3>1. HasPipe(q) /\ ~HasPipe(q)'
      BY <2>3, <2>c DEF UndoPool, GoTo, HasPipe, TypeOK
    <3> QED
      BY <2>2, <2>3, <3>1 DEF UndoPool, GoTo, TypeOK
  <2>4. CASE CleanupPool(q)
    <3>1. HasPipe(q) /\ ~HasPipe(q)'
      BY <2>4, <2>c DEF CleanupPool, HasPipe, TypeOK
    <3> QED
      BY <2>2, <2>4, <3>1 DEF CleanupPool, TypeOK
  <2>5. ASSUME UNCHANGED pipes, HasPipe(o)' => HasPipe(o) PROVE pipes'[sid'[o]] = o
    BY <1>k, <2>0, <2>5
  <2>6. CASE StartSink(q)
    BY <2>5, <2>6 DEF StartSink, GoTo, HasPipe, TypeOK
  <2>7. CASE StartStream(q)
    <3>1. UNCHANGED <<pipes, cleanup>> /\ pc[q] = "stream" /\ \A p \in Objs \ {q} : pc'[p] = pc[p]
      BY <2>7 DEF StartStream, GoTo, TypeOK
    <3> QED
      BY <2>5, <3>1 DEF HasPipe
  <2>8. CASE StartJitter(q)
    BY <2>5, <2>8 DEF StartJitter, GoTo, HasPipe, TypeOK
  <2>9. CASE StartSpawn(q)
    BY <2>5, <2>9 DEF StartSpawn, GoTo, HasPipe, TypeOK, tableVars
  <2>10. CASE UndoSinks(q)
    BY <2>5, <2>10 DEF UndoSinks, GoTo, HasPipe, TypeOK
  <2>11. CASE CleanupSinks(q)
    BY <2>5, <2>11 DEF CleanupSinks, HasPipe, TypeOK
  <2>12. CASE CleanupJitter(q)
    BY <2>5, <2>12 DEF CleanupJitter, HasPipe, TypeOK
  <2> QED
    BY <1>4, <2>1, <2>3, <2>4, <2>6, <2>7, <2>8, <2>9, <2>10, <2>11, <2>12
    DEF StartStep, CleanupStep
<1>5. ASSUME NEW q \in Objs,
             \/ UnlinkSession(q) \/ CancelSession(q) \/ StreamStops(q) \/ StreamReaped(q)
             \/ \E p \in Patchers : PatchSession(p, q)
      PROVE  UNCHANGED <<sid, pipes, pc, cleanup>>
  BY <1>5
  DEF UnlinkSession, CancelSession, Unlink, End, StreamStops, StreamReaped, PatchSession,
      storeVars, tableVars, startVars
<1>6. ASSUME NEW p \in Patchers, ReplaceHTTPSink(p) PROVE UNCHANGED <<sid, pipes, pc, cleanup>>
  BY <1>6 DEF ReplaceHTTPSink, storeVars, startVars
<1> QED
  BY <1>1, <1>2, <1>3, <1>4, <1>5, <1>6 DEF Next, Step

(* A session of which Start or cleanup still holds an entry that another   *)
(* session of its ID could overwrite.                                      *)
Busy(o) == HasJitter(o) \/ HasSinks(o)

(* While a session is busy, a calm caller has no other that acts on its ID.*)
LEMMA Alone ==
  ASSUME TypeOK, Lives, PastAfter, past'.calm,
         NEW o \in Objs, NEW q \in Objs, o # q, Busy(o), sid[q] = sid[o]
  PROVE  Settled(q)
<1>1. sid[o] # None
  BY DEF Busy, HasJitter, HasSinks, Lives, TypeOK
<1>2. ~ Settled(o)
  BY DEF Settled, Busy, HasJitter, HasSinks, Lives
<1> QED
  BY <1>1, <1>2, PastIsCalm

(* A settled session is no actor in any table.                             *)
LEMMA SettledRests ==
  ASSUME TypeOK, Lives, NEW q \in Objs, Settled(q)
  PROVE  /\ ~ StartStep(q) /\ ~ CleanupStep(q)
         /\ \A p \in Patchers : ReplaceHTTPSink(p) => patch[p] # q
<1>1. pc[q] \in {"failed", "started"} /\ cleanup[q] \in {"none", "done"}
  BY DEF Settled, Lives
<1>2. ~ StartStep(q)
  BY <1>1
  DEF StartStep, StartSink, StartPool, StartStream, StartJitter, StartSpawn, UndoPool, UndoSinks
<1>3. ~ CleanupStep(q)
  BY <1>1 DEF CleanupStep, CleanupPool, CleanupSinks, CleanupJitter
<1> QED
  BY <1>2, <1>3 DEF Settled

(* A statement of another session leaves the entries of this ID alone.     *)
LEMMA OthersWriteElsewhere ==
  ASSUME TypeOK, Lives, NEW q \in Objs, StartStep(q) \/ CleanupStep(q)
  PROVE  /\ UNCHANGED <<sid, url, patch>>
         /\ \A i \in IDs : i # sid[q] => jitterBufs'[i] = jitterBufs[i] /\ sinks'[i] = sinks[i]
         /\ \A o \in Objs : o # q => pc'[o] = pc[o] /\ cleanup'[o] = cleanup[o]
<1> USE DEF TypeOK, GoTo, storeVars
<1>1. CASE StartSink(q)
  BY <1>1 DEF StartSink
<1>2. CASE StartPool(q)
  BY <1>2 DEF StartPool
<1>3. CASE StartStream(q)
  BY <1>3 DEF StartStream
<1>4. CASE StartJitter(q)
  BY <1>4 DEF StartJitter
<1>5. CASE StartSpawn(q)
  BY <1>5 DEF StartSpawn, tableVars
<1>6. CASE UndoPool(q)
  BY <1>6 DEF UndoPool
<1>7. CASE UndoSinks(q)
  BY <1>7 DEF UndoSinks
<1>8. CASE CleanupPool(q)
  BY <1>8 DEF CleanupPool
<1>9. CASE CleanupSinks(q)
  BY <1>9 DEF CleanupSinks
<1>10. CASE CleanupJitter(q)
  BY <1>10 DEF CleanupJitter
<1> QED
  BY <1>1, <1>2, <1>3, <1>4, <1>5, <1>6, <1>7, <1>8, <1>9, <1>10 DEF StartStep, CleanupStep

(* Start finds beside its own sink none that a session will delete.        *)
LEMMA StartFindsNone ==
  ASSUME TypeOK, Lives, SinksOwned, PastAfter, past'.calm, NEW o \in Objs, StartSink(o)
  PROVE  \A s \in ToSet(sinks[sid[o]]) : s[1] = o \/ s[1] \in past.stray
<1>i. sid[o] \in IDs /\ pc[o] = "idle"
  BY DEF StartSink, Lives, TypeOK
<1> SUFFICES ASSUME NEW s \in ToSet(sinks[sid[o]]), s[1] # o PROVE s[1] \in past.stray
  OBVIOUS
<1>1. s[1] \in Objs /\ SinkOwner(s, sid[o])
  BY <1>i, SinksAreOfSessions DEF SinksOwned
<1>2. ~ Settled(o) /\ sid[s[1]] = sid[o] /\ sid[o] # None
  BY <1>i, <1>1 DEF Settled, Lives, SinkOwner
<1>3. Settled(s[1])
  BY <1>1, <1>2, PastIsCalm
<1>4. Swept(s[1])
  BY <1>3 DEF Settled, Swept
<1> QED
  BY <1>1, <1>4 DEF SinkOwner

(* Start keeps what it installs until it rolls back or cleans up.          *)
LEMMA OwnStep ==
  ASSUME TypeOK, Lives, SinksOwned, PastAfter, past'.calm,
         NEW o \in Objs, EntriesOf(o), StartStep(o) \/ CleanupStep(o)
  PROVE  EntriesOf(o)'
<1> USE DEF TypeOK, GoTo, storeVars
<1>i. sid[o] \in IDs
  BY DEF StartStep, CleanupStep, StartSink, StartPool, StartStream, StartJitter, StartSpawn,
         UndoPool, UndoSinks, CleanupPool, CleanupSinks, CleanupJitter, Lives
<1>l. cleanup[o] = "none" <=> pc[o] # "started"
  BY DEF Lives
<1>u. UNCHANGED <<sid, url, patch>> /\ past.stray \subseteq past'.stray
  BY OthersWriteElsewhere, PastIsCalm
<1>k. ASSUME UNCHANGED sinks, HasSinks(o)' => HasSinks(o), HasJitter(o)' => jitterBufs'[sid[o]] = o
      PROVE  EntriesOf(o)'
  BY <1>k, <1>u DEF EntriesOf, OwnSinks
<1>1. CASE StartSink(o)
  <2>1. \A s \in ToSet(sinks[sid[o]]) : s[1] = o \/ s[1] \in past.stray
    BY <1>1, StartFindsNone
  <2>2. OwnSinks(o)'
    <3>1. CASE url[o] = "none"
      BY <1>1, <1>u, <2>1, <3>1 DEF StartSink, OwnSinks
    <3>2. CASE url[o] # "none"
      <4>1. sinks[sid[o]] \in Seq(Sinks) /\ <<o, url[o]>> \in Sinks
        BY <1>i, <3>2 DEF Sinks, URLs
      <4>2. sinks'[sid[o]] = Append(sinks[sid[o]], <<o, url[o]>>)
        BY <1>1, <1>i, <3>2 DEF StartSink
      <4>3. /\ \A s \in ToSet(sinks'[sid[o]]) : s \in ToSet(sinks[sid[o]]) \/ s = <<o, url[o]>>
            /\ <<o, url[o]>> \in ToSet(sinks'[sid[o]])
        BY <4>1, <4>2, ToSetAppend
      <4>4. <<o, url[o]>>[1] = o
        OBVIOUS
      <4> QED
        BY <1>u, <2>1, <4>3, <4>4 DEF OwnSinks
    <3> QED
      BY <3>1, <3>2
  <2>3. ~ HasJitter(o)'
    BY <1>1, <1>l DEF StartSink, HasJitter
  <2> QED
    BY <2>2, <2>3 DEF EntriesOf
<1>2. CASE StartPool(o)
  BY <1>2, <1>k, <1>l DEF StartPool, HasSinks, HasJitter
<1>3. CASE StartStream(o)
  <2>1. UNCHANGED sinks /\ cleanup'[o] = "none" /\ pc[o] = "stream" /\ pc'[o] \in {"jitter", "undo_pool"}
    BY <1>3, <1>l DEF StartStream
  <2> QED
    BY <1>k, <2>1 DEF HasSinks, HasJitter
<1>4. CASE StartJitter(o)
  BY <1>4, <1>i, <1>k DEF StartJitter, HasSinks
<1>5. CASE StartSpawn(o)
  BY <1>5, <1>k DEF StartSpawn, EntriesOf, HasSinks, HasJitter, tableVars
<1>6. CASE UndoPool(o)
  BY <1>6, <1>k, <1>l DEF UndoPool, HasSinks, HasJitter
<1>7. CASE UndoSinks(o)
  BY <1>7, <1>l DEF UndoSinks, EntriesOf, HasSinks, HasJitter
<1>8. CASE CleanupPool(o)
  BY <1>8, <1>k, <1>l DEF CleanupPool, EntriesOf, HasSinks, HasJitter
<1>9. CASE CleanupSinks(o)
  BY <1>9, <1>l, <1>u DEF CleanupSinks, EntriesOf, HasSinks, HasJitter
<1>10. CASE CleanupJitter(o)
  BY <1>10, <1>l DEF CleanupJitter, EntriesOf, HasSinks, HasJitter
<1> QED
  BY <1>1, <1>2, <1>3, <1>4, <1>5, <1>6, <1>7, <1>8, <1>9, <1>10 DEF StartStep, CleanupStep

(* So the entries of every busy session stay while the callers are calm.   *)
LEMMA EntriesStep ==
  TypeOK /\ Lives /\ SinksOwned /\ EntriesStay /\ [Next]_vars => EntriesStay'
<1> SUFFICES ASSUME TypeOK, Lives, SinksOwned, EntriesStay, [Next]_vars PROVE EntriesStay'
  OBVIOUS
<1>1. CASE UNCHANGED vars
  BY <1>1
  DEF EntriesStay, EntriesOf, OwnSinks, HasJitter, HasSinks, vars, storeVars, tableVars, startVars
<1> SUFFICES ASSUME Step, PastAfter, past'.calm, NEW o \in Objs
             PROVE  EntriesOf(o)'
  BY <1>1 DEF Next, EntriesStay
<1>o. EntriesOf(o) /\ past.stray \subseteq past'.stray
  BY PastIsCalm DEF EntriesStay
<1>b. Busy(o) => sid[o] \in IDs
  BY DEF Busy, HasJitter, HasSinks, Lives, TypeOK
<1>k. ASSUME pc'[o] = pc[o], cleanup'[o] = cleanup[o],
             Busy(o) => /\ sid'[o] = sid[o]
                        /\ jitterBufs'[sid[o]] = jitterBufs[sid[o]]
                        /\ HasSinks(o) => OwnSinks(o)'
      PROVE  EntriesOf(o)'
  BY <1>k, <1>o DEF EntriesOf, Busy, HasJitter, HasSinks
<1>s. ASSUME sid'[o] = sid[o], sinks'[sid[o]] = sinks[sid[o]], UNCHANGED <<url, patch>>
      PROVE  HasSinks(o) => OwnSinks(o)'
  BY <1>s, <1>o DEF EntriesOf, OwnSinks
<1>2. ASSUME NEW q \in Objs, NEW i \in IDs, CreateSession(q, i) PROVE EntriesOf(o)'
  <2>1. UNCHANGED <<sinks, jitterBufs, pc, cleanup, patch>>
    BY <1>2 DEF CreateSession, startVars, tableVars
  <2>2. Busy(o) => sid'[o] = sid[o] /\ url'[o] = url[o]
    <3>1. /\ stage[q] = "absent" /\ sid' = [sid EXCEPT ![q] = i]
          /\ \A p \in Objs \ {q} : url'[p] = url[p]
      BY <1>2 DEF CreateSession, Allocate, TypeOK
    <3>2. pc[q] = "idle" /\ cleanup[q] = "none"
      BY <3>1 DEF Lives
    <3>3. Busy(o) => o # q
      BY <3>2 DEF Busy, HasJitter, HasSinks
    <3> QED
      BY <3>1, <3>3 DEF TypeOK
  <2>3. Busy(o) /\ HasSinks(o) => OwnSinks(o)'
    BY <1>o, <2>1, <2>2 DEF EntriesOf, OwnSinks
  <2> QED
    BY <1>k, <2>1, <2>2, <2>3
<1>3. ASSUME NEW q \in Objs,
             UnlinkSession(q) \/ CancelSession(q) \/ StreamStops(q) \/ StreamReaped(q)
      PROVE  EntriesOf(o)'
  <2>1. UNCHANGED <<sid, sinks, jitterBufs, pc, cleanup, url, patch>>
    BY <1>3
    DEF UnlinkSession, CancelSession, Unlink, End, StreamStops, StreamReaped,
        storeVars, tableVars, startVars
  <2> QED
    BY <1>k, <1>s, <2>1
<1>6. ASSUME NEW q \in Objs, NEW p \in Patchers, PatchSession(p, q) PROVE EntriesOf(o)'
  <2>1. UNCHANGED <<sid, sinks, jitterBufs, pc, cleanup>>
    BY <1>6 DEF PatchSession, storeVars, tableVars, startVars
  <2>2. patch'[p] = q /\ \A r \in Patchers : patch[r] = o => patch'[r] = o
    BY <1>6 DEF PatchSession, TypeOK
  <2>3. o # q => url'[o] = url[o]
    BY <1>6 DEF PatchSession, TypeOK
  <2>4. HasSinks(o) => OwnSinks(o)'
    BY <1>o, <2>1, <2>2, <2>3 DEF EntriesOf, OwnSinks
  <2> QED
    BY <1>k, <2>1, <2>4
<1>4. ASSUME NEW q \in Objs, StartStep(q) \/ CleanupStep(q) PROVE EntriesOf(o)'
  <2>1. CASE q = o
    BY <1>4, <1>o, <2>1, OwnStep
  <2>2. CASE q # o
    <3>1. pc'[o] = pc[o] /\ cleanup'[o] = cleanup[o] /\ UNCHANGED <<sid, url, patch>>
      BY <1>4, <2>2, OthersWriteElsewhere
    <3>2. CASE sid[q] # sid[o]
      BY <1>4, <1>k, <1>s, <1>b, <3>1, <3>2, OthersWriteElsewhere
    <3>3. CASE sid[q] = sid[o] /\ Busy(o)
      BY <1>4, <2>2, <3>3, Alone, SettledRests
    <3>4. CASE ~ Busy(o)
      BY <1>k, <3>1, <3>4
    <3> QED
      BY <3>2, <3>3, <3>4
  <2> QED
    BY <2>1, <2>2
<1>5. ASSUME NEW p \in Patchers, ReplaceHTTPSink(p) PROVE EntriesOf(o)'
  <2>1. patch[p] \in Objs /\ \A i \in IDs :
          sinks'[i] = IF i = sid[patch[p]] THEN <<<<patch[p], "patched">>>> ELSE sinks[i]
    BY <1>5 DEF ReplaceHTTPSink, TypeOK
  <2>2. UNCHANGED <<sid, jitterBufs, pc, cleanup, url>>
    BY <1>5 DEF ReplaceHTTPSink, storeVars, startVars
  <2>3. CASE ~ Busy(o)
    BY <1>k, <2>2, <2>3
  <2>4. CASE Busy(o) /\ patch[p] = o
    <3>1. ToSet(sinks'[sid[o]]) = {<<o, "patched">>}
      BY <1>b, <2>1, <2>4, ToSetSingle
    <3>2. OwnSinks(o)'
      BY <2>2, <3>1 DEF OwnSinks
    <3> QED
      BY <1>k, <2>2, <3>2
  <2>5. CASE Busy(o) /\ patch[p] # o
    <3>1. sid[patch[p]] # sid[o]
      BY <1>5, <2>1, <2>5, Alone, SettledRests
    <3>2. sinks'[sid[o]] = sinks[sid[o]] /\ \A r \in Patchers : patch'[r] = o <=> patch[r] = o
      BY <1>5, <1>b, <2>1, <2>5, <3>1 DEF ReplaceHTTPSink, TypeOK
    <3>3. HasSinks(o) => OwnSinks(o)'
      BY <1>o, <2>2, <3>2 DEF EntriesOf, OwnSinks
    <3> QED
      BY <1>k, <2>2, <3>3
  <2> QED
    BY <2>3, <2>4, <2>5
<1> QED
  BY <1>2, <1>3, <1>4, <1>5, <1>6 DEF Step

-----------------------------------------------------------------------------
(* The theorems.                                                           *)

(* Empty tables and no goroutine: New.                                     *)
LEMMA IInvInit == Init => IInv
<1> SUFFICES ASSUME Init PROVE IInv
  OBVIOUS
<1>1. TypeOK
  BY TypeInit
<1>2. Lives
  BY DEF Init, StoreInit, Lives
<1>3. StreamsTracked
  BY DEF Init, StreamsTracked
<1>4. Streams = {}
  BY DEF Init, Streams
<1>5. TableBound
  BY <1>4, FS_EmptySet DEF TableBound
<1>6. SinksOwned /\ PipesOwned /\ JittersOwned /\ StreamsOwned
  BY ToSetEmpty DEF Init, SinksOwned, PipesOwned, JittersOwned, StreamsOwned
<1>7. PipesStay /\ EntriesStay
  BY DEF Init, PipesStay, EntriesStay, EntriesOf, HasPipe, HasJitter, HasSinks
<1> QED
  BY <1>1, <1>2, <1>3, <1>5, <1>6, <1>7, OrphanParts DEF IInv

(* Every step of Start, cleanup, the streams and ctrl-result keeps it.     *)
LEMMA IInvStep == IInv /\ [Next]_vars => IInv'
<1> SUFFICES ASSUME IInv, [Next]_vars PROVE IInv'
  OBVIOUS
<1> USE DEF IInv
<1>1. SinksOwned /\ PipesOwned /\ JittersOwned /\ StreamsOwned
  BY OrphanParts
<1>2. TypeOK' /\ Lives' /\ StreamsTracked' /\ TableBound'
  BY TypeStep, LivesStep, StreamsStep
<1>3. SinksOwned' /\ PipesOwned' /\ JittersOwned' /\ StreamsOwned'
  BY <1>1, SinksStep, OwnersStep
<1>4. NothingOrphaned'
  BY <1>3 DEF NothingOrphaned, SinksOwned, SinkOwner, Swept, PipesOwned, JittersOwned, StreamsOwned
<1>5. PipesStay' /\ EntriesStay'
  BY <1>1, PipesStep, EntriesStep
<1> QED
  BY <1>2, <1>4, <1>5

(* The inductive invariant: the goroutines of a session keep pace with its *)
(* Start, and the tables hold what these goroutines have yet to delete.    *)
THEOREM CoordinatorIInv == Spec => []IInv
<1> QED
  BY IInvInit, IInvStep, PTL DEF Spec

(* However IDs are used again, the AI manager tracks every running stream  *)
(* and keeps its limit, and no entry of the four tables has lost the       *)
(* session or the goroutine that will remove it.                           *)
THEOREM TablesAreSound == Spec => []CoordinatorInv
<1>1. IInv => CoordinatorInv
  BY TableBoundsStreams DEF IInv, CoordinatorInv
<1> QED
  BY <1>1, CoordinatorIInv, PTL

(* What the comment of Start promises: while its session is open, a Start  *)
(* that has succeeded has its pipeline, however IDs are used again.  It has *)
(* its jitter buffer and its sinks, and shares its ID's sinks with strays  *)
(* only, as long as an ID is used again only once the session before it is *)
(* settled.                                                                *)
THEOREM StartIsReady == Spec => []StartedIsReady
<1>1. IInv => StartedIsReady
  <2> SUFFICES ASSUME IInv, NEW o \in Objs, pc[o] = "started", stage[o] = "open"
               PROVE  pipes[sid[o]] = o /\ (past.calm => jitterBufs[sid[o]] = o /\ OwnSinks(o))
    BY DEF StartedIsReady, OwnSinks
  <2>1. cleanup[o] = "pool"
    BY DEF IInv, Lives, Done, TypeOK, CleanupSteps
  <2>2. HasPipe(o) /\ HasJitter(o) /\ HasSinks(o)
    BY <2>1 DEF HasPipe, HasJitter, HasSinks
  <2> QED
    BY <2>2 DEF IInv, PipesStay, EntriesStay, EntriesOf
<1> QED
  BY <1>1, CoordinatorIInv, PTL
=============================================================================
