---------------------------- MODULE JitterBuffer ----------------------------
(***************************************************************************)
(* internal/jitter with the goroutines around it: the listener's reader    *)
(* that stamps a datagram and puts it in the session's PacketQueue, the    *)
(* packet pump that pushes it into the buffer, the flush loop that the     *)
(* ticker drives, and the submit pump that empties the output channel.     *)
(*                                                                         *)
(* A packet is its place in the sender's stream; on the wire only its      *)
(* sequence number is seen, the place modulo SeqSpace, and everything the  *)
(* buffer decides it decides by SeqDiff on those.  The network loses,      *)
(* duplicates and reorders packets.  Flush holds Buffer.mu throughout, so  *)
(* no Push happens during one, but the submit pump does not: each turn of  *)
(* its loop is an action.                                                  *)
(*                                                                         *)
(* A definition X_Bug is X with a bug that the runs are known to find; no  *)
(* action uses it.                                                         *)
(***************************************************************************)
EXTENDS Integers, FiniteSets, Sequences

CONSTANTS
  SeqSpace,    \* 2^16: sequence numbers are uint16
  Places,      \* bound: the places in the stream the sender uses
  MaxCopies,   \* bound: how often the network delivers a packet it has delivered
  BufferTime,  \* Config.BufferMs, in periods of the ticker (PacketTimeMs)
  MaxLate,     \* Config.MaxLateMs, likewise
  QueueCap,    \* capacity of Session.PacketQueue
  OutCap,      \* capacity of the output channel
  MaxClock,    \* bound: the clock stops there
  Nil          \* not a number

ASSUME JitterAssumption ==
  /\ SeqSpace \in Nat \ {0} /\ SeqSpace % 2 = 0
  /\ IsFiniteSet(Places) /\ Places \subseteq Nat \ {0}
  /\ {MaxCopies, BufferTime, MaxLate, QueueCap, OutCap, MaxClock} \subseteq Nat
  /\ Nil \notin Int

VARIABLES
  arrivals,    \* the network: how often each packet has been delivered
  queue,       \* Session.PacketQueue: packets with their ReceivedAtMs
  queueDropped,\* packets the reader dropped because the queue was full
  heap,        \* Buffer.h: how many copies of each packet it holds
  firstAt,     \* Buffer.firstAt, Nil until started
  next,        \* Buffer.nextExpected, Nil until nextSet
  holdUntil,   \* Buffer.holdUntil
  last,        \* Buffer.lastProcessed, Nil until hasProcessed
  received, released, lost,  \* the counters of Buffer
  dropped,     \* Buffer.dropped, by reason: late, dup (in Push and in flush), full
  out,         \* the output channel
  newest,      \* the latest packet that went through the output (0: none)
  clock,       \* time.Now()
  tick,        \* the value waiting in the ticker's channel (capacity 1)
  flushing     \* the time flush was called with, while it runs

netVars == <<arrivals, queue, queueDropped>>
countVars == <<received, released, lost, dropped>>
stateVars == <<firstAt, next, holdUntil, last>>
timeVars == <<clock, tick>>
jitterVars == <<netVars, heap, stateVars, countVars, out, newest, timeVars, flushing>>

Wires == 0 .. SeqSpace - 1
Wire(n) == n % SeqSpace

SeqDiff(a, b) ==
  LET d == (a - b) % SeqSpace IN IF d < SeqSpace \div 2 THEN d ELSE d - SeqSpace

SeqLess(a, b) == SeqDiff(a, b) < 0

Held == {n \in Places : heap[n] > 0}

(* The copies that f counts, one by one.                                   *)
Copies(f) == UNION {{n} \X (1 .. f[n]) : n \in Places}

Queued == {queue[i].n : i \in 1 .. Len(queue)}

(* The places that the gateway still has to tell apart: those that wait in *)
(* the queue or in the buffer, and the last one it let through.            *)
InUse == Queued \cup Held \cup (IF newest = 0 THEN {} ELSE {newest})

JitterTypeOK ==
  /\ arrivals \in [Places -> Nat]
  /\ queue \in Seq([n : Places, at : Nat])
  /\ queueDropped \in Nat
  /\ heap \in [Places -> Nat]
  /\ firstAt \in Nat \cup {Nil}
  /\ next \in Wires \cup {Nil}
  /\ holdUntil \in Nat
  /\ last \in Wires \cup {Nil}
  /\ {received, released, lost} \subseteq Nat
  /\ dropped \in [{"late", "dup", "full"} -> Nat]
  /\ out \in Seq(Places)
  /\ newest \in Nat
  /\ clock \in Nat
  /\ tick \in Nat \cup {Nil}
  /\ flushing \in Nat \cup {Nil}

JitterInit ==
  /\ arrivals = [n \in Places |-> 0]
  /\ queue = <<>>
  /\ queueDropped = 0
  /\ heap = [n \in Places |-> 0]
  /\ firstAt = Nil
  /\ next = Nil
  /\ holdUntil = 0
  /\ last = Nil
  /\ received = 0 /\ released = 0 /\ lost = 0
  /\ dropped = [r \in {"late", "dup", "full"} |-> 0]
  /\ out = <<>>
  /\ newest = 0
  /\ clock = 0
  /\ tick = Nil
  /\ flushing = Nil

-----------------------------------------------------------------------------
(* The network and the reader: the datagram is stamped, and dropped when the *)
(* queue is full.  The network delivers nothing half of the sequence space   *)
(* away from the places in use, at a packet every 20 ms eleven minutes of    *)
(* audio; the stream as a whole has any length.                              *)

Near(m, n) == m - n < SeqSpace \div 2 /\ n - m < SeqSpace \div 2

Arrive(n) ==
  /\ arrivals[n] > 0 =>
       Cardinality(Copies(arrivals)) < MaxCopies + Cardinality({m \in Places : arrivals[m] > 0})
  /\ \A m \in InUse : Near(m, n)
  /\ arrivals' = [arrivals EXCEPT ![n] = @ + 1]
  /\ \/ /\ Len(queue) < QueueCap
        /\ queue' = Append(queue, [n |-> n, at |-> clock])
        /\ UNCHANGED queueDropped
     \/ /\ Len(queue) = QueueCap
        /\ queueDropped' = queueDropped + 1
        /\ UNCHANGED queue
  /\ UNCHANGED <<heap, stateVars, countVars, out, newest, timeVars, flushing>>

-----------------------------------------------------------------------------
(* Push, called by the packet pump with the head of the queue.             *)

Drop_Uncounted(reason) == UNCHANGED dropped
Drop(reason) == dropped' = [dropped EXCEPT ![reason] = @ + 1]

TooLate(p) == clock - p.at > MaxLate
Stale_Never(p) == FALSE
Stale(p) == last # Nil /\ SeqDiff(Wire(p.n), last) <= 0

Dequeue ==
  /\ flushing = Nil
  /\ queue # <<>>
  /\ queue' = Tail(queue)
  /\ UNCHANGED <<arrivals, queueDropped, next, holdUntil, last, released, lost,
                 out, newest, timeVars, flushing>>

PushRejects ==
  LET p == Head(queue) IN
  /\ Dequeue
  /\ \/ TooLate(p) /\ Drop("late")
     \/ ~TooLate(p) /\ Stale(p) /\ Drop("dup")
  /\ UNCHANGED <<heap, firstAt, received>>

PushAccepts ==
  LET p == Head(queue) IN
  /\ Dequeue
  /\ ~TooLate(p) /\ ~Stale(p)
  /\ heap' = [heap EXCEPT ![p.n] = @ + 1]
  /\ received' = received + 1
  /\ firstAt' = IF firstAt = Nil THEN clock ELSE firstAt
  /\ UNCHANGED dropped

-----------------------------------------------------------------------------
(* Run: the ticker drops a tick when the previous one was not consumed.    *)

Tick ==
  /\ tick = Nil
  /\ tick' = clock
  /\ UNCHANGED <<netVars, heap, stateVars, countVars, out, newest, clock, flushing>>

(* flush(now): the early returns, the accumulation window, the first           *)
(* nextExpected.                                                               *)

Top == CHOOSE n \in Held : \A m \in Held : ~SeqLess(Wire(m), Wire(n))

FlushReturns ==
  firstAt # Nil /\ Held # {} => next = Nil /\ tick < firstAt + BufferTime

FlushIdle ==
  /\ tick # Nil /\ flushing = Nil
  /\ FlushReturns
  /\ tick' = Nil
  /\ UNCHANGED <<netVars, heap, stateVars, countVars, out, newest, clock, flushing>>

FlushStart ==
  /\ tick # Nil /\ flushing = Nil
  /\ ~FlushReturns
  /\ tick' = Nil
  /\ flushing' = tick
  /\ IF next = Nil
     THEN next' = Wire(Top) /\ holdUntil' = tick + BufferTime
     ELSE UNCHANGED <<next, holdUntil>>
  /\ UNCHANGED <<netVars, heap, firstAt, last, countVars, out, newest, clock>>

(* The iterations of flush's loop.                                             *)

AtTop(n) == flushing # Nil /\ Held # {} /\ n = Top

Advance_NoWrap ==
  /\ last' = next
  /\ next' = next + 1
  /\ holdUntil' = flushing + BufferTime
  /\ UNCHANGED firstAt

Advance_Stays ==
  /\ last' = next
  /\ next' = next
  /\ holdUntil' = flushing + BufferTime
  /\ UNCHANGED firstAt

Advance ==
  /\ last' = next
  /\ next' = Wire(next + 1)
  /\ holdUntil' = flushing + BufferTime
  /\ UNCHANGED firstAt

Pop(n) == heap' = [heap EXCEPT ![n] = @ - 1]

Release(n) ==
  /\ AtTop(n)
  /\ SeqDiff(Wire(n), next) = 0
  /\ Pop(n)
  /\ Advance
  /\ newest' = n
  /\ \/ /\ Len(out) < OutCap
        /\ out' = Append(out, n)
        /\ released' = released + 1
        /\ UNCHANGED dropped
     \/ /\ Len(out) = OutCap
        /\ Drop("full")
        /\ UNCHANGED <<out, released>>
  /\ UNCHANGED <<netVars, received, lost, timeVars, flushing>>

DropOld(n) ==
  /\ AtTop(n)
  /\ SeqDiff(Wire(n), next) < 0
  /\ Pop(n)
  /\ Drop("dup")
  /\ UNCHANGED <<netVars, stateVars, received, released, lost, out, newest,
                 timeVars, flushing>>

DeclareLost(n) ==
  /\ AtTop(n)
  /\ SeqDiff(Wire(n), next) > 0
  /\ flushing > holdUntil
  /\ Advance
  /\ lost' = lost + 1
  /\ UNCHANGED <<netVars, heap, received, released, dropped, out, newest,
                 timeVars, flushing>>

FlushEnd ==
  /\ flushing # Nil
  /\ Held # {} => SeqDiff(Wire(Top), next) > 0 /\ flushing <= holdUntil
  /\ flushing' = Nil
  /\ UNCHANGED <<netVars, heap, stateVars, countVars, out, newest, timeVars>>

-----------------------------------------------------------------------------
(* The submit pump.                                                        *)

Take ==
  /\ out # <<>>
  /\ out' = Tail(out)
  /\ UNCHANGED <<netVars, heap, stateVars, countVars, newest, timeVars, flushing>>

TimePasses ==
  /\ clock < MaxClock
  /\ clock' = clock + 1
  /\ UNCHANGED <<netVars, heap, stateVars, countVars, out, newest, tick, flushing>>

Flush ==
  \/ FlushIdle \/ FlushStart \/ FlushEnd
  \/ \E n \in Places : Release(n) \/ DropOld(n) \/ DeclareLost(n)

JitterNext ==
  \/ \E n \in Places : Arrive(n)
  \/ PushRejects \/ PushAccepts
  \/ Tick \/ Flush
  \/ Take \/ TimePasses

JitterSpec == JitterInit /\ [][JitterNext]_jitterVars

-----------------------------------------------------------------------------
(* Properties.                                                             *)

(* The decoder gets packets in the order they were sent and each at most once, *)
(* across the wraparound of the sequence number, whatever the network does and *)
(* whether or not the output channel had room for those before.                *)
InOrder == [][\A n \in Places : Release(n) => n > newest]_jitterVars

(* Nothing that Push accepted is thrown away as old, unless another copy of it *)
(* has gone through: the buffer never skips a packet it holds, and declares    *)
(* lost only what it does not have.                                            *)
DropsOnlyDuplicates ==
  [][\A n \in Places : DropOld(n) => n = newest]_jitterVars

Counted == released + dropped["late"] + dropped["dup"] + dropped["full"]

(* Every datagram the reader took is in exactly one place: the queue, the heap *)
(* or one of the counters.                                                     *)
Conservation ==
  Cardinality(Copies(arrivals)) =
    Len(queue) + queueDropped + Cardinality(Copies(heap)) + Counted

(* The buffer's fields stay in their ranges over the wraparound, and no *)
(* datagram is lost from the accounts or counted twice.                 *)
JitterBufferInv == JitterTypeOK /\ Conservation
=============================================================================
