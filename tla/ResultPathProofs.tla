--------------------------- MODULE ResultPathProofs ---------------------------
(***************************************************************************)
(* What ResultPath says of the way of results, proved for every number of  *)
(* sessions and workers, every list of sinks, every queue size and every   *)
(* number of retries.                                                      *)
(***************************************************************************)
EXTENDS ResultPath, FiniteSetTheorems, SequenceTheorems, TLAPS

(* Two results that are the same but for being final.                      *)
Same(r, q) == r.s = q.s /\ r.n = q.n

(* A result older than the one its pump holds, if it holds one.            *)
Passed(r) == r.n <= made[r.s] /\ (Holds(r.s) => r.n < made[r.s])

(* Pumps number the results of a session and hold the newest of them.      *)
Numbered ==
  /\ \A s \in Sessions : Holds(s) => pump[s].s = s /\ pump[s].n = made[s]
  /\ \A i \in DOMAIN queue : Passed(queue[i])
  /\ \A w \in Busy : Passed(wk[w].r)
  /\ \A r \in dropped : Passed(r)
  /\ \A e \in ends : Passed(e.r)

(* No result is at two places behind the pumps; only the worker that sends *)
(* a result has it in common with the sends that have ended.               *)
Apart ==
  /\ \A i, j \in DOMAIN queue : i < j /\ queue[i].s = queue[j].s => queue[i].n < queue[j].n
  /\ \A i \in DOMAIN queue : /\ \A w \in Busy : ~Same(wk[w].r, queue[i])
                             /\ \A r \in dropped : ~Same(r, queue[i])
                             /\ \A e \in ends : ~Same(e.r, queue[i])
  /\ \A w \in Busy : /\ \A v \in Busy : Same(wk[v].r, wk[w].r) => v = w
                     /\ \A r \in dropped : ~Same(r, wk[w].r)
                     /\ \A e \in ends : Same(e.r, wk[w].r) => e.r = wk[w].r
  /\ \A e \in ends : /\ \A r \in dropped : ~Same(r, e.r)
                     /\ \A f \in ends : Same(f.r, e.r) => f.r = e.r

(* A worker with a result to send has a sink to send it to.                *)
Working ==
  \A w \in cfg.workers :
    /\ w \in Busy => wk[w].r # None
    /\ wk[w].at \in {"post", "backoff"} => wk[w].todo # <<>>
    /\ wk[w].at = "backoff" => Head(wk[w].todo) = "http"
    /\ wk[w].tries <= MaxRetry

Ended(r, k) == \E e \in ends : e.r = r /\ e.sink = k

(* The worker has done the first sinks of the list, and has the others to do. *)
AlongBy(w, k) ==
  /\ k = Len(cfg.sinks) - Len(wk[w].todo)
  /\ \A i \in DOMAIN wk[w].todo : wk[w].todo[i] = cfg.sinks[k + i]
  /\ \A i \in DOMAIN cfg.sinks : Ended(wk[w].r, cfg.sinks[i]) <=> i <= k

Along(w) == \E k \in Nat : AlongBy(w, k)

(* Only a configured dead-letter sink takes what has run out of attempts.  *)
DeadLetterKept(how) ==
  /\ how \in {"dead", "lost"} => cfg.deadLetter
  /\ how = "failed" => ~cfg.deadLetter

(* A result ends once for each sink.                                       *)
EndsOnce ==
  /\ \A e \in ends : e.sink = "http" => DeadLetterKept(e.how)
  /\ \A e, f \in ends : (e.r = f.r /\ e.sink = f.sink) => e = f

(* Sends follow the list of sinks, which may be empty when it is copied.   *)
Listed ==
  /\ \A s \in Sessions : sinks[s] \in {cfg.sinks, <<>>}
  /\ \A w \in Busy : \/ wk[w].todo = <<>> /\ \A e \in ends : e.r # wk[w].r
                     \/ Along(w)
  /\ \A e \in ends :
       /\ \E i \in DOMAIN cfg.sinks : e.sink = cfg.sinks[i]
       /\ (ctx = "live" /\ \A w \in Busy : wk[w].r # e.r) =>
            \A i \in DOMAIN cfg.sinks : Ended(e.r, cfg.sinks[i])
  /\ EndsOnce

Trying(w) == wk[w].at \in {"post", "backoff"} /\ Head(wk[w].todo) = "http"

(* What an endpoint has got belongs to a callback that has ended or to one *)
(* under way.                                                              *)
OwnedBy(s, n) ==
  \/ \E w \in Busy : Trying(w) /\ wk[w].r.s = s /\ wk[w].r.n = n
  \/ \E e \in ends : e.sink = "http" /\ e.r.s = s /\ e.r.n = n

Owned == \A s \in Sessions : \A i \in DOMAIN got[s] : OwnedBy(s, got[s][i].n)

(* A callback under way has had no final answer, and its attempts are counted. *)
OpenFor(w) ==
  /\ \A i \in Receipts(wk[w].r.s, wk[w].r.n) : got[wk[w].r.s][i].reply = "again"
  /\ Cardinality(Receipts(wk[w].r.s, wk[w].r.n)) <= wk[w].tries

(* Attempts are few, and only the last may have had a final answer.        *)
Attempted ==
  \A s \in Sessions : \A n \in Nat :
    /\ Cardinality(Receipts(s, n)) <= MaxRetry + 1
    /\ \A i, j \in Receipts(s, n) : i < j => got[s][i].reply = "again"

(* A callback has ended in a way that the receipts of its endpoint bear out. *)
Agrees(how, rs, answers) ==
  /\ how = "ok" <=> \E i \in rs : answers[i].reply = "2xx"
  /\ how = "refused" <=> \E i \in rs : answers[i].reply = "4xx"
  /\ how = "late" => Cardinality(rs) <= MaxRetry
  /\ how = "invalid" => rs = {}

Told ==
  \A e \in ends : e.sink = "http" => Agrees(e.how, Receipts(e.r.s, e.r.n), got[e.r.s])

Answers == Owned /\ (\A w \in Busy : Trying(w) => OpenFor(w)) /\ Attempted /\ Told

OneWorker == \A w, v \in cfg.workers : w = v

(* With one worker whatever an endpoint has got is older than what waits.  *)
Ahead ==
  OneWorker =>
    /\ \A w \in Busy : \A j \in DOMAIN queue :
         queue[j].s = wk[w].r.s => wk[w].r.n < queue[j].n
    /\ \A s \in Sessions : \A i \in DOMAIN got[s] :
         /\ \A w \in Busy : wk[w].r.s = s => got[s][i].n <= wk[w].r.n
         /\ \A j \in DOMAIN queue : queue[j].s = s => got[s][i].n < queue[j].n
         /\ \A j \in DOMAIN got[s] : i < j => got[s][i].n <= got[s][j].n

IInv == /\ TypeOK /\ Numbered /\ Apart /\ Working /\ Listed /\ Answers /\ Ahead
        /\ OnlyPartialsDropped /\ IsFiniteSet(dropped)

-----------------------------------------------------------------------------
(* Types.                                                                  *)

(* What the type invariant says of workers, results and sinks.             *)
LEMMA TypeParts ==
  ASSUME TypeOK
  PROVE  /\ cfg \in Configs /\ ctx \in {"live", "done"} /\ live \subseteq Sessions
         /\ cfg.workers \subseteq Workers /\ cfg.sinks \in Seq(Sinks)
         /\ cfg.results \in Nat /\ cfg.dropPartial \in BOOLEAN /\ cfg.deadLetter \in BOOLEAN
         /\ \A i, j \in DOMAIN cfg.sinks : cfg.sinks[i] = cfg.sinks[j] => i = j
         /\ made \in [Sessions -> Nat] /\ pump \in [Sessions -> Results \cup {None, Stopped}]
         /\ queue \in Seq(Results) /\ Len(queue) <= QueueSize
         /\ sinks \in [Sessions -> Seq(Sinks)]
         /\ wk \in [cfg.workers -> WorkerStates]
         /\ dropped \subseteq Results
         /\ ends \subseteq [r : Results, sink : Sinks, how : Endings]
         /\ got \in [Sessions -> Seq([n : Nat, reply : Replies])]
<1>1. cfg \in [workers : SUBSET Workers, dropPartial : BOOLEAN,
               deadLetter : BOOLEAN, sinks : Seq(Sinks), results : Nat]
  BY ResultAssumption DEF TypeOK
<1>2. \A i, j \in DOMAIN cfg.sinks : cfg.sinks[i] = cfg.sinks[j] => i = j
  BY ResultAssumption DEF TypeOK
<1> QED
  BY <1>1, <1>2 DEF TypeOK

(* The fields of a worker.                                                 *)
LEMMA WorkerParts ==
  ASSUME TypeOK, NEW w \in cfg.workers
  PROVE  /\ wk[w] \in WorkerStates
         /\ wk[w].at \in {"idle", "next", "post", "backoff", "done"}
         /\ wk[w].r \in Results \cup {None} /\ wk[w].todo \in Seq(Sinks)
         /\ wk[w].tries \in Nat /\ wk[w].late \in BOOLEAN
<1>1. wk[w] \in WorkerStates
  BY TypeParts
<1> QED
  BY <1>1 DEF WorkerStates

(* A busy worker has a result of a session.                                *)
LEMMA BusyParts ==
  ASSUME TypeOK, Working, NEW w \in Busy
  PROVE  /\ w \in cfg.workers /\ wk[w].r \in Results
         /\ wk[w].r.s \in Sessions /\ wk[w].r.n \in Nat \ {0}
<1>1. w \in cfg.workers /\ wk[w].r # None
  BY DEF Busy, Working
<1>2. wk[w].r \in Results
  BY <1>1, WorkerParts
<1> QED
  BY <1>1, <1>2 DEF Results

(* The fields of a result.                                                 *)
LEMMA ResultParts ==
  ASSUME NEW r \in Results
  PROVE  r.s \in Sessions /\ r.n \in Nat /\ r.n > 0 /\ r.final \in BOOLEAN
BY DEF Results

(* The result a pump holds is one of its session's.                        *)
LEMMA PumpParts ==
  ASSUME TypeOK, NEW s \in Sessions, Holds(s)
  PROVE  pump[s] \in Results
BY TypeParts DEF Holds

-----------------------------------------------------------------------------
(* What the steps do, without EXCEPT.                                      *)

(* A pump's step: what it does to the result it holds, to the queue and to *)
(* what is dropped.                                                        *)
Pumps(s) ==
  /\ ~Holds(s) /\ made'[s] = made[s] + 1 /\ pump'[s] \in Results
  /\ pump'[s].s = s /\ pump'[s].n = made[s] + 1
  /\ UNCHANGED <<queue, dropped>>

Ceases(s) ==
  /\ ~Holds(s) /\ made'[s] = made[s] /\ pump'[s] = Stopped
  /\ UNCHANGED <<queue, dropped>>

Pushes(s) ==
  /\ Holds(s) /\ made'[s] = made[s] /\ pump'[s] = None
  /\ Len(queue) < QueueSize /\ queue' = Append(queue, pump[s])
  /\ UNCHANGED dropped

Drops(s) ==
  /\ Holds(s) /\ made'[s] = made[s] /\ pump'[s] = None
  /\ dropped' = dropped \cup {pump[s]}
  /\ s \in live => cfg.dropPartial /\ ~pump[s].final
  /\ UNCHANGED queue

PumpShape(s) ==
  /\ \A t \in Sessions : t # s => pump'[t] = pump[t] /\ made'[t] = made[t]
  /\ Pumps(s) \/ Ceases(s) \/ Pushes(s) \/ Drops(s)

(* Every step of a pump is one of these.                                   *)
LEMMA PumpShapes ==
  ASSUME TypeOK, NEW s \in Sessions, PumpStep(s)
  PROVE  /\ PumpShape(s) /\ made' \in [Sessions -> Nat]
         /\ pump' \in [Sessions -> Results \cup {None, Stopped}]
         /\ UNCHANGED <<cfg, ctx, live, sinks, wk, ends, got>>
<1>1. made \in [Sessions -> Nat] /\ pump \in [Sessions -> Results \cup {None, Stopped}]
  BY TypeParts
<1>2. None # Stopped /\ None \notin Results /\ Stopped \notin Results
  BY ResultAssumption
<1>3. UNCHANGED <<cfg, ctx, live, sinks, wk, ends, got>>
  BY DEF PumpStep
<1>4. CASE PumpTakes(s)
  <2>1. made[s] + 1 \in Nat \ {0} /\ made' = [made EXCEPT ![s] = @ + 1] /\ made'[s] = made[s] + 1
    BY <1>1, <1>4 DEF PumpTakes
  <2>2. PICK f \in BOOLEAN : pump' = [pump EXCEPT ![s] = [s |-> s, n |-> made'[s], final |-> f]]
    BY <1>4 DEF PumpTakes
  <2>3. [s |-> s, n |-> made'[s], final |-> f] \in Results
    BY <2>1 DEF Results
  <2>4. /\ \A t \in Sessions : t # s => pump'[t] = pump[t] /\ made'[t] = made[t]
        /\ pump'[s] \in Results /\ pump'[s].s = s /\ pump'[s].n = made[s] + 1
        /\ made' \in [Sessions -> Nat]
    BY <1>1, <2>1, <2>2, <2>3
  <2>5. pump' \in [Sessions -> Results \cup {None, Stopped}]
    BY <1>1, <2>2, <2>3
  <2>6. ~Holds(s) /\ UNCHANGED <<queue, dropped>>
    BY <1>4 DEF PumpTakes, Holds
  <2> QED
    BY <1>3, <2>1, <2>4, <2>5, <2>6 DEF PumpShape, Pumps
<1>5. CASE PumpStops(s)
  BY <1>1, <1>2, <1>3, <1>5 DEF PumpStops, PumpShape, Ceases, Holds
<1>6. CASE PushRoom(s)
  BY <1>1, <1>3, <1>6 DEF PushRoom, PumpShape, Pushes
<1>7. CASE PushDrops(s)
  BY <1>1, <1>3, <1>7 DEF PushDrops, MayDrop, PumpShape, Drops
<1>8. CASE PushCancelled(s)
  BY <1>1, <1>3, <1>8 DEF PushCancelled, PumpShape, Drops
<1> QED
  BY <1>4, <1>5, <1>6, <1>7, <1>8 DEF PumpStep

(* A worker's step, by what becomes of its result.                         *)

Takes(w) ==
  /\ w \notin Busy /\ Busy' = Busy \cup {w}
  /\ queue # <<>> /\ queue' = Tail(queue)
  /\ wk'[w].at = "next" /\ wk'[w].r = Head(queue) /\ wk'[w].tries = 0
  /\ wk'[w].todo = sinks[Head(queue).s]
  /\ UNCHANGED <<ends, got>>

Leaves(w) ==
  /\ w \in Busy /\ Busy' = Busy \ {w}
  /\ wk[w].at = "next" /\ (wk[w].todo = <<>> \/ ctx = "done")
  /\ wk'[w].at = "idle" /\ wk'[w].tries = 0
  /\ UNCHANGED <<queue, ends, got>>

KeepsResult(w) == Busy' = Busy /\ wk'[w].r = wk[w].r /\ wk'[w].todo = wk[w].todo

Quits(w) ==
  /\ w \notin Busy /\ KeepsResult(w)
  /\ wk'[w].at = "done" /\ wk'[w].tries = wk[w].tries
  /\ UNCHANGED <<queue, ends, got>>

Starts(w) ==
  /\ w \in Busy /\ KeepsResult(w)
  /\ wk[w].at = "next" /\ wk'[w].at = "post" /\ wk[w].todo # <<>> /\ wk'[w].tries = 0
  /\ UNCHANGED <<queue, ends, got>>

Sending(w) == w \in Busy /\ wk[w].at \in {"post", "backoff"}

Waits(w) ==
  /\ Sending(w) /\ KeepsResult(w)
  /\ \/ wk'[w].at = "backoff" /\ (wk[w].at = "post" => Sink(w) = "http")
     \/ wk'[w].at = "post"
  /\ wk[w].tries <= wk'[w].tries /\ (wk[w].tries <= MaxRetry => wk'[w].tries <= MaxRetry)
  /\ UNCHANGED <<queue, ends, got>>

Retries(w) ==
  /\ Sending(w) /\ Sink(w) = "http" /\ KeepsResult(w)
  /\ wk'[w].at = "backoff" /\ wk'[w].tries = wk[w].tries + 1 /\ wk[w].tries < MaxRetry
  /\ Reach(w, "again")
  /\ UNCHANGED <<queue, ends>>

(* The Send returns without, or with, an answer that comes now.            *)
Unheard(w, how) ==
  /\ UNCHANGED got
  /\ Sink(w) = "http" => how \notin {"ok", "refused"} /\ (how = "invalid" => wk[w].tries = 0)

Heard(w, how, reply) ==
  /\ Sink(w) = "http" /\ Reach(w, reply) /\ how \notin {"late", "invalid"}
  /\ how = "ok" <=> reply = "2xx"
  /\ how = "refused" <=> reply = "4xx"

Returns(w, how) ==
  /\ Sending(w) /\ Busy' = Busy /\ wk'[w].r = wk[w].r /\ wk'[w].todo = Tail(wk[w].todo)
  /\ wk'[w].at = "next" /\ wk'[w].tries = wk[w].tries
  /\ ends' = ends \cup {[r |-> wk[w].r, sink |-> Sink(w), how |-> how]}
  /\ how \in Endings /\ (Sink(w) = "http" => DeadLetterKept(how))
  /\ Unheard(w, how) \/ \E reply \in Replies : Heard(w, how, reply)
  /\ UNCHANGED queue

WorkerShape(w) ==
  /\ wk' \in [cfg.workers -> WorkerStates]
  /\ \A v \in cfg.workers : v # w => wk'[v] = wk[v]
  /\ \/ Takes(w) \/ Leaves(w) \/ Quits(w) \/ Starts(w) \/ Waits(w) \/ Retries(w)
     \/ \E how \in Endings : Returns(w, how)

(* The workers that are busy after one has changed.                        *)
LEMMA BusyAfter ==
  ASSUME NEW w \in cfg.workers, cfg' = cfg,
         \A v \in cfg.workers : v # w => wk'[v] = wk[v]
  PROVE  Busy' = IF wk'[w].at \in {"idle", "done"} THEN Busy \ {w} ELSE Busy \cup {w}
BY DEF Busy

(* SendReturns, after which the worker goes on with the next sink.         *)
LEMMA ReturnsShape ==
  ASSUME TypeOK, Working, NEW w \in cfg.workers, NEW how \in Endings, cfg' = cfg,
         Sending(w), SendReturns(w, how),
         Sink(w) = "http" => DeadLetterKept(how),
         Unheard(w, how) \/ \E reply \in Replies : Heard(w, how, reply)
  PROVE  WorkerShape(w)
<1>1. wk \in [cfg.workers -> WorkerStates] /\ wk[w] \in WorkerStates
  BY TypeParts
<1>2. wk' = [wk EXCEPT ![w].at = "next", ![w].todo = Tail(@)]
  BY DEF SendReturns
<1>7. Tail(wk[w].todo) \in Seq(Sinks)
  BY WorkerParts DEF Sending, Working
<1>3. /\ wk' \in [cfg.workers -> WorkerStates]
      /\ \A v \in cfg.workers : v # w => wk'[v] = wk[v]
      /\ wk'[w].at = "next" /\ wk'[w].r = wk[w].r /\ wk'[w].todo = Tail(wk[w].todo)
      /\ wk'[w].tries = wk[w].tries
  BY <1>1, <1>2, <1>7 DEF WorkerStates
<1>4. Busy' = Busy
  BY <1>3, BusyAfter DEF Sending
<1>5. Returns(w, how)
  BY <1>3, <1>4 DEF Returns, SendReturns
<1> QED
  BY <1>3, <1>5 DEF WorkerShape

(* Another attempt, or the end of the last one.                            *)
LEMMA FailsShape ==
  ASSUME TypeOK, Working, NEW w \in cfg.workers, NEW late \in BOOLEAN, cfg' = cfg,
         HTTP(w), Fails(w, late), Reach(w, "again") \/ UNCHANGED got
  PROVE  WorkerShape(w)
<1>1. wk \in [cfg.workers -> WorkerStates] /\ wk[w] \in WorkerStates /\ MaxRetry \in Nat
  BY TypeParts, ResultAssumption
<1>2. w \in Busy /\ Sending(w) /\ Sink(w) = "http" /\ wk[w].at = "post"
  BY DEF HTTP, Busy, Sending
<1>3. CASE wk[w].tries < MaxRetry
  <2>1. /\ wk' = [wk EXCEPT ![w].at = "backoff", ![w].tries = @ + 1, ![w].late = @ \/ late]
        /\ UNCHANGED <<queue, ends>>
    BY <1>3 DEF Fails
  <2>2. /\ wk' \in [cfg.workers -> WorkerStates]
        /\ \A v \in cfg.workers : v # w => wk'[v] = wk[v]
        /\ wk'[w].at = "backoff" /\ wk'[w].r = wk[w].r /\ wk'[w].todo = wk[w].todo
        /\ wk'[w].tries = wk[w].tries + 1 /\ wk[w].tries \in Nat
    BY <1>1, <2>1 DEF WorkerStates
  <2>3. Busy' = Busy
    BY <1>2, <2>2, BusyAfter
  <2>4. CASE Reach(w, "again")
    BY <1>2, <1>3, <2>1, <2>2, <2>3, <2>4 DEF WorkerShape, Retries, KeepsResult
  <2>5. CASE UNCHANGED got
    <3>1. wk[w].tries <= wk'[w].tries /\ wk'[w].tries <= MaxRetry
      BY <1>1, <1>3, <2>2
    <3> QED
      BY <1>2, <2>1, <2>2, <2>3, <2>5, <3>1 DEF WorkerShape, Waits, KeepsResult
  <2> QED
    BY <2>4, <2>5
<1>4. CASE ~(wk[w].tries < MaxRetry)
  <2>1. PICK how \in (IF cfg.deadLetter THEN {"dead", "lost"} ELSE {"failed"}) : SendReturns(w, how)
    BY <1>4 DEF Fails, Exhausted
  <2>2. how \in {"dead", "lost", "failed"} /\ DeadLetterKept(how)
    BY DEF DeadLetterKept
  <2>3. how \in Endings /\ how \notin {"ok", "refused", "late", "invalid"}
    BY <2>2 DEF Endings
  <2>4. "again" \in Replies /\ "again" \notin {"2xx", "4xx"}
    BY DEF Replies
  <2>5. CASE UNCHANGED got
    <3>1. Unheard(w, how)
      BY <2>3, <2>5 DEF Unheard
    <3> QED
      BY <1>2, <2>1, <2>2, <2>3, <3>1, ReturnsShape
  <2>6. CASE Reach(w, "again")
    <3>1. Heard(w, how, "again")
      BY <1>2, <2>3, <2>4, <2>6 DEF Heard
    <3> QED
      BY <1>2, <2>1, <2>2, <2>3, <2>4, <3>1, ReturnsShape
  <2> QED
    BY <2>5, <2>6
<1> QED
  BY <1>3, <1>4

(* Every step of a worker is one of the shapes.                            *)
LEMMA WorkerShapes ==
  ASSUME TypeOK, Working, NEW w \in cfg.workers, WorkerRuns(w) \/ Answered(w),
         UNCHANGED <<cfg, ctx, live, made, pump, dropped, sinks>>
  PROVE  WorkerShape(w)
<1>1. wk \in [cfg.workers -> WorkerStates] /\ wk[w] \in WorkerStates
  BY TypeParts
<1>2. wk[w].tries \in Nat /\ MaxRetry \in Nat
  BY WorkerParts, ResultAssumption
<1>3. CASE WorkerStops(w)
  <2>1. wk' = [wk EXCEPT ![w].at = "done"] /\ wk[w].at = "idle" /\ UNCHANGED <<queue, ends, got>>
    BY <1>3 DEF WorkerStops
  <2>2. /\ wk' \in [cfg.workers -> WorkerStates]
        /\ \A v \in cfg.workers : v # w => wk'[v] = wk[v]
        /\ wk'[w].at = "done" /\ wk'[w].r = wk[w].r /\ wk'[w].todo = wk[w].todo
        /\ wk'[w].tries = wk[w].tries
    BY <1>1, <2>1 DEF WorkerStates
  <2>3. w \notin Busy /\ Busy' = Busy
    BY <2>1, <2>2, BusyAfter DEF Busy
  <2> QED
    BY <2>1, <2>2, <2>3 DEF WorkerShape, Quits, KeepsResult
<1>4. CASE Take(w)
  <2>1. /\ wk[w].at = "idle" /\ queue # <<>> /\ queue' = Tail(queue) /\ UNCHANGED <<ends, got>>
        /\ wk' = [wk EXCEPT ![w] = [Idle EXCEPT !.at = "next", !.r = Head(queue),
                                                !.todo = sinks[Head(queue).s]]]
    BY <1>4 DEF Take
  <2>2. /\ wk' \in [cfg.workers -> WorkerStates]
        /\ \A v \in cfg.workers : v # w => wk'[v] = wk[v]
        /\ wk'[w].at = "next" /\ wk'[w].r = Head(queue) /\ wk'[w].tries = 0
        /\ wk'[w].todo = sinks[Head(queue).s]
    <3>1. Head(queue) \in Results /\ sinks[Head(queue).s] \in Seq(Sinks)
      <4>1. queue \in Seq(Results) /\ sinks \in [Sessions -> Seq(Sinks)]
        BY TypeParts
      <4>2. Head(queue) \in Results
        BY <2>1, <4>1
      <4> QED
        BY <4>1, <4>2, ResultParts
    <3> DEFINE new == [Idle EXCEPT !.at = "next", !.r = Head(queue), !.todo = sinks[Head(queue).s]]
    <3>2. /\ new \in WorkerStates /\ new.at = "next" /\ new.r = Head(queue) /\ new.tries = 0
          /\ new.todo = sinks[Head(queue).s]
      BY <3>1 DEF Idle, WorkerStates
    <3> HIDE DEF new
    <3>3. wk' = [wk EXCEPT ![w] = new]
      BY <2>1 DEF new
    <3> QED
      BY <1>1, <3>2, <3>3
  <2>3. w \notin Busy /\ Busy' = Busy \cup {w}
    BY <2>1, <2>2, BusyAfter DEF Busy
  <2> QED
    BY <2>1, <2>2, <2>3 DEF WorkerShape, Takes
<1>5. CASE Leave(w)
  <2>1. /\ wk[w].at = "next" /\ wk' = [wk EXCEPT ![w] = Idle] /\ UNCHANGED <<queue, ends, got>>
        /\ wk[w].todo = <<>> \/ ctx = "done"
    BY <1>5 DEF Leave
  <2>2. /\ wk' \in [cfg.workers -> WorkerStates]
        /\ \A v \in cfg.workers : v # w => wk'[v] = wk[v]
        /\ wk'[w].at = "idle" /\ wk'[w].tries = 0
    <3>1. Idle \in WorkerStates /\ Idle.at = "idle" /\ Idle.tries = 0
      BY DEF Idle, WorkerStates
    <3> QED
      BY <1>1, <2>1, <3>1
  <2>3. w \in Busy /\ Busy' = Busy \ {w}
    BY <2>1, <2>2, BusyAfter DEF Busy
  <2> QED
    BY <2>1, <2>2, <2>3 DEF WorkerShape, Leaves
<1>6. CASE SendTo(w)
  <2>1. /\ wk[w].at = "next" /\ wk[w].todo # <<>> /\ UNCHANGED <<queue, ends, got>>
        /\ wk' = [wk EXCEPT ![w].at = "post", ![w].tries = 0, ![w].late = FALSE]
    BY <1>6 DEF SendTo
  <2>2. /\ wk' \in [cfg.workers -> WorkerStates]
        /\ \A v \in cfg.workers : v # w => wk'[v] = wk[v]
        /\ wk'[w].at = "post" /\ wk'[w].r = wk[w].r /\ wk'[w].todo = wk[w].todo
        /\ wk'[w].tries = 0
    BY <1>1, <2>1 DEF WorkerStates
  <2>3. w \in Busy /\ Busy' = Busy
    BY <2>1, <2>2, BusyAfter DEF Busy
  <2> QED
    BY <2>1, <2>2, <2>3 DEF WorkerShape, Starts, KeepsResult
<1>7. CASE SendData(w)
  <2>1. Sending(w) /\ Sink(w) # "http" /\ UNCHANGED got
    BY <1>7 DEF SendData, Sending, Busy
  <2>2. "ok" \in Endings /\ "shut" \in Endings
    BY DEF Endings
  <2>3. Unheard(w, "ok") /\ Unheard(w, "shut")
    BY <2>1 DEF Unheard
  <2> QED
    BY <1>7, <2>1, <2>2, <2>3, ReturnsShape DEF SendData
<1>8. CASE TimeIsUp(w)
  <2>1. /\ wk[w].at = "backoff" /\ wk' = [wk EXCEPT ![w].late = TRUE]
        /\ UNCHANGED <<queue, ends, got>>
    BY <1>8 DEF TimeIsUp
  <2>2. /\ wk' \in [cfg.workers -> WorkerStates]
        /\ \A v \in cfg.workers : v # w => wk'[v] = wk[v]
        /\ wk'[w].at = "backoff" /\ wk'[w].r = wk[w].r /\ wk'[w].todo = wk[w].todo
        /\ wk'[w].tries = wk[w].tries
    BY <1>1, <2>1 DEF WorkerStates
  <2>3. Sending(w) /\ Busy' = Busy
    BY <2>1, <2>2, BusyAfter DEF Busy, Sending
  <2> QED
    BY <1>2, <2>1, <2>2, <2>3 DEF WorkerShape, Waits, KeepsResult
<1>9. CASE Resume(w)
  <2>1. /\ wk[w].at = "backoff" /\ wk' = [wk EXCEPT ![w].at = "post"]
        /\ UNCHANGED <<queue, ends, got>>
    BY <1>9 DEF Resume
  <2>2. /\ wk' \in [cfg.workers -> WorkerStates]
        /\ \A v \in cfg.workers : v # w => wk'[v] = wk[v]
        /\ wk'[w].at = "post" /\ wk'[w].r = wk[w].r /\ wk'[w].todo = wk[w].todo
        /\ wk'[w].tries = wk[w].tries
    BY <1>1, <2>1 DEF WorkerStates
  <2>3. Sending(w) /\ Busy' = Busy
    BY <2>1, <2>2, BusyAfter DEF Busy, Sending
  <2> QED
    BY <1>2, <2>1, <2>2, <2>3 DEF WorkerShape, Waits, KeepsResult
<1>10. CASE GivesUp(w)
  <2>1. Sending(w) /\ UNCHANGED got
    BY <1>10 DEF GivesUp, Sending, Busy
  <2>2. "late" \in Endings /\ DeadLetterKept("late") /\ Unheard(w, "late")
    BY <2>1 DEF Endings, DeadLetterKept, Unheard
  <2> QED
    BY <1>10, <2>1, <2>2, ReturnsShape DEF GivesUp
<1>11. CASE Accepted(w)
  <2>1. Sending(w) /\ Sink(w) = "http" /\ Reach(w, "2xx")
    BY <1>11 DEF Accepted, HTTP, Sending, Busy
  <2>2. "ok" \in Endings /\ "2xx" \in Replies /\ DeadLetterKept("ok") /\ Heard(w, "ok", "2xx")
    BY <2>1 DEF Endings, Replies, DeadLetterKept, Heard
  <2> QED
    BY <1>11, <2>1, <2>2, ReturnsShape DEF Accepted
<1>12. CASE Refused(w)
  <2>1. Sending(w) /\ Sink(w) = "http" /\ Reach(w, "4xx")
    BY <1>12 DEF Refused, HTTP, Sending, Busy
  <2>2. /\ "refused" \in Endings /\ "4xx" \in Replies
        /\ DeadLetterKept("refused") /\ Heard(w, "refused", "4xx")
    BY <2>1 DEF Endings, Replies, DeadLetterKept, Heard
  <2> QED
    BY <1>12, <2>1, <2>2, ReturnsShape DEF Refused
<1>13. CASE ServerError(w) \/ NetworkError(w) \/ TimesOut(w)
  <2>1. HTTP(w) /\ (Reach(w, "again") \/ UNCHANGED got) /\ (Fails(w, FALSE) \/ Fails(w, TRUE))
    BY <1>13 DEF ServerError, NetworkError, TimesOut
  <2> QED
    BY <2>1, FailsShape
<1>14. CASE CannotSend(w)
  <2>1. Sending(w) /\ Sink(w) = "http" /\ UNCHANGED got /\ wk[w].tries = 0
    BY <1>14 DEF CannotSend, HTTP, Sending, Busy
  <2>2. "invalid" \in Endings /\ DeadLetterKept("invalid") /\ Unheard(w, "invalid")
    BY <2>1 DEF Endings, DeadLetterKept, Unheard
  <2> QED
    BY <1>14, <2>1, <2>2, ReturnsShape DEF CannotSend
<1> QED
  BY <1>3, <1>4, <1>5, <1>6, <1>7, <1>8, <1>9, <1>10, <1>11, <1>12, <1>13, <1>14
     DEF WorkerRuns, Answered

PumpMoves(s) ==
  /\ PumpShape(s)
  /\ made' \in [Sessions -> Nat] /\ pump' \in [Sessions -> Results \cup {None, Stopped}]
  /\ UNCHANGED <<cfg, ctx, live, sinks, wk, ends, got>>

WorkerMoves(w) ==
  /\ WorkerShape(w)
  /\ UNCHANGED <<cfg, ctx, live, made, pump, dropped, sinks>>

OwnerMoves ==
  /\ (ctx = "done" => ctx' = "done") /\ ctx' \in {"live", "done"} /\ live' \subseteq live
  /\ \A s \in Sessions : sinks'[s] \in {sinks[s], <<>>}
  /\ sinks' \in [Sessions -> Seq(Sinks)]
  /\ UNCHANGED <<cfg, made, pump, queue, dropped, wk, ends, got>>

(* Every step is one of a pump, of a worker or of their owners.            *)
LEMMA Steps ==
  ASSUME TypeOK, Working, [Next]_vars
  PROVE  \/ UNCHANGED vars
         \/ \E s \in Sessions : PumpMoves(s)
         \/ OwnerMoves
         \/ \E w \in cfg.workers : WorkerMoves(w)
<1>1. CASE \E s \in Sessions : PumpStep(s)
  BY <1>1, PumpShapes DEF PumpMoves
<1>2. CASE OwnerStep
  <2>1. ctx \in {"live", "done"} /\ sinks \in [Sessions -> Seq(Sinks)]
    BY TypeParts
  <2>2. UNCHANGED <<cfg, made, pump, queue, dropped, wk, ends, got>>
    BY <1>2 DEF OwnerStep, inputVars
  <2>3. CASE \E s \in Sessions : UnregisterSinks(s)
    <3>1. PICK s \in Sessions : UnregisterSinks(s)
      BY <2>3
    <3>2. sinks' = [sinks EXCEPT ![s] = <<>>] /\ UNCHANGED <<ctx, live>>
      BY <3>1 DEF UnregisterSinks
    <3>3. <<>> \in Seq(Sinks)
      OBVIOUS
    <3> QED
      BY <2>1, <2>2, <3>2, <3>3 DEF OwnerMoves
  <2>4. CASE \E s \in Sessions : SessionCloses(s)
    BY <2>1, <2>2, <2>4 DEF OwnerMoves, SessionCloses
  <2>5. CASE Shutdown
    BY <2>1, <2>2, <2>5 DEF OwnerMoves, Shutdown
  <2> QED
    BY <1>2, <2>3, <2>4, <2>5 DEF OwnerStep
<1>3. CASE WorkerStep(WorkerRuns) \/ WorkerStep(Answered)
  <2>1. PICK w \in cfg.workers : WorkerRuns(w) \/ Answered(w)
    BY <1>3 DEF WorkerStep
  <2>2. UNCHANGED <<cfg, ctx, live, made, pump, dropped, sinks>>
    BY <1>3 DEF WorkerStep
  <2> QED
    BY <2>1, <2>2, WorkerShapes DEF WorkerMoves
<1> QED
  BY <1>1, <1>2, <1>3 DEF Next

(* What a worker's step does to the queue and what is sent, as types.      *)
LEMMA WorkerTyped ==
  ASSUME TypeOK, Working, NEW w \in cfg.workers, WorkerMoves(w)
  PROVE  /\ queue' \in Seq(Results) /\ Len(queue') <= QueueSize
         /\ ends' \subseteq [r : Results, sink : Sinks, how : Endings]
         /\ got' \in [Sessions -> Seq([n : Nat, reply : Replies])]
<1>1. /\ queue \in Seq(Results) /\ Len(queue) <= QueueSize /\ QueueSize \in Nat
      /\ ends \subseteq [r : Results, sink : Sinks, how : Endings]
      /\ got \in [Sessions -> Seq([n : Nat, reply : Replies])]
  BY TypeParts, ResultAssumption
<1>2. ASSUME NEW reply \in Replies, w \in Busy, Reach(w, reply)
      PROVE  got' \in [Sessions -> Seq([n : Nat, reply : Replies])]
  <2>1. wk[w].r.s \in Sessions /\ wk[w].r.n \in Nat
    BY <1>2, BusyParts
  <2>2. [n |-> wk[w].r.n, reply |-> reply] \in [n : Nat, reply : Replies]
    BY <2>1
  <2>3. Append(got[wk[w].r.s], [n |-> wk[w].r.n, reply |-> reply])
          \in Seq([n : Nat, reply : Replies])
    BY <1>1, <2>1, <2>2, AppendProperties
  <2> QED
    BY <1>1, <1>2, <2>1, <2>3 DEF Reach
<1>3. CASE Takes(w)
  <2>1. queue # <<>> /\ queue' = Tail(queue) /\ UNCHANGED <<ends, got>>
    BY <1>3 DEF Takes
  <2>2. Tail(queue) \in Seq(Results) /\ Len(Tail(queue)) <= QueueSize
    BY <1>1, <2>1
  <2> QED
    BY <1>1, <2>1, <2>2
<1>4. CASE Leaves(w) \/ Quits(w) \/ Starts(w) \/ Waits(w)
  BY <1>1, <1>4 DEF Leaves, Quits, Starts, Waits
<1>5. CASE Retries(w)
  <2>1. "again" \in Replies /\ w \in Busy /\ Reach(w, "again") /\ UNCHANGED <<queue, ends>>
    BY <1>5 DEF Retries, Replies, Sending
  <2> QED
    BY <1>1, <1>2, <2>1
<1>6. CASE \E how \in Endings : Returns(w, how)
  <2>1. PICK how \in Endings : Returns(w, how)
    BY <1>6
  <2>2. w \in Busy /\ wk[w].r \in Results /\ wk[w].todo \in Seq(Sinks) /\ wk[w].todo # <<>>
    BY <2>1, BusyParts, WorkerParts DEF Returns, Sending, Working
  <2>3. Sink(w) \in Sinks
    BY <2>2 DEF Sink
  <2>4. [r |-> wk[w].r, sink |-> Sink(w), how |-> how] \in [r : Results, sink : Sinks, how : Endings]
    BY <2>2, <2>3
  <2>5. UNCHANGED queue /\ ends' = ends \cup {[r |-> wk[w].r, sink |-> Sink(w), how |-> how]}
    BY <2>1 DEF Returns
  <2>6. got' \in [Sessions -> Seq([n : Nat, reply : Replies])]
    BY <1>1, <1>2, <2>1, <2>2 DEF Returns, Unheard, Heard
  <2> QED
    BY <1>1, <2>4, <2>5, <2>6
<1> QED
  BY <1>3, <1>4, <1>5, <1>6 DEF WorkerMoves, WorkerShape

(* The same of a pump's step.                                              *)
LEMMA PumpTyped ==
  ASSUME TypeOK, NEW s \in Sessions, PumpMoves(s)
  PROVE  queue' \in Seq(Results) /\ Len(queue') <= QueueSize /\ dropped' \subseteq Results
<1>1. /\ queue \in Seq(Results) /\ Len(queue) <= QueueSize /\ QueueSize \in Nat
      /\ dropped \subseteq Results
  BY TypeParts, ResultAssumption
<1>2. CASE Pushes(s)
  <2>1. pump[s] \in Results /\ Len(queue) < QueueSize /\ queue' = Append(queue, pump[s])
    BY <1>2, PumpParts DEF Pushes
  <2> QED
    BY <1>1, <1>2, <2>1 DEF Pushes
<1>3. CASE Drops(s)
  BY <1>1, <1>3, PumpParts DEF Drops
<1> QED
  BY <1>1, <1>2, <1>3 DEF PumpMoves, PumpShape, Pumps, Ceases

(* The type invariant is inductive.                                        *)
LEMMA StepTyped == TypeOK /\ Working /\ [Next]_vars => TypeOK'
<1> SUFFICES ASSUME TypeOK, Working, [Next]_vars PROVE TypeOK'
  OBVIOUS
<1>1. CASE UNCHANGED vars
  BY <1>1 DEF TypeOK, vars, inputVars
<1>2. CASE \E s \in Sessions : PumpMoves(s)
  BY <1>2, PumpTyped DEF TypeOK, PumpMoves
<1>3. CASE OwnerMoves
  BY <1>3 DEF TypeOK, OwnerMoves
<1>4. CASE \E w \in cfg.workers : WorkerMoves(w)
  <2>1. PICK w \in cfg.workers : WorkerMoves(w)
    BY <1>4
  <2>2. wk' \in [cfg'.workers -> WorkerStates] /\ UNCHANGED <<cfg, ctx, live, made, pump, dropped, sinks>>
    BY <2>1 DEF WorkerMoves, WorkerShape
  <2> QED
    BY <2>1, <2>2, WorkerTyped DEF TypeOK
<1> QED
  BY <1>1, <1>2, <1>3, <1>4, Steps

(* What a worker works on stays what it can work on.                       *)
LEMMA StepWorking == TypeOK /\ Working /\ [Next]_vars => Working'
<1> SUFFICES ASSUME TypeOK, Working, [Next]_vars PROVE Working'
  OBVIOUS
<1>1. CASE UNCHANGED <<cfg, wk>>
  BY <1>1 DEF Working, Busy
<1>2. CASE \E w \in cfg.workers : WorkerMoves(w)
  <2>1. PICK w \in cfg.workers : WorkerMoves(w)
    BY <1>2
  <2>2. UNCHANGED cfg /\ \A v \in cfg.workers : v # w => wk'[v] = wk[v]
    BY <2>1 DEF WorkerMoves, WorkerShape
  <2>3. Busy' \subseteq cfg.workers /\ \A v \in cfg.workers : v # w => (v \in Busy' <=> v \in Busy)
    BY <2>2 DEF Busy
  <2>4. /\ w \in Busy => wk[w].r # None
        /\ wk[w].at \in {"post", "backoff"} => wk[w].todo # <<>>
        /\ wk[w].at = "backoff" => Head(wk[w].todo) = "http"
        /\ wk[w].tries <= MaxRetry /\ wk[w].tries \in Nat /\ MaxRetry \in Nat
    BY WorkerParts, ResultAssumption DEF Working
  <2>5. /\ w \in Busy' => wk'[w].r # None
        /\ wk'[w].at \in {"post", "backoff"} => wk'[w].todo # <<>>
        /\ wk'[w].at = "backoff" => Head(wk'[w].todo) = "http"
        /\ wk'[w].tries <= MaxRetry
    <3>1. CASE Takes(w)
      <4>1. Head(queue) # None
        <5>1. queue \in Seq(Results) /\ queue # <<>>
          BY <3>1, TypeParts DEF Takes
        <5> QED
          BY <5>1, ResultAssumption
      <4> QED
        BY <2>4, <3>1, <4>1 DEF Takes
    <3>2. CASE Leaves(w)
      BY <2>4, <3>2 DEF Leaves
    <3>3. CASE Quits(w)
      BY <2>4, <3>3 DEF Quits, KeepsResult
    <3>4. CASE Starts(w)
      BY <2>4, <3>4 DEF Starts, KeepsResult
    <3>5. CASE Waits(w)
      <4>1. wk[w].at \in {"post", "backoff"}
        BY <3>5 DEF Waits, Sending
      <4> QED
        BY <2>4, <3>5, <4>1 DEF Waits, KeepsResult, Sending, Sink
    <3>6. CASE Retries(w)
      BY <2>4, <3>6 DEF Retries, KeepsResult, Sending, Sink
    <3>7. CASE \E how \in Endings : Returns(w, how)
      BY <2>4, <3>7 DEF Returns, Sending
    <3> QED
      BY <2>1, <3>1, <3>2, <3>3, <3>4, <3>5, <3>6, <3>7 DEF WorkerMoves, WorkerShape
  <2> QED
    BY <2>2, <2>3, <2>5 DEF Working
<1> QED
  BY <1>1, <1>2, Steps DEF vars, PumpMoves, OwnerMoves

-----------------------------------------------------------------------------
(* Numbers of results.                                                     *)

(* What is older than the result of its pump stays so.                     *)
LEMMA PassedStays ==
  ASSUME TypeOK, NEW s \in Sessions, PumpMoves(s), NEW r \in Results, Passed(r)
  PROVE  Passed(r)'
<1>1. made \in [Sessions -> Nat] /\ r.s \in Sessions /\ r.n \in Nat
  BY TypeParts, ResultParts
<1>2. \A t \in Sessions : t # s => pump'[t] = pump[t] /\ made'[t] = made[t]
  BY DEF PumpMoves, PumpShape
<1>3. CASE r.s # s
  BY <1>1, <1>2, <1>3 DEF Passed, Holds
<1>4. CASE r.s = s
  <2>1. \/ made'[s] = made[s] + 1
        \/ made'[s] = made[s] /\ pump'[s] \in {None, Stopped}
    BY DEF PumpMoves, PumpShape, Pumps, Ceases, Pushes, Drops
  <2>2. made[s] \in Nat
    BY <1>1
  <2> QED
    BY <1>1, <1>4, <2>1, <2>2 DEF Passed, Holds
<1> QED
  BY <1>3, <1>4

(* What the pump held is older than what it will hold.                     *)
LEMMA PassedNow ==
  ASSUME TypeOK, Numbered, NEW s \in Sessions, PumpMoves(s), Pushes(s) \/ Drops(s)
  PROVE  \A r : r = pump[s] => Passed(r)'
<1>1. made \in [Sessions -> Nat] /\ made'[s] = made[s] /\ pump'[s] = None
  BY TypeParts DEF Pushes, Drops
<1>2. pump[s].s = s /\ pump[s].n = made[s]
  BY DEF Numbered, Pushes, Drops
<1> QED
  BY <1>1, <1>2 DEF Passed, Holds

(* The places as sets: all results behind the pumps.                       *)
LEMMA PlacesTyped ==
  ASSUME TypeOK, Working
  PROVE  /\ \A i \in DOMAIN queue : queue[i] \in Results
         /\ \A w \in Busy : wk[w].r \in Results
         /\ \A r \in dropped : r \in Results
         /\ \A e \in ends : e.r \in Results /\ e.sink \in Sinks /\ e.how \in Endings
<1>1. \A i \in DOMAIN queue : queue[i] \in Results
  BY TypeParts
<1>2. \A w \in Busy : wk[w].r \in Results
  BY BusyParts
<1> QED
  BY <1>1, <1>2, TypeParts

(* A step of a worker moves results: each it has then it had, or took from *)
(* the queue; each end is of one it has.                                   *)
LEMMA WorkerKeeps ==
  ASSUME TypeOK, Working, NEW w \in cfg.workers, WorkerMoves(w)
  PROVE  \/ /\ w \notin Busy /\ Busy' = Busy \cup {w}
            /\ queue # <<>> /\ queue' = Tail(queue) /\ wk'[w].r = Head(queue)
            /\ \A v \in Busy : wk'[v] = wk[v] /\ v # w
            /\ ends' = ends
         \/ /\ queue' = queue /\ Busy' \subseteq Busy
            /\ \A v \in Busy' : wk'[v].r = wk[v].r
            /\ \A e \in ends' : e \in ends \/ (w \in Busy' /\ e.r = wk[w].r)
            /\ ends \subseteq ends'
<1>1. Busy \subseteq cfg.workers /\ \A v \in cfg.workers : v # w => wk'[v] = wk[v]
  BY DEF Busy, WorkerMoves, WorkerShape
<1>2. CASE Takes(w)
  BY <1>1, <1>2 DEF Takes
<1>3. CASE Leaves(w)
  BY <1>1, <1>3 DEF Leaves
<1>4. CASE Quits(w) \/ Starts(w) \/ Waits(w) \/ Retries(w)
  BY <1>1, <1>4 DEF Quits, Starts, Waits, Retries, KeepsResult
<1>5. CASE \E how \in Endings : Returns(w, how)
  BY <1>1, <1>5 DEF Returns, Sending
<1> QED
  BY <1>2, <1>3, <1>4, <1>5 DEF WorkerMoves, WorkerShape

(* The queue without its head.                                             *)
LEMMA TailOfQueue ==
  ASSUME TypeOK, queue # <<>>
  PROVE  /\ 1 \in DOMAIN queue /\ Head(queue) = queue[1]
         /\ \A i \in DOMAIN Tail(queue) : /\ i \in Nat /\ i + 1 \in DOMAIN queue
                                          /\ Tail(queue)[i] = queue[i + 1]
<1>1. queue \in Seq(Results)
  BY TypeParts
<1> QED
  BY <1>1

(* The queue with one more result at its end.                              *)
LEMMA MoreInQueue ==
  ASSUME TypeOK, NEW r \in Results
  PROVE  \A i \in DOMAIN Append(queue, r) :
           \/ i \in DOMAIN queue /\ Append(queue, r)[i] = queue[i]
           \/ i = Len(queue) + 1 /\ Append(queue, r)[i] = r /\ \A j \in DOMAIN queue : j < i
<1>1. queue \in Seq(Results)
  BY TypeParts
<1> QED
  BY <1>1

(* Numbers are inductive.                                                  *)
LEMMA StepNumbered == TypeOK /\ Working /\ Numbered /\ [Next]_vars => Numbered'
<1> SUFFICES ASSUME TypeOK, Working, Numbered, [Next]_vars PROVE Numbered'
  OBVIOUS
<1>1. CASE UNCHANGED <<cfg, made, pump, queue, dropped, wk, ends>>
  BY <1>1 DEF Numbered, Passed, Holds, Busy
<1>2. CASE \E s \in Sessions : PumpMoves(s)
  <2>1. PICK s \in Sessions : PumpMoves(s)
    BY <1>2
  <2>2. UNCHANGED <<wk, ends>> /\ Busy' = Busy
    BY <2>1 DEF PumpMoves, Busy
  <2>3. \A t \in Sessions : Holds(t)' => pump'[t].s = t /\ pump'[t].n = made'[t]
    BY <2>1 DEF PumpMoves, PumpShape, Pumps, Ceases, Pushes, Drops, Numbered, Holds
  <2>4. \A r \in Results : Passed(r) => Passed(r)'
    BY <2>1, PassedStays
  <2>5. \A i \in DOMAIN queue' : Passed(queue[i])'
    <3>1. CASE Pushes(s)
      <4>1. pump[s] \in Results /\ queue' = Append(queue, pump[s])
        BY <3>1, PumpParts DEF Pushes
      <4>2. PICK r \in Results : r = pump[s]
        BY <4>1
      <4>3. Passed(r)'
        BY <2>1, <3>1, <4>2, PassedNow
      <4>4. ASSUME NEW i \in DOMAIN queue' PROVE Passed(queue[i])'
        <5>1. PICK q : q = queue'[i]
          OBVIOUS
        <5>2. q = r \/ \E j \in DOMAIN queue : q = queue[j]
          BY <4>1, <4>2, <4>4, <5>1, MoreInQueue
        <5>3. Passed(q)'
          BY <2>4, <4>3, <5>2, PlacesTyped DEF Numbered
        <5> QED
          BY <5>1, <5>3 DEF Passed, Holds
      <4> QED
        BY <4>4
    <3>2. CASE queue' = queue
      <4>1. ASSUME NEW i \in DOMAIN queue' PROVE Passed(queue[i])'
        <5>1. PICK q : q = queue[i]
          OBVIOUS
        <5>2. Passed(q)'
          BY <2>4, <3>2, <4>1, <5>1, PlacesTyped DEF Numbered
        <5> QED
          BY <3>2, <5>1, <5>2 DEF Passed, Holds
      <4> QED
        BY <4>1
    <3> QED
      BY <2>1, <3>1, <3>2 DEF PumpMoves, PumpShape, Pumps, Ceases, Drops
  <2>6. \A w \in Busy' : Passed(wk[w].r)'
    <3>1. ASSUME NEW w \in Busy PROVE Passed(wk[w].r)'
      <4>1. PICK q : q = wk[w].r
        OBVIOUS
      <4>2. Passed(q)'
        BY <2>4, <4>1, PlacesTyped DEF Numbered
      <4> QED
        BY <2>2, <4>1, <4>2 DEF Passed, Holds
    <3> QED
      BY <2>2, <3>1
  <2>7. \A r \in dropped' : Passed(r)'
    <3>1. \A r \in dropped : Passed(r)'
      BY <2>4, PlacesTyped DEF Numbered
    <3>2. Drops(s) => dropped' = dropped \cup {pump[s]}
      BY DEF Drops
    <3>3. ~Drops(s) => dropped' = dropped
      BY <2>1 DEF PumpMoves, PumpShape, Pumps, Ceases, Pushes
    <3> QED
      BY <2>1, <3>1, <3>2, <3>3, PassedNow
  <2>8. \A e \in ends' : Passed(e.r)'
    <3>1. ASSUME NEW e \in ends PROVE Passed(e.r)'
      BY <2>4, <3>1, PlacesTyped DEF Numbered
    <3> QED
      BY <2>2, <3>1
  <2> QED
    BY <2>3, <2>5, <2>6, <2>7, <2>8 DEF Numbered
<1>3. CASE \E w \in cfg.workers : WorkerMoves(w)
  <2>1. PICK w \in cfg.workers : WorkerMoves(w)
    BY <1>3
  <2>2. UNCHANGED <<made, pump, dropped>>
    BY <2>1 DEF WorkerMoves
  <2>3. CASE /\ Busy' = Busy \cup {w} /\ queue # <<>> /\ queue' = Tail(queue)
             /\ wk'[w].r = Head(queue)
             /\ \A v \in Busy : wk'[v] = wk[v] /\ v # w
             /\ ends' = ends
    BY <2>2, <2>3, TailOfQueue DEF Numbered, Passed, Holds
  <2>4. CASE /\ queue' = queue /\ Busy' \subseteq Busy
             /\ \A v \in Busy' : wk'[v].r = wk[v].r
             /\ \A e \in ends' : e \in ends \/ (w \in Busy' /\ e.r = wk[w].r)
    BY <2>2, <2>4 DEF Numbered, Passed, Holds
  <2> QED
    BY <2>1, <2>3, <2>4, WorkerKeeps
<1> QED
  BY <1>1, <1>2, <1>3, Steps DEF vars, inputVars, OwnerMoves

-----------------------------------------------------------------------------
(* No result at two places.                                                *)

(* What the pump of a session holds is newer than all that is behind it.   *)
LEMMA HeldIsNewest ==
  ASSUME TypeOK, Numbered, NEW s \in Sessions, Holds(s), NEW r \in Results, Passed(r)
  PROVE  ~Same(r, pump[s]) /\ ~Same(pump[s], r) /\ (r.s = pump[s].s => r.n < pump[s].n)
<1>1. pump[s].s = s /\ pump[s].n = made[s] /\ made[s] \in Nat /\ r.n \in Nat
  BY TypeParts, ResultParts DEF Numbered
<1> QED
  BY <1>1 DEF Same, Passed

(* Places stay apart when a pump pushes.                                   *)
LEMMA PushedApart ==
  ASSUME TypeOK, Working, Numbered, Apart, NEW s \in Sessions, Pushes(s),
         Busy' = Busy, UNCHANGED <<wk, ends>>
  PROVE  Apart'
<1>1. Holds(s) /\ pump[s] \in Results /\ queue' = Append(queue, pump[s]) /\ dropped' = dropped
  BY PumpParts DEF Pushes
<1>2. PICK p : p = pump[s]
  OBVIOUS
<1>3. \A r \in Results : Passed(r) => ~Same(r, p) /\ ~Same(p, r) /\ (r.s = p.s => r.n < p.n)
  BY <1>1, <1>2, HeldIsNewest
<1>4. \A i \in DOMAIN queue' :
        \/ i \in DOMAIN queue /\ queue'[i] = queue[i]
        \/ i = Len(queue) + 1 /\ queue'[i] = p /\ \A j \in DOMAIN queue : j < i
  BY <1>1, <1>2, MoreInQueue
<1>5. /\ \A i \in DOMAIN queue : ~Same(queue[i], p) /\ (queue[i].s = p.s => queue[i].n < p.n)
      /\ \A w \in Busy : ~Same(wk[w].r, p)
      /\ \A r \in dropped : ~Same(r, p)
      /\ \A e \in ends : ~Same(e.r, p)
  BY <1>3, PlacesTyped DEF Numbered
<1>6. Len(queue) \in Nat /\ \A j \in DOMAIN queue : j \in Nat /\ j <= Len(queue)
  BY TypeParts
<1>7. ASSUME NEW i \in DOMAIN queue', NEW j \in DOMAIN queue',
             i < j, queue'[i].s = queue'[j].s
      PROVE  queue'[i].n < queue'[j].n
  <2>1. CASE j \in DOMAIN queue /\ queue'[j] = queue[j]
    <3>1. i \in DOMAIN queue /\ queue'[i] = queue[i]
      BY <1>4, <1>6, <1>7, <2>1
    <3> QED
      BY <1>7, <2>1, <3>1 DEF Apart
  <2>2. CASE j = Len(queue) + 1 /\ queue'[j] = p
    <3>1. i \in DOMAIN queue /\ queue'[i] = queue[i]
      BY <1>4, <1>6, <1>7, <2>2
    <3> QED
      BY <1>5, <1>7, <2>2, <3>1
  <2> QED
    BY <1>4, <2>1, <2>2
<1>8. \A i \in DOMAIN queue' : /\ \A w \in Busy' : ~Same(wk'[w].r, queue'[i])
                               /\ \A r \in dropped' : ~Same(r, queue'[i])
                               /\ \A e \in ends' : ~Same(e.r, queue'[i])
  BY <1>1, <1>4, <1>5 DEF Apart
<1> QED
  BY <1>1, <1>7, <1>8 DEF Apart, Same

(* Places stay apart when a worker takes the head of the queue.            *)
LEMMA TakenApart ==
  ASSUME TypeOK, Working, Apart, NEW w \in cfg.workers, w \notin Busy,
         Busy' = Busy \cup {w}, queue # <<>>, queue' = Tail(queue), wk'[w].r = Head(queue),
         \A v \in Busy : wk'[v] = wk[v] /\ v # w,
         UNCHANGED <<dropped, ends>>
  PROVE  Apart'
<1>1. /\ 1 \in DOMAIN queue /\ wk'[w].r = queue[1]
      /\ \A i \in DOMAIN queue' : i \in Nat /\ i + 1 \in DOMAIN queue /\ queue'[i] = queue[i + 1]
      /\ \A i \in DOMAIN queue' : 1 < i + 1
  <2>1. queue \in Seq(Results)
    BY TypeParts
  <2> QED
    BY <2>1, TailOfQueue
<1>2. \A i \in DOMAIN queue : queue[i] \in Results /\ queue[i].n \in Nat
  BY PlacesTyped, ResultParts
<1>3. \A i, j \in DOMAIN queue' : i < j /\ queue'[i].s = queue'[j].s => queue'[i].n < queue'[j].n
  <2>1. \A i, j \in DOMAIN queue' : i < j => i + 1 < j + 1
    BY <1>1
  <2> QED
    BY <1>1, <2>1 DEF Apart
<1>4. \A i \in DOMAIN queue' : ~Same(queue[1], queue'[i])
  BY <1>1, <1>2 DEF Apart, Same
<1>5. \A i \in DOMAIN queue' : /\ \A v \in Busy' : ~Same(wk'[v].r, queue'[i])
                               /\ \A r \in dropped' : ~Same(r, queue'[i])
                               /\ \A e \in ends' : ~Same(e.r, queue'[i])
  BY <1>1, <1>4 DEF Apart
<1>6. \A v \in Busy' : /\ \A u \in Busy' : Same(wk'[u].r, wk'[v].r) => u = v
                       /\ \A r \in dropped' : ~Same(r, wk'[v].r)
                       /\ \A e \in ends' : Same(e.r, wk'[v].r) => e.r = wk'[v].r
  BY <1>1 DEF Apart, Same
<1> QED
  BY <1>3, <1>5, <1>6 DEF Apart, Same

(* That places are apart is inductive.                                     *)
LEMMA StepApart == TypeOK /\ Working /\ Numbered /\ Apart /\ [Next]_vars => Apart'
<1> SUFFICES ASSUME TypeOK, Working, Numbered, Apart, [Next]_vars PROVE Apart'
  OBVIOUS
<1>1. CASE UNCHANGED <<cfg, queue, dropped, wk, ends>>
  BY <1>1 DEF Apart, Same, Busy
<1>2. CASE \E s \in Sessions : PumpMoves(s)
  <2>1. PICK s \in Sessions : PumpMoves(s)
    BY <1>2
  <2>2. UNCHANGED <<wk, ends>> /\ Busy' = Busy
    BY <2>1 DEF PumpMoves, Busy
  <2>3. CASE Pushes(s)
    BY <2>2, <2>3, PushedApart
  <2>4. CASE Drops(s)
    <3>1. Holds(s) /\ dropped' = dropped \cup {pump[s]} /\ queue' = queue
      BY <2>4 DEF Drops
    <3>2. /\ \A i \in DOMAIN queue : ~Same(pump[s], queue[i])
          /\ \A w \in Busy : ~Same(pump[s], wk[w].r)
          /\ \A e \in ends : ~Same(pump[s], e.r)
      BY <3>1, HeldIsNewest, PlacesTyped DEF Numbered
    <3> QED
      BY <2>2, <3>1, <3>2 DEF Apart, Same
  <2>5. CASE UNCHANGED <<queue, dropped>>
    BY <2>2, <2>5 DEF Apart, Same
  <2> QED
    BY <2>1, <2>3, <2>4, <2>5 DEF PumpMoves, PumpShape, Pumps, Ceases
<1>3. CASE \E w \in cfg.workers : WorkerMoves(w)
  <2>1. PICK w \in cfg.workers : WorkerMoves(w)
    BY <1>3
  <2>2. UNCHANGED dropped
    BY <2>1 DEF WorkerMoves
  <2>3. CASE /\ queue' = queue /\ Busy' \subseteq Busy
             /\ \A v \in Busy' : wk'[v].r = wk[v].r
             /\ \A e \in ends' : e \in ends \/ (w \in Busy' /\ e.r = wk[w].r)
    BY <2>2, <2>3 DEF Apart, Same
  <2> QED
    BY <2>1, <2>2, <2>3, WorkerKeeps, TakenApart
<1> QED
  BY <1>1, <1>2, <1>3, Steps DEF vars, inputVars, OwnerMoves

(* What may be dropped, and that it is finitely much.                      *)
LEMMA StepDropped ==
  TypeOK /\ Working /\ Numbered /\ OnlyPartialsDropped /\ IsFiniteSet(dropped) /\ [Next]_vars
    => OnlyPartialsDropped' /\ IsFiniteSet(dropped)'
<1> SUFFICES ASSUME TypeOK, Working, Numbered, OnlyPartialsDropped, IsFiniteSet(dropped), [Next]_vars
             PROVE  OnlyPartialsDropped' /\ IsFiniteSet(dropped')
  OBVIOUS
<1>1. CASE UNCHANGED <<cfg, dropped>> /\ live' \subseteq live
  BY <1>1 DEF OnlyPartialsDropped
<1>2. CASE \E s \in Sessions : PumpMoves(s)
  <2>1. PICK s \in Sessions : PumpMoves(s)
    BY <1>2
  <2>2. UNCHANGED <<cfg, live>>
    BY <2>1 DEF PumpMoves
  <2>3. CASE Drops(s)
    <3>1. /\ dropped' = dropped \cup {pump[s]} /\ pump[s].s = s
          /\ s \in live => cfg.dropPartial /\ ~pump[s].final
      BY <2>3 DEF Drops, Numbered
    <3> QED
      BY <2>2, <3>1, FS_AddElement DEF OnlyPartialsDropped
  <2>4. CASE UNCHANGED dropped
    BY <2>2, <2>4 DEF OnlyPartialsDropped
  <2> QED
    BY <2>1, <2>3, <2>4 DEF PumpMoves, PumpShape, Pumps, Ceases, Pushes
<1>3. CASE \E w \in cfg.workers : WorkerMoves(w)
  BY <1>3 DEF WorkerMoves, OnlyPartialsDropped
<1> QED
  BY <1>1, <1>2, <1>3, Steps DEF vars, inputVars, OwnerMoves

-----------------------------------------------------------------------------
(* Sends and the list of sinks.                                            *)

EndedThen(r, k) == \E e \in ends' : e.r = r /\ e.sink = k

(* How far a worker is along the list depends on its own result only.      *)
LEMMA AlongStays ==
  ASSUME NEW w \in cfg.workers, Along(w), cfg' = cfg,
         wk'[w].r = wk[w].r, wk'[w].todo = wk[w].todo,
         \A k : EndedThen(wk[w].r, k) <=> Ended(wk[w].r, k)
  PROVE  Along(w)'
<1>1. \A k : EndedThen(wk'[w].r, k) <=> Ended(wk[w].r, k)
  OBVIOUS
<1> QED
  BY <1>1 DEF Along, AlongBy, Ended, EndedThen

(* A worker that has just taken a result has all of the list to do.        *)
LEMMA AlongStarts ==
  ASSUME TypeOK, NEW w \in cfg.workers, cfg' = cfg,
         wk'[w].todo = cfg.sinks, \A e \in ends' : e.r # wk'[w].r
  PROVE  Along(w)'
<1>1. cfg.sinks \in Seq(Sinks) /\ Len(cfg.sinks) \in Nat
  BY TypeParts
<1>2. \A i \in DOMAIN cfg.sinks : i \in Nat /\ ~(i <= 0) /\ 0 + i = i
  BY <1>1
<1>3. Len(cfg.sinks) - Len(cfg.sinks) = 0
  BY <1>1
<1> QED
  BY <1>2, <1>3 DEF Along, AlongBy, Ended

(* The next sink of a worker's list.                                       *)
LEMMA NextSink ==
  ASSUME TypeOK, NEW w \in cfg.workers, Along(w), wk[w].todo # <<>>
  PROVE  \E k \in Nat :
           /\ AlongBy(w, k)
           /\ k + 1 \in DOMAIN cfg.sinks /\ Sink(w) = cfg.sinks[k + 1]
           /\ ~Ended(wk[w].r, Sink(w))
<1>1. /\ cfg.sinks \in Seq(Sinks) /\ wk[w].todo \in Seq(Sinks)
      /\ DOMAIN cfg.sinks = 1..Len(cfg.sinks)
  BY TypeParts, WorkerParts
<1>2. PICK n \in Nat : n = Len(cfg.sinks)
  BY <1>1
<1>3. PICK m \in Nat : m = Len(wk[w].todo)
  BY <1>1
<1>4. m > 0 /\ 1 \in DOMAIN wk[w].todo /\ Sink(w) = wk[w].todo[1]
  BY <1>1, <1>3 DEF Sink
<1>5. PICK k \in Nat : AlongBy(w, k)
  BY DEF Along
<1>6. Sink(w) = cfg.sinks[k + 1]
  BY <1>4, <1>5 DEF AlongBy
<1>7. k = n - m
  BY <1>2, <1>3, <1>5 DEF AlongBy
<1>8. k + 1 \in 1..n /\ ~(k + 1 <= k)
  BY <1>4, <1>7
<1>9. Ended(wk[w].r, cfg.sinks[k + 1]) <=> k + 1 <= k
  <2>1. \A i \in DOMAIN cfg.sinks : Ended(wk[w].r, cfg.sinks[i]) <=> i <= k
    BY <1>5 DEF AlongBy
  <2>2. k + 1 \in DOMAIN cfg.sinks
    BY <1>1, <1>2, <1>8
  <2> QED
    BY <2>1, <2>2
<1> QED
  BY <1>1, <1>2, <1>5, <1>6, <1>8, <1>9

(* A worker whose Send has returned is one sink further.                   *)
LEMMA AlongAdvances ==
  ASSUME TypeOK, NEW w \in cfg.workers, Along(w), wk[w].todo # <<>>, cfg' = cfg,
         wk'[w].r = wk[w].r, wk'[w].todo = Tail(wk[w].todo),
         \A k : EndedThen(wk[w].r, k) <=> Ended(wk[w].r, k) \/ k = Sink(w)
  PROVE  Along(w)'
<1>1. /\ cfg.sinks \in Seq(Sinks) /\ wk[w].todo \in Seq(Sinks)
      /\ \A i, j \in DOMAIN cfg.sinks : cfg.sinks[i] = cfg.sinks[j] => i = j
      /\ \A i \in DOMAIN cfg.sinks : i \in Nat
  BY TypeParts, WorkerParts
<1>2. PICK k \in Nat : /\ AlongBy(w, k)
                       /\ k + 1 \in DOMAIN cfg.sinks /\ Sink(w) = cfg.sinks[k + 1]
  BY NextSink
<1>3. PICK todo \in Seq(Sinks) : todo = Tail(wk[w].todo)
  <2>1. Tail(wk[w].todo) \in Seq(Sinks)
    BY <1>1
  <2> QED
    BY <2>1
<1>4. /\ Len(todo) = Len(wk[w].todo) - 1 /\ Len(wk[w].todo) \in Nat
      /\ \A i \in DOMAIN todo : /\ i \in Nat /\ i + 1 \in DOMAIN wk[w].todo
                                /\ todo[i] = wk[w].todo[i + 1]
  BY <1>1, <1>3
<1>5. Len(cfg.sinks) - Len(todo) = k + 1
  <2>1. PICK n \in Nat : n = Len(cfg.sinks)
    BY <1>1
  <2>2. PICK m \in Nat : m = Len(wk[w].todo)
    BY <1>1
  <2>3. k = n - m /\ Len(todo) = m - 1
    BY <1>2, <1>4, <2>1, <2>2 DEF AlongBy
  <2>4. n - (m - 1) = k + 1
    BY <2>3
  <2> QED
    BY <2>1, <2>3, <2>4
<1>6. \A i \in DOMAIN todo : todo[i] = cfg.sinks[(k + 1) + i]
  <2>1. \A i \in DOMAIN todo : todo[i] = cfg.sinks[k + (i + 1)]
    BY <1>2, <1>4 DEF AlongBy
  <2>2. \A i \in DOMAIN todo : k + (i + 1) = (k + 1) + i
    BY <1>4
  <2> QED
    BY <2>1, <2>2
<1>7. ASSUME NEW i \in DOMAIN cfg.sinks
      PROVE  EndedThen(wk[w].r, cfg.sinks[i]) <=> i <= k + 1
  <2>1. Ended(wk[w].r, cfg.sinks[i]) <=> i <= k
    BY <1>2 DEF AlongBy
  <2>2. cfg.sinks[i] = Sink(w) <=> i = k + 1
    BY <1>1, <1>2
  <2>3. i \in Nat
    BY <1>1
  <2>4. EndedThen(wk[w].r, cfg.sinks[i]) <=> Ended(wk[w].r, cfg.sinks[i]) \/ cfg.sinks[i] = Sink(w)
    OBVIOUS
  <2>5. i <= k + 1 <=> i <= k \/ i = k + 1
    BY <2>3
  <2> QED
    BY <2>1, <2>2, <2>4, <2>5
<1>8. wk'[w].todo = todo /\ cfg'.sinks = cfg.sinks /\ k + 1 \in Nat
  BY <1>3
<1>9. \A i \in DOMAIN cfg.sinks :
        (\E e \in ends' : e.r = wk'[w].r /\ e.sink = cfg.sinks[i]) <=> i <= k + 1
  BY <1>7 DEF EndedThen
<1>10. AlongBy(w, k + 1)'
  BY <1>5, <1>6, <1>8, <1>9 DEF AlongBy, Ended
<1> QED
  BY <1>8, <1>10 DEF Along

(* What a worker has of its list when its result has no ends, or some.     *)
OnItsWay(w) == (wk[w].todo = <<>> /\ \A e \in ends : e.r # wk[w].r) \/ Along(w)

(* The list of a worker that a step does not move.                         *)
LEMMA OnItsWayStays ==
  ASSUME NEW w \in cfg.workers, OnItsWay(w), cfg' = cfg,
         wk'[w].r = wk[w].r, wk'[w].todo = wk[w].todo,
         \A k : EndedThen(wk[w].r, k) <=> Ended(wk[w].r, k),
         \A e \in ends' : e.r = wk[w].r => e \in ends
  PROVE  OnItsWay(w)'
<1>1. CASE wk[w].todo = <<>> /\ \A e \in ends : e.r # wk[w].r
  BY <1>1 DEF OnItsWay
<1>2. CASE Along(w)
  BY <1>2, AlongStays DEF OnItsWay
<1> QED
  BY <1>1, <1>2 DEF OnItsWay

(* All that a result's ends say once no worker is busy with it.            *)
Settled ==
  \A e \in ends :
    (ctx = "live" /\ \A w \in Busy : wk[w].r # e.r) =>
      \A i \in DOMAIN cfg.sinks : Ended(e.r, cfg.sinks[i])

(* Listed, in those parts.                                                 *)
LEMMA ListedParts ==
  Listed <=> /\ \A s \in Sessions : sinks[s] \in {cfg.sinks, <<>>}
             /\ \A w \in Busy : OnItsWay(w)
             /\ \A e \in ends : \E i \in DOMAIN cfg.sinks : e.sink = cfg.sinks[i]
             /\ Settled /\ EndsOnce
BY DEF Listed, OnItsWay, Settled

(* The same of the next state.                                             *)
LEMMA ListedPartsNext ==
  ASSUME /\ \A s \in Sessions : sinks'[s] \in {cfg'.sinks, <<>>}
         /\ \A w \in Busy' : OnItsWay(w)'
         /\ \A e \in ends' : \E i \in DOMAIN cfg'.sinks : e.sink = cfg'.sinks[i]
         /\ Settled' /\ EndsOnce'
  PROVE  Listed'
BY DEF Listed, OnItsWay, Settled

(* A worker takes a result, of which no Send has ended.                    *)
LEMMA ListedTakes ==
  ASSUME TypeOK, Working, Apart, Listed, NEW w \in cfg.workers, WorkerMoves(w), Takes(w)
  PROVE  Listed'
<1>1. /\ UNCHANGED <<cfg, ctx, sinks>> /\ ends' = ends /\ w \notin Busy /\ Busy' = Busy \cup {w}
      /\ queue # <<>> /\ wk'[w].r = Head(queue) /\ wk'[w].todo = sinks[Head(queue).s]
      /\ \A v \in Busy : v \in cfg.workers /\ wk'[v] = wk[v]
  BY DEF Takes, WorkerMoves, WorkerShape, Busy
<1>2. 1 \in DOMAIN queue /\ wk'[w].r = queue[1] /\ queue[1] \in Results /\ queue[1].s \in Sessions
  BY <1>1, TailOfQueue, PlacesTyped, ResultParts
<1>3. \A e \in ends' : e.r # wk'[w].r
  BY <1>1, <1>2 DEF Apart, Same
<1>4. OnItsWay(w)'
  <2>1. wk'[w].todo = <<>> \/ wk'[w].todo = cfg.sinks
    BY <1>1, <1>2 DEF Listed
  <2>2. CASE wk'[w].todo = <<>>
    BY <1>3, <2>2 DEF OnItsWay
  <2>3. CASE wk'[w].todo = cfg.sinks
    BY <1>1, <1>3, <2>3, AlongStarts DEF OnItsWay
  <2> QED
    BY <2>1, <2>2, <2>3
<1>5. ASSUME NEW v \in Busy PROVE OnItsWay(v)'
  <2>1. OnItsWay(v)
    BY ListedParts
  <2>2. \A k : EndedThen(wk[v].r, k) <=> Ended(wk[v].r, k)
    BY <1>1 DEF Ended, EndedThen
  <2> QED
    BY <1>1, <2>1, <2>2, OnItsWayStays
<1>6. Settled'
  <2>1. \A e \in ends : (\A v \in Busy' : wk'[v].r # e.r) => \A v \in Busy : wk[v].r # e.r
    BY <1>1
  <2> QED
    BY <1>1, <2>1, ListedParts DEF Settled, Ended
<1>7. EndsOnce'
  BY <1>1 DEF Listed, EndsOnce, DeadLetterKept
<1> QED
  BY <1>1, <1>4, <1>5, <1>6, <1>7, ListedPartsNext DEF Listed

(* A worker leaves a result when the list is done.                         *)
LEMMA ListedLeaves ==
  ASSUME TypeOK, Working, Listed, NEW w \in cfg.workers, WorkerMoves(w), Leaves(w)
  PROVE  Listed'
<1>1. /\ UNCHANGED <<cfg, ctx, sinks>> /\ ends' = ends /\ w \in Busy /\ Busy' = Busy \ {w}
      /\ wk[w].todo = <<>> \/ ctx = "done"
      /\ \A v \in Busy' : v \in cfg.workers /\ wk'[v] = wk[v]
  BY DEF Leaves, WorkerMoves, WorkerShape, Busy
<1>2. ASSUME NEW v \in Busy' PROVE OnItsWay(v)'
  <2>1. OnItsWay(v)
    BY <1>1, ListedParts
  <2>2. \A k : EndedThen(wk[v].r, k) <=> Ended(wk[v].r, k)
    BY <1>1 DEF Ended, EndedThen
  <2> QED
    BY <1>1, <2>1, <2>2, OnItsWayStays
<1>3. ASSUME ctx = "live", NEW e \in ends, e.r = wk[w].r, NEW i \in DOMAIN cfg.sinks
      PROVE  Ended(e.r, cfg.sinks[i])
  <2>1. wk[w].todo = <<>> /\ Along(w)
    BY <1>1, <1>3 DEF Listed
  <2>2. PICK k \in Nat : AlongBy(w, k)
    BY <2>1 DEF Along
  <2>3. Len(cfg.sinks) \in Nat /\ i \in 1..Len(cfg.sinks)
    BY TypeParts
  <2>4. Len(wk[w].todo) = 0
    BY <2>1
  <2>5. k = Len(cfg.sinks)
    BY <2>2, <2>3, <2>4 DEF AlongBy
  <2>6. Ended(wk[w].r, cfg.sinks[i]) <=> i <= k
    BY <2>2 DEF AlongBy
  <2> QED
    BY <1>3, <2>3, <2>5, <2>6
<1>4. Settled'
  <2>1. ASSUME NEW e \in ends, ctx = "live", \A v \in Busy' : wk'[v].r # e.r,
               NEW i \in DOMAIN cfg.sinks
        PROVE  Ended(e.r, cfg.sinks[i])
    <3>1. CASE e.r = wk[w].r
      BY <1>3, <2>1, <3>1
    <3>2. CASE e.r # wk[w].r
      <4>1. \A v \in Busy : wk[v].r # e.r
        BY <1>1, <2>1, <3>2
      <4> QED
        BY <2>1, <4>1 DEF Listed
    <3> QED
      BY <3>1, <3>2
  <2> QED
    BY <1>1, <2>1 DEF Settled, Ended
<1>5. EndsOnce'
  BY <1>1 DEF Listed, EndsOnce, DeadLetterKept
<1> QED
  BY <1>1, <1>2, <1>4, <1>5, ListedPartsNext DEF Listed

(* Nothing happens to the ends and to what workers have.                   *)
LEMMA ListedKept ==
  ASSUME Listed, UNCHANGED <<cfg, ends>>, Busy' = Busy,
         \A v \in Busy : v \in cfg.workers /\ wk'[v].r = wk[v].r /\ wk'[v].todo = wk[v].todo,
         ctx = "done" => ctx' = "done", ctx \in {"live", "done"},
         \A s \in Sessions : sinks'[s] \in {sinks[s], <<>>}
  PROVE  Listed'
<1>1. ASSUME NEW v \in Busy PROVE OnItsWay(v)'
  <2>1. OnItsWay(v)
    BY ListedParts
  <2>2. \A k : EndedThen(wk[v].r, k) <=> Ended(wk[v].r, k)
    BY DEF Ended, EndedThen
  <2> QED
    BY <2>1, <2>2, OnItsWayStays
<1>2. Settled'
  <2>1. ctx' = "live" => ctx = "live"
    OBVIOUS
  <2> QED
    BY <2>1, ListedParts DEF Settled, Ended
<1>3. EndsOnce'
  BY DEF Listed, EndsOnce, DeadLetterKept
<1>4. \A s \in Sessions : sinks'[s] \in {cfg'.sinks, <<>>}
  BY DEF Listed
<1>5. \A e \in ends' : \E i \in DOMAIN cfg'.sinks : e.sink = cfg'.sinks[i]
  BY DEF Listed
<1> QED
  BY <1>1, <1>2, <1>3, <1>4, <1>5, ListedPartsNext

(* A Send returns, the first that ends for this result and sink.           *)
LEMMA ListedReturns ==
  ASSUME TypeOK, Working, Apart, Listed, NEW w \in cfg.workers, WorkerMoves(w),
         NEW how \in Endings, Returns(w, how)
  PROVE  Listed'
<1>1. PICK new : new = [r |-> wk[w].r, sink |-> Sink(w), how |-> how]
  OBVIOUS
<1>2. /\ UNCHANGED <<cfg, ctx, sinks>> /\ Busy' = Busy /\ w \in Busy /\ wk[w].todo # <<>>
      /\ ends' = ends \cup {new} /\ new.r = wk[w].r /\ new.sink = Sink(w) /\ new.how = how
      /\ wk'[w].r = wk[w].r /\ wk'[w].todo = Tail(wk[w].todo)
      /\ \A v \in Busy : v \in cfg.workers /\ (v # w => wk'[v] = wk[v])
      /\ Sink(w) = "http" => DeadLetterKept(how)
  BY <1>1 DEF Returns, Sending, WorkerMoves, WorkerShape, Busy, Working
<1>3. Along(w)
  BY <1>2 DEF Listed
<1>4. PICK k \in Nat : k + 1 \in DOMAIN cfg.sinks /\ Sink(w) = cfg.sinks[k + 1]
  BY <1>2, <1>3, NextSink
<1>5. ~Ended(wk[w].r, Sink(w))
  BY <1>2, <1>3, NextSink
<1>6. \A j : EndedThen(wk[w].r, j) <=> Ended(wk[w].r, j) \/ j = Sink(w)
  BY <1>2 DEF Ended, EndedThen
<1>7. OnItsWay(w)'
  BY <1>2, <1>3, <1>6, AlongAdvances DEF OnItsWay
<1>8. ASSUME NEW v \in Busy, v # w PROVE OnItsWay(v)'
  <2>1. OnItsWay(v) /\ wk'[v] = wk[v] /\ v \in cfg.workers
    BY <1>2, <1>8, ListedParts
  <2>2. wk[v].r # wk[w].r
    BY <1>2, <1>8 DEF Apart, Same
  <2>3. \A e \in ends' : e.r = wk[v].r => e \in ends
    BY <1>2, <2>2
  <2>4. \A j : EndedThen(wk[v].r, j) <=> Ended(wk[v].r, j)
    BY <1>2, <2>3 DEF Ended, EndedThen
  <2> QED
    BY <1>2, <2>1, <2>3, <2>4, OnItsWayStays
<1>9. Settled'
  <2>1. ASSUME NEW e \in ends', ctx = "live", \A v \in Busy : wk'[v].r # e.r,
               NEW i \in DOMAIN cfg.sinks
        PROVE  EndedThen(e.r, cfg.sinks[i])
    <3>1. e \in ends /\ \A v \in Busy : wk[v].r # e.r
      BY <1>2, <2>1
    <3>2. Ended(e.r, cfg.sinks[i])
      BY <2>1, <3>1 DEF Listed
    <3> QED
      BY <1>2, <3>2 DEF Ended, EndedThen
  <2> QED
    BY <1>2, <2>1 DEF Settled, Ended, EndedThen
<1>10. EndsOnce'
  <2>1. EndsOnce
    BY DEF Listed
  <2>2. \A e \in ends' : e.sink = "http" => DeadLetterKept(e.how)
    BY <1>2, <2>1 DEF EndsOnce
  <2>3. \A e \in ends : ~(e.r = new.r /\ e.sink = new.sink)
    BY <1>2, <1>5 DEF Ended
  <2>4. \A e, f \in ends' : (e.r = f.r /\ e.sink = f.sink) => e = f
    BY <1>2, <2>1, <2>3 DEF EndsOnce
  <2> QED
    BY <1>2, <2>2, <2>4 DEF EndsOnce, DeadLetterKept
<1>11. \A e \in ends' : \E i \in DOMAIN cfg.sinks : e.sink = cfg.sinks[i]
  BY <1>2, <1>4 DEF Listed
<1> QED
  BY <1>2, <1>7, <1>8, <1>9, <1>10, <1>11, ListedPartsNext DEF Listed

(* That sends follow the list is inductive.                                *)
LEMMA StepListed == TypeOK /\ Working /\ Apart /\ Listed /\ [Next]_vars => Listed'
<1> SUFFICES ASSUME TypeOK, Working, Apart, Listed, [Next]_vars PROVE Listed'
  OBVIOUS
<1>0. ctx \in {"live", "done"} /\ Busy \subseteq cfg.workers
  BY TypeParts DEF Busy
<1>1. CASE UNCHANGED <<cfg, ctx, sinks, wk, ends>> \/ OwnerMoves
  <2>1. /\ UNCHANGED <<cfg, wk, ends>> /\ (ctx = "done" => ctx' = "done")
        /\ \A s \in Sessions : sinks'[s] \in {sinks[s], <<>>}
    BY <1>1 DEF OwnerMoves
  <2> QED
    BY <1>0, <2>1, ListedKept DEF Busy
<1>2. CASE \E w \in cfg.workers : WorkerMoves(w)
  <2>1. PICK w \in cfg.workers : WorkerMoves(w)
    BY <1>2
  <2>2. CASE Quits(w) \/ Starts(w) \/ Waits(w) \/ Retries(w)
    <3>1. /\ UNCHANGED <<cfg, ctx, sinks, ends>> /\ Busy' = Busy
          /\ wk'[w].r = wk[w].r /\ wk'[w].todo = wk[w].todo
          /\ \A v \in cfg.workers : v # w => wk'[v] = wk[v]
      BY <2>1, <2>2 DEF Quits, Starts, Waits, Retries, KeepsResult, WorkerMoves, WorkerShape
    <3> QED
      BY <1>0, <3>1, ListedKept
  <2> QED
    BY <2>1, <2>2, ListedTakes, ListedLeaves, ListedReturns DEF WorkerMoves, WorkerShape
<1> QED
  BY <1>1, <1>2, Steps DEF vars, PumpMoves

-----------------------------------------------------------------------------
(* Endpoints and their answers.                                            *)

ReceiptsThen(s, n) == {i \in DOMAIN got'[s] : got'[s][i].n = n}

(* What reaches an endpoint is its last receipt.                           *)
LEMMA Reached ==
  ASSUME TypeOK, Working, NEW w \in Busy, NEW reply \in Replies, Reach(w, reply)
  PROVE  /\ \A s \in Sessions : s # wk[w].r.s => got'[s] = got[s]
         /\ \E m \in Nat :
              LET s == wk[w].r.s IN
              /\ m \notin DOMAIN got[s] /\ DOMAIN got'[s] = DOMAIN got[s] \cup {m}
              /\ \A i \in DOMAIN got[s] : i \in Nat /\ i < m /\ got'[s][i] = got[s][i]
              /\ got'[s][m].n = wk[w].r.n /\ got'[s][m].reply = reply
<1>1. got \in [Sessions -> Seq([n : Nat, reply : Replies])]
  BY TypeParts
<1>2. PICK s \in Sessions : s = wk[w].r.s
  BY BusyParts
<1>3. PICK x : x = [n |-> wk[w].r.n, reply |-> reply]
  OBVIOUS
<1>4. x \in [n : Nat, reply : Replies] /\ x.n = wk[w].r.n /\ x.reply = reply
  BY <1>3, BusyParts
<1>5. got' = [got EXCEPT ![s] = Append(@, x)]
  BY <1>2, <1>3 DEF Reach
<1>6. got'[s] = Append(got[s], x) /\ \A t \in Sessions : t # s => got'[t] = got[t]
  BY <1>1, <1>5
<1>7. PICK q \in Seq([n : Nat, reply : Replies]) : q = got[s]
  BY <1>1
<1>8. PICK m \in Nat : m = Len(q) + 1
  BY <1>7
<1>9. /\ DOMAIN q = 1..Len(q) /\ Len(q) \in Nat
      /\ DOMAIN Append(q, x) = 1..Len(q) + 1
      /\ \A i \in 1..Len(q) : Append(q, x)[i] = q[i]
      /\ Append(q, x)[Len(q) + 1] = x
  BY <1>4
<1>10. /\ m \notin DOMAIN q /\ DOMAIN Append(q, x) = DOMAIN q \cup {m}
       /\ \A i \in DOMAIN q : i \in Nat /\ i < m /\ Append(q, x)[i] = q[i]
       /\ Append(q, x)[m] = x
  BY <1>8, <1>9
<1> QED
  BY <1>2, <1>4, <1>6, <1>7, <1>10

(* Receipts are finitely many.                                             *)
LEMMA ReceiptsFinite ==
  ASSUME TypeOK, NEW s \in Sessions, NEW n
  PROVE  /\ IsFiniteSet(Receipts(s, n)) /\ Cardinality(Receipts(s, n)) \in Nat
         /\ \A i \in DOMAIN got[s] : i \in Nat /\ got[s][i].n \in Nat
<1>1. got[s] \in Seq([n : Nat, reply : Replies])
  BY TypeParts
<1>2. DOMAIN got[s] = 1..Len(got[s]) /\ Len(got[s]) \in Nat
  BY <1>1
<1>3. IsFiniteSet(1..Len(got[s]))
  BY <1>2, FS_Interval
<1>4. Receipts(s, n) \subseteq 1..Len(got[s])
  BY <1>2 DEF Receipts
<1>5. IsFiniteSet(Receipts(s, n))
  BY <1>3, <1>4, FS_Subset
<1>6. \A i \in DOMAIN got[s] : got[s][i] \in [n : Nat, reply : Replies]
  <2>1. \A S, q : q \in Seq(S) => \A i \in DOMAIN q : q[i] \in S
    OBVIOUS
  <2> QED
    BY <1>1, <2>1, Zenon
<1>7. \A x \in [n : Nat, reply : Replies] : x.n \in Nat
  OBVIOUS
<1>8. \A i \in DOMAIN got[s] : i \in Nat /\ got[s][i].n \in Nat
  BY <1>2, <1>6, <1>7
<1> QED
  BY <1>5, <1>8, FS_CardinalityType

(* What reaches the endpoint of one result leaves the receipts of others.  *)
LEMMA OthersReached ==
  ASSUME TypeOK, Working, NEW w \in Busy, NEW reply \in Replies, Reach(w, reply),
         NEW s \in Sessions, NEW n \in Nat, ~(s = wk[w].r.s /\ n = wk[w].r.n)
  PROVE  /\ ReceiptsThen(s, n) = Receipts(s, n)
         /\ \A i \in Receipts(s, n) : got'[s][i] = got[s][i]
<1>1. CASE s # wk[w].r.s
  BY <1>1, Reached DEF Receipts, ReceiptsThen
<1>2. CASE s = wk[w].r.s
  <2>1. PICK m \in Nat :
          /\ DOMAIN got'[s] = DOMAIN got[s] \cup {m}
          /\ \A i \in DOMAIN got[s] : got'[s][i] = got[s][i]
          /\ got'[s][m].n = wk[w].r.n
    BY <1>2, Reached
  <2> QED
    BY <1>2, <2>1 DEF Receipts, ReceiptsThen
<1> QED
  BY <1>1, <1>2

(* What reaches the endpoint of a result under way is one more receipt.    *)
LEMMA OneMoreReached ==
  ASSUME TypeOK, Working, NEW w \in Busy, NEW reply \in Replies, Reach(w, reply)
  PROVE  LET s == wk[w].r.s
             n == wk[w].r.n
         IN \E m \in Nat :
              /\ m \notin Receipts(s, n) /\ ReceiptsThen(s, n) = Receipts(s, n) \cup {m}
              /\ \A i \in Receipts(s, n) : i \in Nat /\ i < m /\ got'[s][i] = got[s][i]
              /\ got'[s][m].reply = reply
              /\ Cardinality(ReceiptsThen(s, n)) = Cardinality(Receipts(s, n)) + 1
<1>1. PICK s \in Sessions : s = wk[w].r.s
  BY BusyParts
<1>2. PICK n \in Nat : n = wk[w].r.n
  BY BusyParts
<1>3. PICK m \in Nat :
        /\ m \notin DOMAIN got[s] /\ DOMAIN got'[s] = DOMAIN got[s] \cup {m}
        /\ \A i \in DOMAIN got[s] : i \in Nat /\ i < m /\ got'[s][i] = got[s][i]
        /\ got'[s][m].n = n /\ got'[s][m].reply = reply
  BY <1>1, <1>2, Reached
<1>4. /\ m \notin Receipts(s, n) /\ ReceiptsThen(s, n) = Receipts(s, n) \cup {m}
      /\ \A i \in Receipts(s, n) : i \in Nat /\ i < m /\ got'[s][i] = got[s][i]
  BY <1>3 DEF Receipts, ReceiptsThen
<1>5. Cardinality(ReceiptsThen(s, n)) = Cardinality(Receipts(s, n)) + 1
  BY <1>4, ReceiptsFinite, FS_AddElement
<1> QED
  BY <1>1, <1>2, <1>3, <1>4, <1>5

(* An endpoint has got nothing of a result whose callback is still to come. *)
LEMMA NothingReceived ==
  ASSUME TypeOK, Working, Apart, Listed, Owned, NEW w \in Busy,
         wk[w].todo # <<>>, Sink(w) = "http", ~Trying(w)
  PROVE  Receipts(wk[w].r.s, wk[w].r.n) = {}
<1>1. w \in cfg.workers /\ Along(w) /\ wk[w].r.s \in Sessions
  BY BusyParts DEF Listed
<1>2. ~Ended(wk[w].r, "http")
  BY <1>1, NextSink
<1>3. ASSUME NEW i \in Receipts(wk[w].r.s, wk[w].r.n) PROVE FALSE
  <2>1. i \in DOMAIN got[wk[w].r.s] /\ got[wk[w].r.s][i].n = wk[w].r.n
    BY <1>3 DEF Receipts
  <2>2. CASE \E v \in Busy : Trying(v) /\ wk[v].r.s = wk[w].r.s /\ wk[v].r.n = wk[w].r.n
    BY <2>2 DEF Apart, Same
  <2>3. CASE \E e \in ends : e.sink = "http" /\ e.r.s = wk[w].r.s /\ e.r.n = wk[w].r.n
    BY <1>2, <2>3 DEF Apart, Same, Ended
  <2> QED
    BY <1>1, <2>1, <2>2, <2>3 DEF Owned, OwnedBy
<1> QED
  BY <1>3

(* Receipts have an owner as long as callbacks under way go on or end.     *)
LEMMA OwnedStays ==
  ASSUME Owned, ends \subseteq ends',
         \A v \in Busy : Trying(v) =>
           \/ v \in Busy' /\ Trying(v)' /\ wk'[v].r = wk[v].r
           \/ \E e \in ends' : e.sink = "http" /\ e.r = wk[v].r,
         \A s \in Sessions : \A i \in DOMAIN got'[s] :
           \/ i \in DOMAIN got[s] /\ got'[s][i] = got[s][i]
           \/ \E v \in Busy : Trying(v) /\ wk[v].r.s = s /\ wk[v].r.n = got'[s][i].n
  PROVE  Owned'
<1>1. ASSUME NEW s, NEW n, OwnedBy(s, n) PROVE OwnedBy(s, n)'
  <2>1. CASE \E v \in Busy : Trying(v) /\ wk[v].r.s = s /\ wk[v].r.n = n
    <3>1. PICK v \in Busy : Trying(v) /\ wk[v].r.s = s /\ wk[v].r.n = n
      BY <2>1
    <3> QED
      BY <3>1 DEF OwnedBy
  <2> QED
    BY <1>1, <2>1 DEF OwnedBy
<1>2. ASSUME NEW s \in Sessions, NEW i \in DOMAIN got'[s] PROVE OwnedBy(s, got[s][i].n)'
  <2>1. PICK n : n = got'[s][i].n
    OBVIOUS
  <2>2. OwnedBy(s, n)
    BY <1>2, <2>1 DEF Owned, OwnedBy
  <2>3. OwnedBy(s, n)'
    BY <1>1, <2>2
  <2> QED
    BY <2>1, <2>3 DEF OwnedBy
<1> QED
  BY <1>2 DEF Owned

(* Nothing reaches an endpoint, and no Send ends.                          *)
LEMMA AnswersQuiet ==
  ASSUME TypeOK, Working, Answers, UNCHANGED <<ends, got>>,
         \A v \in Busy : Trying(v) => v \in Busy' /\ Trying(v)' /\ wk'[v].r = wk[v].r,
         \A v \in Busy' : Trying(v)' =>
           \/ v \in Busy /\ Trying(v) /\ wk'[v].r = wk[v].r /\ wk[v].tries <= wk'[v].tries
           \/ Receipts(wk'[v].r.s, wk'[v].r.n) = {},
         \A v \in Busy' : wk'[v].tries \in Nat
  PROVE  Answers'
<1>1. Owned'
  BY OwnedStays DEF Answers
<1>2. ASSUME NEW v \in Busy', Trying(v)' PROVE OpenFor(v)'
  <2>1. CASE v \in Busy /\ Trying(v) /\ wk'[v].r = wk[v].r /\ wk[v].tries <= wk'[v].tries
    <3>1. OpenFor(v) /\ wk[v].tries \in Nat /\ Cardinality(Receipts(wk[v].r.s, wk[v].r.n)) \in Nat
      BY <2>1, BusyParts, WorkerParts, ReceiptsFinite DEF Answers
    <3>2. wk'[v].tries \in Nat
      BY <1>2
    <3>3. Cardinality(Receipts(wk[v].r.s, wk[v].r.n)) <= wk'[v].tries
      BY <2>1, <3>1, <3>2 DEF OpenFor
    <3> QED
      BY <2>1, <3>1, <3>3 DEF OpenFor, Receipts
  <2>2. CASE Receipts(wk'[v].r.s, wk'[v].r.n) = {}
    <3>1. Receipts(wk[v].r.s, wk[v].r.n)' = {}
      BY <2>2 DEF Receipts
    <3>2. Cardinality(Receipts(wk[v].r.s, wk[v].r.n)') = 0
      BY <3>1, FS_EmptySet
    <3>3. wk'[v].tries \in Nat /\ 0 <= wk'[v].tries
      BY <1>2
    <3> QED
      BY <3>1, <3>2, <3>3 DEF OpenFor
  <2> QED
    BY <1>2, <2>1, <2>2
<1>3. Attempted'
  <2>1. ASSUME NEW s, NEW n PROVE Receipts(s, n)' = Receipts(s, n)
    BY DEF Receipts
  <2> QED
    BY <2>1 DEF Answers, Attempted
<1>4. Told'
  BY DEF Answers, Told, Receipts
<1> QED
  BY <1>1, <1>2, <1>3, <1>4 DEF Answers

(* What an endpoint gets for a callback under way is no attempt too many,  *)
(* and those of other results stay as they are.                            *)
LEMMA AttemptedReached ==
  ASSUME TypeOK, Working, Answers, NEW w \in Busy, Trying(w), NEW reply \in Replies,
         Reach(w, reply)
  PROVE  Attempted'
<1>1. PICK s \in Sessions : s = wk[w].r.s
  BY BusyParts
<1>2. PICK n \in Nat : n = wk[w].r.n
  BY BusyParts
<1>3. PICK m \in Nat :
        /\ ReceiptsThen(s, n) = Receipts(s, n) \cup {m}
        /\ \A i \in Receipts(s, n) : i \in Nat /\ i < m /\ got'[s][i] = got[s][i]
        /\ Cardinality(ReceiptsThen(s, n)) = Cardinality(Receipts(s, n)) + 1
  BY <1>1, <1>2, OneMoreReached
<1>4. /\ \A i \in Receipts(s, n) : got[s][i].reply = "again"
      /\ Cardinality(Receipts(s, n)) <= wk[w].tries
  BY <1>1, <1>2 DEF Answers, OpenFor
<1>5. Cardinality(ReceiptsThen(s, n)) <= MaxRetry + 1
  <2>1. wk[w].tries <= MaxRetry /\ wk[w].tries \in Nat /\ MaxRetry \in Nat
    BY BusyParts, WorkerParts, ResultAssumption DEF Working
  <2>2. Cardinality(Receipts(s, n)) \in Nat
    BY ReceiptsFinite
  <2> QED
    BY <1>3, <1>4, <2>1, <2>2
<1>6. \A i, j \in ReceiptsThen(s, n) : i < j => got'[s][i].reply = "again"
  <2>1. ~(m < m) /\ \A j \in Receipts(s, n) : ~(m < j)
    BY <1>3
  <2> QED
    BY <1>3, <1>4, <2>1
<1>7. ASSUME NEW t \in Sessions, NEW k \in Nat, ~(t = s /\ k = n)
      PROVE  /\ Cardinality(ReceiptsThen(t, k)) <= MaxRetry + 1
             /\ \A i, j \in ReceiptsThen(t, k) : i < j => got'[t][i].reply = "again"
  <2>1. /\ ReceiptsThen(t, k) = Receipts(t, k)
        /\ \A i \in Receipts(t, k) : got'[t][i] = got[t][i]
    BY <1>1, <1>2, <1>7, OthersReached
  <2> QED
    BY <2>1 DEF Answers, Attempted
<1>8. \A t \in Sessions : \A k \in Nat :
        /\ Cardinality(ReceiptsThen(t, k)) <= MaxRetry + 1
        /\ \A i, j \in ReceiptsThen(t, k) : i < j => got'[t][i].reply = "again"
  BY <1>5, <1>6, <1>7
<1> QED
  BY <1>8 DEF Attempted, Receipts, ReceiptsThen

(* What reaches the endpoint, in the form OwnedStays asks for.             *)
LEMMA OwnerReached ==
  ASSUME TypeOK, Working, NEW w \in Busy, Trying(w), NEW reply \in Replies, Reach(w, reply)
  PROVE  \A s \in Sessions : \A i \in DOMAIN got'[s] :
           \/ i \in DOMAIN got[s] /\ got'[s][i] = got[s][i]
           \/ \E v \in Busy : Trying(v) /\ wk[v].r.s = s /\ wk[v].r.n = got'[s][i].n
<1>1. PICK s \in Sessions : s = wk[w].r.s
  BY BusyParts
<1>2. PICK m \in Nat :
        /\ DOMAIN got'[s] = DOMAIN got[s] \cup {m}
        /\ \A i \in DOMAIN got[s] : got'[s][i] = got[s][i]
        /\ got'[s][m].n = wk[w].r.n
  BY <1>1, Reached
<1>3. \A t \in Sessions : t # s => got'[t] = got[t]
  BY <1>1, Reached
<1>4. \A i \in DOMAIN got'[s] :
        \/ i \in DOMAIN got[s] /\ got'[s][i] = got[s][i]
        \/ \E v \in Busy : Trying(v) /\ wk[v].r.s = s /\ wk[v].r.n = got'[s][i].n
  BY <1>1, <1>2
<1> QED
  BY <1>3, <1>4

(* A callback under way stays as it is when another endpoint is reached.   *)
LEMMA OpenStays ==
  ASSUME TypeOK, Working, Apart, NEW w \in Busy, NEW reply \in Replies, Reach(w, reply),
         NEW v \in Busy, v # w, OpenFor(v), wk'[v] = wk[v]
  PROVE  OpenFor(v)'
<1>1. PICK s \in Sessions : s = wk[v].r.s
  BY BusyParts
<1>2. PICK n \in Nat : n = wk[v].r.n
  BY BusyParts
<1>3. ~(s = wk[w].r.s /\ n = wk[w].r.n)
  BY <1>1, <1>2 DEF Apart, Same
<1>4. /\ ReceiptsThen(s, n) = Receipts(s, n)
      /\ \A i \in Receipts(s, n) : got'[s][i] = got[s][i]
  BY <1>3, OthersReached
<1>5. /\ \A i \in ReceiptsThen(s, n) : got'[s][i].reply = "again"
      /\ Cardinality(ReceiptsThen(s, n)) <= wk'[v].tries
  BY <1>1, <1>2, <1>4 DEF OpenFor
<1>6. wk'[v].r.s = s /\ wk'[v].r.n = n
  BY <1>1, <1>2
<1> QED
  BY <1>5, <1>6 DEF OpenFor, Receipts, ReceiptsThen

(* The callback of a result that is under way has not ended before.        *)
LEMMA TryingHasNotEnded ==
  ASSUME TypeOK, Working, Apart, Listed, NEW w \in Busy, Trying(w),
         NEW e \in ends, e.sink = "http"
  PROVE  ~(e.r.s = wk[w].r.s /\ e.r.n = wk[w].r.n)
<1> SUFFICES ASSUME e.r.s = wk[w].r.s, e.r.n = wk[w].r.n PROVE FALSE
  OBVIOUS
<1>1. e.r = wk[w].r
  BY DEF Apart, Same
<1>2. w \in cfg.workers /\ wk[w].todo # <<>> /\ Sink(w) = "http"
  BY BusyParts DEF Trying, Sink, Working
<1>3. ~Ended(wk[w].r, Sink(w))
  BY <1>2, NextSink DEF Listed
<1> QED
  BY <1>1, <1>2, <1>3 DEF Ended

(* An attempt fails with a receipt and there will be another.              *)
LEMMA AnswersRetries ==
  ASSUME TypeOK, Working, Apart, Listed, Answers,
         NEW w \in cfg.workers, WorkerMoves(w), Retries(w)
  PROVE  Answers'
<1>1. /\ w \in Busy /\ Trying(w) /\ Reach(w, "again") /\ "again" \in Replies /\ "again" # "2xx"
      /\ Busy' = Busy /\ ends' = ends /\ wk'[w].r = wk[w].r /\ Trying(w)'
      /\ wk'[w].tries = wk[w].tries + 1
      /\ \A v \in Busy : v \in cfg.workers /\ (v # w => wk'[v] = wk[v])
  BY DEF Retries, Sending, KeepsResult, Trying, Sink, WorkerMoves, WorkerShape, Busy, Replies
<1>2. \A v \in Busy : Trying(v) => Trying(v)' /\ wk'[v].r = wk[v].r
  BY <1>1 DEF Trying
<1>3. Owned'
  BY <1>1, <1>2, OwnerReached, OwnedStays DEF Answers
<1>4. Attempted'
  BY <1>1, AttemptedReached
<1>5. PICK s \in Sessions : s = wk[w].r.s
  BY <1>1, BusyParts
<1>6. PICK n \in Nat : n = wk[w].r.n
  BY <1>1, BusyParts
<1>7. PICK m \in Nat :
        /\ ReceiptsThen(s, n) = Receipts(s, n) \cup {m}
        /\ \A i \in Receipts(s, n) : got'[s][i] = got[s][i]
        /\ got'[s][m].reply = "again"
        /\ Cardinality(ReceiptsThen(s, n)) = Cardinality(Receipts(s, n)) + 1
  BY <1>1, <1>5, <1>6, OneMoreReached
<1>8. OpenFor(w) /\ wk[w].tries \in Nat /\ Cardinality(Receipts(s, n)) \in Nat
  BY <1>1, WorkerParts, ReceiptsFinite DEF Answers
<1>9. OpenFor(w)'
  <2>1. /\ \A i \in ReceiptsThen(s, n) : got'[s][i].reply = "again"
        /\ Cardinality(ReceiptsThen(s, n)) <= wk'[w].tries
    BY <1>1, <1>5, <1>6, <1>7, <1>8 DEF OpenFor
  <2>2. wk'[w].r.s = s /\ wk'[w].r.n = n
    BY <1>1, <1>5, <1>6
  <2> QED
    BY <2>1, <2>2 DEF OpenFor, Receipts, ReceiptsThen
<1>10. ASSUME NEW v \in Busy, v # w, Trying(v)' PROVE OpenFor(v)'
  <2>1. wk'[v] = wk[v] /\ OpenFor(v)
    BY <1>1, <1>10 DEF Trying, Answers
  <2> QED
    BY <1>1, <1>10, <2>1, OpenStays
<1>11. Told'
  <2>1. ASSUME NEW e \in ends, e.sink = "http"
        PROVE  Agrees(e.how, ReceiptsThen(e.r.s, e.r.n), got'[e.r.s])
    <3>1. e.r.s \in Sessions /\ e.r.n \in Nat
      BY PlacesTyped, ResultParts
    <3>2. Agrees(e.how, Receipts(e.r.s, e.r.n), got[e.r.s])
      BY <2>1 DEF Answers, Told
    <3>3. ~(e.r.s = s /\ e.r.n = n)
      BY <1>1, <1>5, <1>6, <2>1, TryingHasNotEnded
    <3> QED
      BY <1>1, <1>5, <1>6, <3>1, <3>2, <3>3, OthersReached DEF Agrees
  <2> QED
    BY <1>1, <2>1 DEF Told, Receipts, ReceiptsThen, Agrees
<1> QED
  BY <1>1, <1>3, <1>4, <1>9, <1>10, <1>11 DEF Answers

(* A Send returns, and with it what its endpoint has answered.             *)
LEMMA AnswersReturns ==
  ASSUME TypeOK, Working, Apart, Listed, Answers,
         NEW w \in cfg.workers, WorkerMoves(w), NEW how \in Endings, Returns(w, how)
  PROVE  Answers'
<1>1. PICK new : new = [r |-> wk[w].r, sink |-> Sink(w), how |-> how]
  OBVIOUS
<1>2. /\ w \in Busy /\ Busy' = Busy /\ wk[w].todo # <<>> /\ ~Trying(w)'
      /\ ends' = ends \cup {new} /\ new.r = wk[w].r /\ new.sink = Sink(w) /\ new.how = how
      /\ \A v \in Busy : v \in cfg.workers /\ (v # w => wk'[v] = wk[v])
      /\ Sink(w) = "http" <=> Trying(w)
  BY <1>1 DEF Returns, Sending, Trying, Sink, WorkerMoves, WorkerShape, Busy, Working
<1>3. /\ \A v \in Busy : v # w => (Trying(v)' <=> Trying(v))
      /\ \A v \in Busy' : Trying(v)' => v # w
  BY <1>2 DEF Trying
<1>4. \A v \in Busy : Trying(v) =>
        \/ v \in Busy' /\ Trying(v)' /\ wk'[v].r = wk[v].r
        \/ \E e \in ends' : e.sink = "http" /\ e.r = wk[v].r
  <2>1. Trying(w) => new \in ends' /\ new.sink = "http" /\ new.r = wk[w].r
    BY <1>2
  <2>2. \A v \in Busy : v # w /\ Trying(v) => v \in Busy' /\ Trying(v)' /\ wk'[v].r = wk[v].r
    BY <1>2, <1>3
  <2> QED
    BY <2>1, <2>2
<1>5. PICK s \in Sessions : s = wk[w].r.s
  BY <1>2, BusyParts
<1>6. PICK n \in Nat : n = wk[w].r.n
  BY <1>2, BusyParts
<1>7. ASSUME NEW e \in ends, e.sink = "http", e.r.s = s, e.r.n = n PROVE Sink(w) # "http"
  <2>1. e.r = wk[w].r
    BY <1>2, <1>5, <1>6, <1>7 DEF Apart, Same
  <2>2. ~Ended(wk[w].r, Sink(w))
    BY <1>2, NextSink DEF Listed
  <2> QED
    BY <1>7, <2>1, <2>2 DEF Ended
<1>8. CASE Unheard(w, how)
  <2>0. UNCHANGED got
    BY <1>8 DEF Unheard
  <2>1. Owned'
    BY <1>2, <1>4, <2>0, OwnedStays DEF Answers
  <2>2. \A t, k : Receipts(t, k)' = Receipts(t, k)
    BY <2>0 DEF Receipts
  <2>3. Attempted'
    BY <2>0, <2>2 DEF Answers, Attempted
  <2>4. ASSUME NEW v \in Busy', Trying(v)' PROVE OpenFor(v)'
    <3>1. wk'[v] = wk[v] /\ OpenFor(v)
      BY <1>2, <1>3, <2>4 DEF Answers
    <3> QED
      BY <2>0, <3>1 DEF OpenFor, Receipts
  <2>5. new.sink = "http" => Agrees(how, Receipts(s, n), got[s])
    <3> SUFFICES ASSUME new.sink = "http" PROVE Agrees(how, Receipts(s, n), got[s])
      OBVIOUS
    <3>1. /\ \A i \in Receipts(s, n) : got[s][i].reply = "again"
          /\ Cardinality(Receipts(s, n)) <= wk[w].tries
      BY <1>2, <1>5, <1>6 DEF Answers, OpenFor
    <3>2. wk[w].tries \in Nat /\ wk[w].tries <= MaxRetry /\ MaxRetry \in Nat
      BY <1>2, WorkerParts, ResultAssumption DEF Working
    <3>3. IsFiniteSet(Receipts(s, n)) /\ Cardinality(Receipts(s, n)) \in Nat
      BY ReceiptsFinite
    <3>4. Cardinality(Receipts(s, n)) <= MaxRetry
      BY <3>1, <3>2, <3>3
    <3>5. how = "invalid" => Receipts(s, n) = {}
      <4>1. ASSUME how = "invalid" PROVE Cardinality(Receipts(s, n)) = 0
        <5>1. wk[w].tries = 0
          BY <1>2, <1>8, <4>1 DEF Unheard
        <5> QED
          BY <3>1, <3>3, <5>1
      <4> QED
        BY <3>3, <4>1, FS_EmptySet
    <3>6. how \notin {"ok", "refused"}
      BY <1>2, <1>8 DEF Unheard
    <3> QED
      BY <3>1, <3>4, <3>5, <3>6 DEF Agrees
  <2>6. Told'
    <3>1. \A e \in ends : e.sink = "http" => Agrees(e.how, Receipts(e.r.s, e.r.n), got[e.r.s])
      BY DEF Answers, Told
    <3>2. new.r.s = s /\ new.r.n = n
      BY <1>2, <1>5, <1>6
    <3>3. \A e \in ends' : e.sink = "http" => Agrees(e.how, Receipts(e.r.s, e.r.n), got[e.r.s])
      BY <1>2, <2>5, <3>1, <3>2
    <3> QED
      BY <2>0, <3>3 DEF Told, Receipts, Agrees
  <2> QED
    BY <2>1, <2>3, <2>4, <2>6 DEF Answers
<1>9. ASSUME NEW reply \in Replies, Heard(w, how, reply) PROVE Answers'
  <2>0. /\ Sink(w) = "http" /\ Reach(w, reply) /\ how \notin {"late", "invalid"}
        /\ (how = "ok" <=> reply = "2xx") /\ (how = "refused" <=> reply = "4xx")
    BY <1>9 DEF Heard
  <2>1. Trying(w) /\ OpenFor(w)
    BY <1>2, <2>0 DEF Answers
  <2>2. Owned'
    BY <1>2, <1>4, <2>0, <2>1, OwnerReached, OwnedStays DEF Answers
  <2>3. Attempted'
    BY <1>2, <2>0, <2>1, AttemptedReached
  <2>4. ASSUME NEW v \in Busy', Trying(v)' PROVE OpenFor(v)'
    <3>1. v # w /\ v \in Busy /\ wk'[v] = wk[v] /\ OpenFor(v)
      BY <1>2, <1>3, <2>4 DEF Answers
    <3> QED
      BY <1>2, <2>0, <3>1, OpenStays
  <2>5. PICK m \in Nat :
          /\ ReceiptsThen(s, n) = Receipts(s, n) \cup {m}
          /\ \A i \in Receipts(s, n) : got'[s][i] = got[s][i]
          /\ got'[s][m].reply = reply
    <3>1. w \in Busy /\ reply \in Replies /\ Reach(w, reply)
      BY <1>2, <2>0
    <3> QED
      BY <1>5, <1>6, <3>1, OneMoreReached
  <2>6. \A i \in Receipts(s, n) : got[s][i].reply \notin {"2xx", "4xx"}
    BY <1>5, <1>6, <2>1 DEF OpenFor
  <2>7. Agrees(how, ReceiptsThen(s, n), got'[s])
    BY <2>0, <2>5, <2>6 DEF Agrees
  <2>8. ASSUME NEW e \in ends, e.sink = "http"
        PROVE  Agrees(e.how, ReceiptsThen(e.r.s, e.r.n), got'[e.r.s])
    <3>1. e.r.s \in Sessions /\ e.r.n \in Nat
      BY PlacesTyped, ResultParts
    <3>2. ~(e.r.s = s /\ e.r.n = n)
      BY <1>7, <2>0, <2>8
    <3>3. Agrees(e.how, Receipts(e.r.s, e.r.n), got[e.r.s])
      BY <2>8 DEF Answers, Told
    <3> QED
      BY <1>2, <1>5, <1>6, <2>0, <3>1, <3>2, <3>3, OthersReached DEF Agrees
  <2>9. Told'
    <3>1. new.r.s = s /\ new.r.n = n /\ new.how = how
      BY <1>2, <1>5, <1>6
    <3>2. \A e \in ends' : e.sink = "http" => Agrees(e.how, ReceiptsThen(e.r.s, e.r.n), got'[e.r.s])
      BY <1>2, <2>7, <2>8, <3>1
    <3> QED
      BY <3>2 DEF Told, Receipts, ReceiptsThen, Agrees
  <2> QED
    BY <2>2, <2>3, <2>4, <2>9 DEF Answers
<1> QED
  BY <1>8, <1>9 DEF Returns

(* A worker goes to a sink, or waits with a callback.                      *)
LEMMA AnswersWait ==
  ASSUME TypeOK, Working, Apart, Listed, Answers, TypeOK',
         NEW w \in cfg.workers, WorkerMoves(w), Starts(w) \/ Waits(w)
  PROVE  Answers'
<1>1. /\ w \in Busy /\ Busy' = Busy /\ UNCHANGED <<ends, got, cfg>>
      /\ wk'[w].r = wk[w].r /\ wk'[w].todo = wk[w].todo
      /\ \A v \in Busy : v \in cfg.workers /\ (v # w => wk'[v] = wk[v])
  BY DEF Starts, Waits, Sending, KeepsResult, WorkerMoves, WorkerShape, Busy
<1>2. \A v \in Busy' : wk'[v].tries \in Nat
  BY <1>1 DEF WorkerMoves, WorkerShape, WorkerStates
<1>3. \A v \in Busy : wk[v].tries \in Nat
  BY <1>1, WorkerParts
<1>4. CASE Waits(w)
  <2>1. (Trying(w)' <=> Trying(w)) /\ wk[w].tries <= wk'[w].tries
    BY <1>1, <1>4 DEF Waits, Trying, Sending
  <2>2. \A v \in Busy : (Trying(v)' <=> Trying(v)) /\ wk[v].tries <= wk'[v].tries
    BY <1>1, <1>3, <2>1 DEF Trying
  <2> QED
    BY <1>1, <1>2, <2>2, AnswersQuiet
<1>5. CASE Starts(w)
  <2>1. ~Trying(w) /\ wk[w].todo # <<>>
    BY <1>5 DEF Starts, Trying
  <2>2. Trying(w)' => Receipts(wk'[w].r.s, wk'[w].r.n) = {}
    <3>1. Trying(w)' => Sink(w) = "http"
      BY <1>1 DEF Trying, Sink
    <3> QED
      BY <1>1, <2>1, <3>1, NothingReceived DEF Answers
  <2>3. \A v \in Busy : v # w => (Trying(v)' <=> Trying(v)) /\ wk[v].tries <= wk'[v].tries
    BY <1>1, <1>3 DEF Trying
  <2>4. \A v \in Busy : Trying(v) => v \in Busy' /\ Trying(v)' /\ wk'[v].r = wk[v].r
    BY <1>1, <2>1, <2>3
  <2>5. \A v \in Busy' : Trying(v)' =>
           \/ v \in Busy /\ Trying(v) /\ wk'[v].r = wk[v].r /\ wk[v].tries <= wk'[v].tries
           \/ Receipts(wk'[v].r.s, wk'[v].r.n) = {}
    BY <1>1, <2>2, <2>3
  <2> QED
    BY <1>1, <1>2, <2>4, <2>5, AnswersQuiet
<1> QED
  BY <1>4, <1>5

(* Answers are inductive.                                                  *)
LEMMA StepAnswers ==
  TypeOK /\ Working /\ Apart /\ Listed /\ Answers /\ [Next]_vars => Answers'
<1> SUFFICES ASSUME TypeOK, Working, Apart, Listed, Answers, [Next]_vars PROVE Answers'
  OBVIOUS
<1>0. TypeOK' /\ Busy \subseteq cfg.workers /\ \A v \in cfg.workers : wk[v].tries \in Nat
  BY StepTyped, WorkerParts DEF Busy
<1>1. CASE UNCHANGED <<cfg, wk, ends, got>>
  <2>1. Busy' = Busy /\ \A v \in Busy : Trying(v)' <=> Trying(v)
    BY <1>1 DEF Busy, Trying
  <2>2. \A v \in Busy : wk'[v].tries \in Nat /\ wk[v].tries <= wk'[v].tries
    BY <1>0, <1>1
  <2> QED
    BY <1>1, <2>1, <2>2, AnswersQuiet
<1>2. CASE \E w \in cfg.workers : WorkerMoves(w)
  <2>1. PICK w \in cfg.workers : WorkerMoves(w)
    BY <1>2
  <2>2. CASE Takes(w) \/ Leaves(w) \/ Quits(w)
    <3>1. /\ UNCHANGED <<ends, got>> /\ ~Trying(w) /\ ~Trying(w)'
          /\ \A v \in cfg.workers : v # w => wk'[v] = wk[v] /\ (v \in Busy' <=> v \in Busy)
          /\ Busy' \subseteq cfg.workers
      BY <2>1, <2>2, <1>0 DEF Takes, Leaves, Quits, KeepsResult, Trying, WorkerMoves, WorkerShape, Busy
    <3>2. \A v \in Busy' : wk'[v].tries \in Nat
      BY <2>1, <3>1 DEF WorkerMoves, WorkerShape, WorkerStates
    <3>3. \A v \in cfg.workers : v # w => (Trying(v)' <=> Trying(v)) /\ wk[v].tries <= wk'[v].tries
      BY <1>0, <3>1 DEF Trying
    <3> QED
      BY <1>0, <3>1, <3>2, <3>3, AnswersQuiet
  <2> QED
    BY <1>0, <2>1, <2>2, AnswersWait, AnswersRetries, AnswersReturns DEF WorkerMoves, WorkerShape
<1> QED
  BY <1>1, <1>2, Steps DEF vars, PumpMoves, OwnerMoves

-----------------------------------------------------------------------------
(* The order of results.                                                   *)

(* What an endpoint has got is older than the result of its pump.          *)
LEMMA GotPassed ==
  ASSUME TypeOK, Working, Numbered, Owned, NEW s \in Sessions, NEW i \in DOMAIN got[s],
         Holds(s)
  PROVE  got[s][i].n < pump[s].n /\ pump[s].s = s
<1>1. OwnedBy(s, got[s][i].n)
  BY DEF Owned
<1>2. pump[s].s = s /\ pump[s].n = made[s]
  BY DEF Numbered
<1>3. \A r : Passed(r) /\ r.s = s /\ r.n = got[s][i].n => got[s][i].n < made[s]
  BY DEF Passed
<1> QED
  BY <1>1, <1>2, <1>3 DEF OwnedBy, Numbered

(* The order is kept when a pump pushes.                                   *)
LEMMA AheadPushes ==
  ASSUME TypeOK, Working, Numbered, Owned, Ahead, NEW s \in Sessions, Pushes(s),
         UNCHANGED <<cfg, wk, ends, got>>, Busy' = Busy
  PROVE  Ahead'
<1> SUFFICES ASSUME OneWorker PROVE Ahead'
  BY DEF Ahead, OneWorker
<1>1. Holds(s) /\ pump[s] \in Results /\ queue' = Append(queue, pump[s])
  BY PumpParts DEF Pushes
<1>2. PICK p \in Results : p = pump[s]
  BY <1>1
<1>3. \A j \in DOMAIN queue' : \/ j \in DOMAIN queue /\ queue'[j] = queue[j]
                               \/ queue'[j] = p
  BY <1>1, <1>2, MoreInQueue
<1>4. \A w \in Busy : p.s = wk[w].r.s => wk[w].r.n < p.n
  BY <1>1, <1>2, HeldIsNewest, PlacesTyped DEF Numbered
<1>5. \A w \in Busy : \A j \in DOMAIN queue' : queue'[j].s = wk[w].r.s => wk[w].r.n < queue'[j].n
  BY <1>3, <1>4 DEF Ahead
<1>6. \A t \in Sessions : \A i \in DOMAIN got[t] : p.s = t => got[t][i].n < p.n
  <2>1. p.s = s
    BY <1>1, <1>2 DEF Numbered
  <2>2. \A i \in DOMAIN got[s] : got[s][i].n < p.n
    BY <1>1, <1>2, GotPassed
  <2> QED
    BY <2>1, <2>2
<1>7. \A t \in Sessions : \A i \in DOMAIN got[t] : \A j \in DOMAIN queue' :
        queue'[j].s = t => got[t][i].n < queue'[j].n
  BY <1>3, <1>6 DEF Ahead
<1> QED
  BY <1>5, <1>7 DEF Ahead

(* The order is kept when nothing reaches an endpoint or the queue.        *)
LEMMA AheadKept ==
  ASSUME TypeOK, Working, Apart, Ahead, UNCHANGED <<cfg, got>>, NEW w \in cfg.workers,
         \/ queue' = queue /\ Busy' \subseteq Busy /\ \A v \in Busy' : wk'[v].r = wk[v].r
         \/ /\ queue # <<>> /\ queue' = Tail(queue) /\ w \notin Busy /\ Busy' = Busy \cup {w}
            /\ wk'[w].r = Head(queue) /\ \A v \in Busy : wk'[v] = wk[v] /\ v # w
  PROVE  Ahead'
<1> SUFFICES ASSUME OneWorker PROVE Ahead'
  BY DEF Ahead, OneWorker
<1>1. CASE queue' = queue /\ Busy' \subseteq Busy /\ \A v \in Busy' : wk'[v].r = wk[v].r
  BY <1>1 DEF Ahead
<1>2. CASE /\ queue # <<>> /\ queue' = Tail(queue) /\ w \notin Busy /\ Busy' = Busy \cup {w}
           /\ wk'[w].r = Head(queue) /\ \A v \in Busy : wk'[v] = wk[v] /\ v # w
  <2>1. \A v \in Busy' : v = w
    BY <1>2 DEF OneWorker, Busy
  <2>2. /\ 1 \in DOMAIN queue /\ wk'[w].r = queue[1]
        /\ \A j \in DOMAIN queue' : j \in Nat /\ j + 1 \in DOMAIN queue /\ queue'[j] = queue[j + 1]
        /\ \A j \in DOMAIN queue' : 1 < j + 1
    <3>1. queue \in Seq(Results)
      BY TypeParts
    <3> QED
      BY <1>2, <3>1, TailOfQueue
  <2>3. \A i \in DOMAIN queue : queue[i] \in Results /\ queue[i].n \in Nat
    BY PlacesTyped, ResultParts
  <2>4. \A j \in DOMAIN queue' : queue'[j].s = queue[1].s => queue[1].n < queue'[j].n
    BY <2>2 DEF Apart
  <2>5. \A s \in Sessions : \A i \in DOMAIN got[s] :
          queue[1].s = s => got[s][i].n < queue[1].n /\ got[s][i].n <= queue[1].n
    <3>1. \A s \in Sessions : \A i \in DOMAIN got[s] : queue[1].s = s => got[s][i].n < queue[1].n
      BY <2>2 DEF Ahead
    <3>2. \A s \in Sessions : \A i \in DOMAIN got[s] : got[s][i].n \in Nat
      BY ReceiptsFinite
    <3> QED
      BY <2>2, <2>3, <3>1, <3>2
  <2>6. \A s \in Sessions : \A i \in DOMAIN got[s] : \A j \in DOMAIN queue' :
          queue'[j].s = s => got[s][i].n < queue'[j].n
    <3> SUFFICES ASSUME NEW s \in Sessions, NEW i \in DOMAIN got[s], NEW j \in DOMAIN queue',
                        queue'[j].s = s
                 PROVE  got[s][i].n < queue'[j].n
      OBVIOUS
    <3>1. \A k \in DOMAIN queue : queue[k].s = s => got[s][i].n < queue[k].n
      BY DEF Ahead
    <3>2. j + 1 \in DOMAIN queue /\ queue'[j] = queue[j + 1]
      BY <2>2
    <3> QED
      BY <3>1, <3>2
  <2> QED
    BY <2>1, <2>2, <2>4, <2>5, <2>6 DEF Ahead
<1> QED
  BY <1>1, <1>2

(* The order is kept when the worker's result reaches the endpoint.        *)
LEMMA AheadReached ==
  ASSUME TypeOK, Working, Ahead, NEW w \in Busy, NEW reply \in Replies, Reach(w, reply),
         UNCHANGED <<cfg, queue>>, Busy' = Busy, \A v \in Busy : wk'[v].r = wk[v].r
  PROVE  Ahead'
<1> SUFFICES ASSUME OneWorker PROVE Ahead'
  BY DEF Ahead, OneWorker
<1>1. PICK s \in Sessions : s = wk[w].r.s
  BY BusyParts
<1>2. PICK n \in Nat : n = wk[w].r.n
  BY BusyParts
<1>3. PICK m \in Nat :
        /\ m \notin DOMAIN got[s] /\ DOMAIN got'[s] = DOMAIN got[s] \cup {m}
        /\ \A i \in DOMAIN got[s] : i \in Nat /\ i < m /\ got'[s][i] = got[s][i]
        /\ got'[s][m].n = n
  BY <1>1, <1>2, Reached
<1>4. \A t \in Sessions : t # s => got'[t] = got[t]
  BY <1>1, Reached
<1>5. \A v \in Busy : v = w
  BY DEF OneWorker, Busy
<1>6. n <= n /\ ~(m < m) /\ \A i \in DOMAIN got[s] : ~(m < i)
  BY <1>3
<1>7. \A i \in DOMAIN got[s] : got[s][i].n <= n
  BY <1>1, <1>2 DEF Ahead
<1>8. \A j \in DOMAIN queue : queue[j].s = s => n < queue[j].n
  BY <1>1, <1>2 DEF Ahead
<1>9. \A i \in DOMAIN got'[s] :
        /\ \A v \in Busy' : wk'[v].r.s = s => got'[s][i].n <= wk'[v].r.n
        /\ \A j \in DOMAIN queue' : queue'[j].s = s => got'[s][i].n < queue'[j].n
        /\ \A j \in DOMAIN got'[s] : i < j => got'[s][i].n <= got'[s][j].n
  <2>1. \A i \in DOMAIN got'[s] : \A v \in Busy' : wk'[v].r.s = s => got'[s][i].n <= wk'[v].r.n
    BY <1>2, <1>3, <1>5, <1>6, <1>7
  <2>2. \A i \in DOMAIN got'[s] : \A j \in DOMAIN queue' :
          queue'[j].s = s => got'[s][i].n < queue'[j].n
    BY <1>3, <1>8 DEF Ahead
  <2>3. \A i, j \in DOMAIN got'[s] : i < j => got'[s][i].n <= got'[s][j].n
    BY <1>3, <1>6, <1>7 DEF Ahead
  <2> QED
    BY <2>1, <2>2, <2>3
<1>10. \A v \in Busy' : \A j \in DOMAIN queue' : queue'[j].s = wk'[v].r.s => wk'[v].r.n < queue'[j].n
  BY DEF Ahead
<1>11. ASSUME NEW t \in Sessions, t # s, NEW i \in DOMAIN got'[t]
       PROVE  /\ \A v \in Busy' : wk'[v].r.s = t => got'[t][i].n <= wk'[v].r.n
              /\ \A j \in DOMAIN queue' : queue'[j].s = t => got'[t][i].n < queue'[j].n
              /\ \A j \in DOMAIN got'[t] : i < j => got'[t][i].n <= got'[t][j].n
  BY <1>4, <1>11 DEF Ahead
<1> QED
  BY <1>9, <1>10, <1>11 DEF Ahead

(* The order is inductive.                                                 *)
LEMMA StepAhead ==
  TypeOK /\ Working /\ Numbered /\ Apart /\ Answers /\ Ahead /\ [Next]_vars => Ahead'
<1> SUFFICES ASSUME TypeOK, Working, Numbered, Apart, Answers, Ahead, [Next]_vars PROVE Ahead'
  OBVIOUS
<1>1. CASE UNCHANGED <<cfg, queue, wk, got>>
  BY <1>1 DEF Ahead, OneWorker, Busy
<1>2. CASE \E s \in Sessions : PumpMoves(s)
  <2>1. PICK s \in Sessions : PumpMoves(s)
    BY <1>2
  <2>2. UNCHANGED <<cfg, wk, ends, got>> /\ Busy' = Busy
    BY <2>1 DEF PumpMoves, Busy
  <2>3. CASE Pushes(s)
    BY <2>2, <2>3, AheadPushes DEF Answers
  <2>4. CASE UNCHANGED queue
    BY <2>2, <2>4 DEF Ahead, OneWorker
  <2> QED
    BY <2>1, <2>3, <2>4 DEF PumpMoves, PumpShape, Pumps, Ceases, Drops
<1>3. CASE \E w \in cfg.workers : WorkerMoves(w)
  <2>1. PICK w \in cfg.workers : WorkerMoves(w)
    BY <1>3
  <2>2. UNCHANGED cfg
    BY <2>1 DEF WorkerMoves
  <2>3. CASE UNCHANGED got
    BY <2>1, <2>2, <2>3, WorkerKeeps, AheadKept
  <2>4. CASE Retries(w) \/ \E how \in Endings : Returns(w, how)
    <3>1. /\ w \in Busy /\ Busy' = Busy /\ queue' = queue /\ wk'[w].r = wk[w].r
          /\ \A v \in Busy : v # w => wk'[v] = wk[v]
          /\ UNCHANGED got \/ \E reply \in Replies : Reach(w, reply)
      BY <2>1, <2>4 DEF Retries, Returns, Unheard, Heard, Sending, KeepsResult, WorkerMoves,
                        WorkerShape, Busy, Replies
    <3> QED
      BY <2>2, <2>3, <3>1, AheadReached
  <2> QED
    BY <2>1, <2>3, <2>4 DEF WorkerMoves, WorkerShape, Takes, Leaves, Quits, Starts, Waits
<1> QED
  BY <1>1, <1>2, <1>3, Steps DEF vars, inputVars, OwnerMoves

-----------------------------------------------------------------------------
(* The inductive invariant.                                                *)

(* The invariant holds initially.                                          *)
LEMMA InitIInv == Init => IInv
<1> SUFFICES ASSUME Init PROVE IInv
  OBVIOUS
<1>1. /\ cfg \in Configs /\ ctx = "live" /\ live = Sessions
      /\ made = [s \in Sessions |-> 0] /\ pump = [s \in Sessions |-> None] /\ queue = <<>>
      /\ sinks = [s \in Sessions |-> cfg.sinks]
      /\ wk = [w \in cfg.workers |-> Idle]
      /\ dropped = {} /\ ends = {} /\ got = [s \in Sessions |-> <<>>]
  BY DEF Init
<1>2. cfg \in [workers : SUBSET Workers, dropPartial : BOOLEAN,
               deadLetter : BOOLEAN, sinks : Seq(Sinks), results : Nat]
      /\ QueueSize \in Nat \ {0} /\ MaxRetry \in Nat
  BY <1>1, ResultAssumption
<1>3. Idle \in WorkerStates /\ Idle.at = "idle" /\ Idle.tries = 0
  BY DEF Idle, WorkerStates
<1>4. Busy = {} /\ \A s \in Sessions : ~Holds(s)
  BY <1>1, <1>3 DEF Busy, Holds
<1>5. TypeOK
  <2>1. queue \in Seq(Results) /\ Len(queue) <= QueueSize
    BY <1>1, <1>2
  <2>2. wk \in [cfg.workers -> WorkerStates]
    BY <1>1, <1>3
  <2>3. sinks \in [Sessions -> Seq(Sinks)]
    BY <1>1, <1>2
  <2>4. got \in [Sessions -> Seq([n : Nat, reply : Replies])]
    BY <1>1
  <2>5. made \in [Sessions -> Nat] /\ pump \in [Sessions -> Results \cup {None, Stopped}]
    BY <1>1
  <2> QED
    BY <1>1, <2>1, <2>2, <2>3, <2>4, <2>5 DEF TypeOK
<1>6. DOMAIN queue = {} /\ \A s \in Sessions : DOMAIN got[s] = {}
  BY <1>1
<1>7. Numbered /\ Apart
  BY <1>1, <1>4, <1>6 DEF Numbered, Apart
<1>8. Working
  BY <1>1, <1>2, <1>3, <1>4 DEF Working
<1>9. Listed
  <2>1. EndsOnce
    BY <1>1 DEF EndsOnce
  <2>2. \A s \in Sessions : sinks[s] \in {cfg.sinks, <<>>}
    BY <1>1
  <2> QED
    BY <1>1, <1>4, <2>1, <2>2 DEF Listed
<1>10. Answers
  <2>1. ASSUME NEW s \in Sessions, NEW n \in Nat
        PROVE  Receipts(s, n) = {} /\ Cardinality(Receipts(s, n)) <= MaxRetry + 1
    <3>1. Receipts(s, n) = {}
      BY <1>6 DEF Receipts
    <3>2. Cardinality(Receipts(s, n)) = 0
      BY <3>1, FS_EmptySet
    <3> QED
      BY <1>2, <3>1, <3>2
  <2> QED
    BY <1>1, <1>4, <1>6, <2>1 DEF Answers, Owned, Attempted, Told
<1>11. Ahead
  BY <1>4, <1>6 DEF Ahead
<1>12. OnlyPartialsDropped /\ IsFiniteSet(dropped)
  BY <1>1, FS_EmptySet DEF OnlyPartialsDropped
<1> QED
  BY <1>5, <1>7, <1>8, <1>9, <1>10, <1>11, <1>12 DEF IInv

(* Every step keeps the invariant.                                         *)
LEMMA StepIInv == IInv /\ [Next]_vars => IInv'
BY StepTyped, StepWorking, StepNumbered, StepApart, StepListed, StepAnswers, StepAhead,
   StepDropped DEF IInv

(* The inductive invariant holds of every reachable state.                 *)
THEOREM ResultPathIInv == Spec => []IInv
BY InitIInv, StepIInv, PTL DEF Spec

-----------------------------------------------------------------------------
(* What the invariant says.                                                *)

(* As many values as arguments of a function that takes each value once.   *)
LEMMA ValuesCount ==
  ASSUME NEW S, IsFiniteSet(S), NEW f, DOMAIN f = S, f = [x \in S |-> f[x]],
         \A x, y \in S : f[x] = f[y] => x = y
  PROVE  LET T == {f[x] : x \in S} IN
         IsFiniteSet(T) /\ Cardinality(T) = Cardinality(S)
<1> DEFINE T == {f[x] : x \in S}
<1>1. f \in [S -> T]
  OBVIOUS
<1>2. f \in Bijection(S, T)
  BY <1>1 DEF Bijection, Injection, Surjection, IsInjective
<1>3. ExistsBijection(S, T)
  BY <1>2 DEF ExistsBijection
<1> QED
  BY <1>3, FS_Bijection

(* Two finite sets that have nothing in common.                            *)
LEMMA DisjointCount ==
  ASSUME NEW S, IsFiniteSet(S), NEW T, IsFiniteSet(T), S \cap T = {}
  PROVE  IsFiniteSet(S \cup T) /\ Cardinality(S \cup T) = Cardinality(S) + Cardinality(T)
<1>1. Cardinality(S \cap T) = 0
  BY FS_EmptySet
<1>2. Cardinality(S) \in Nat /\ Cardinality(T) \in Nat
  BY FS_CardinalityType
<1>3. /\ IsFiniteSet(S \cup T)
      /\ Cardinality(S \cup T) = Cardinality(S) + Cardinality(T) - Cardinality(S \cap T)
  BY FS_Union
<1> QED
  BY <1>1, <1>2, <1>3

InPumps == {pump[s] : s \in {t \in Sessions : Holds(t)}}
Taken == {wk[w].r : w \in Busy}

(* Each place holds as many results as it has room taken.                  *)
LEMMA PlacesCount ==
  ASSUME IInv
  PROVE  /\ IsFiniteSet(InPumps) /\ IsFiniteSet(ToSet(queue)) /\ IsFiniteSet(Taken)
         /\ IsFiniteSet(dropped)
         /\ Cardinality(ToSet(queue)) = Len(queue) /\ Cardinality(Taken) = Cardinality(Busy)
<1>1. IsFiniteSet(InPumps)
  <2> DEFINE H == {t \in Sessions : Holds(t)}
             f == [s \in H |-> pump[s]]
  <2>1. IsFiniteSet(H)
    BY ResultAssumption, FS_Subset
  <2>2. \A s, t \in H : f[s] = f[t] => s = t
    BY DEF IInv, Numbered
  <2>3. f = [x \in H |-> f[x]] /\ DOMAIN f = H
    OBVIOUS
  <2>4. IsFiniteSet({f[x] : x \in H})
    <3> HIDE DEF f, H
    <3> QED
      BY <2>1, <2>2, <2>3, ValuesCount
  <2>5. InPumps = {f[x] : x \in H}
    BY DEF InPumps
  <2> QED
    BY <2>4, <2>5
<1>2. IsFiniteSet(ToSet(queue)) /\ Cardinality(ToSet(queue)) = Len(queue)
  <2>1. queue \in Seq(Results)
    BY TypeParts DEF IInv
  <2>2. /\ DOMAIN queue = 1..Len(queue) /\ Len(queue) \in Nat
        /\ queue = [x \in 1..Len(queue) |-> queue[x]]
    BY <2>1
  <2>3. \A i, j \in 1..Len(queue) : queue[i] = queue[j] => i = j
    <3>1. \A i \in 1..Len(queue) : queue[i].n \in Nat /\ i \in Nat
      BY <2>2, PlacesTyped, ResultParts DEF IInv
    <3>2. \A i, j \in 1..Len(queue) : i < j => queue[i] # queue[j]
      BY <2>2, <3>1 DEF IInv, Apart
    <3> QED
      BY <3>1, <3>2
  <2>4. IsFiniteSet(1..Len(queue)) /\ Cardinality(1..Len(queue)) = Len(queue)
    <3>1. PICK n \in Nat : n = Len(queue)
      BY <2>2
    <3>2. IsFiniteSet(1..n) /\ Cardinality(1..n) = IF 1 > n THEN 0 ELSE n - 1 + 1
      BY FS_Interval
    <3>3. (IF 1 > n THEN 0 ELSE n - 1 + 1) = n
      OBVIOUS
    <3> QED
      BY <3>1, <3>2, <3>3
  <2>5. ToSet(queue) = {queue[x] : x \in 1..Len(queue)}
    BY <2>2 DEF ToSet
  <2> QED
    BY <2>2, <2>3, <2>4, <2>5, ValuesCount
<1>3. IsFiniteSet(Taken) /\ Cardinality(Taken) = Cardinality(Busy)
  <2> DEFINE f == [w \in Busy |-> wk[w].r]
  <2>1. IsFiniteSet(Busy)
    <3>1. Busy \subseteq Workers
      BY TypeParts DEF IInv, Busy
    <3> QED
      BY <3>1, ResultAssumption, FS_Subset
  <2>2. \A v, w \in Busy : f[v] = f[w] => v = w
    BY DEF IInv, Apart, Same
  <2>3. f = [x \in Busy |-> f[x]] /\ DOMAIN f = Busy
    OBVIOUS
  <2>4. IsFiniteSet({f[x] : x \in Busy}) /\ Cardinality({f[x] : x \in Busy}) = Cardinality(Busy)
    <3> HIDE DEF f
    <3> QED
      BY <2>1, <2>2, <2>3, ValuesCount
  <2>5. Taken = {f[x] : x \in Busy}
    BY DEF Taken
  <2> QED
    BY <2>4, <2>5
<1> QED
  BY <1>1, <1>2, <1>3 DEF IInv

(* Places that are apart are counted one by one.                           *)
LEMMA ApartIsOnePlace == IInv => OnePlace
<1> SUFFICES ASSUME IInv PROVE OnePlace
  OBVIOUS
<1>1. InPumps \cap (ToSet(queue) \cup Taken \cup dropped \cup {e.r : e \in ends}) = {}
  <2>1. ASSUME NEW s \in Sessions, Holds(s) PROVE ~Passed(pump[s])
    <3>1. PICK p : p = pump[s]
      OBVIOUS
    <3>2. p.s = s /\ p.n = made[s] /\ made[s] \in Nat
      BY <2>1, <3>1, TypeParts DEF IInv, Numbered
    <3> QED
      BY <2>1, <3>1, <3>2 DEF Passed
  <2>2. \A r \in ToSet(queue) \cup Taken \cup dropped \cup {e.r : e \in ends} : Passed(r)
    BY DEF IInv, Numbered, ToSet, Taken
  <2> QED
    BY <2>1, <2>2 DEF InPumps
<1>2. ToSet(queue) \cap (Taken \cup dropped \cup {e.r : e \in ends}) = {}
  BY DEF IInv, Apart, Same, ToSet, Taken
<1>3. dropped \cap (Taken \cup {e.r : e \in ends}) = {}
  BY DEF IInv, Apart, Same, Taken
<1>4. Cardinality(InPumps \cup ToSet(queue) \cup Taken \cup dropped)
        = Cardinality(InPumps) + Len(queue) + Cardinality(Busy) + Cardinality(dropped)
  <2>1. /\ IsFiniteSet(InPumps \cup ToSet(queue))
        /\ Cardinality(InPumps \cup ToSet(queue)) = Cardinality(InPumps) + Len(queue)
    <3>1. InPumps \cap ToSet(queue) = {}
      BY <1>1
    <3> QED
      BY <3>1, PlacesCount, DisjointCount
  <2>2. (InPumps \cup ToSet(queue)) \cap Taken = {}
    BY <1>1, <1>2
  <2>3. /\ IsFiniteSet(InPumps \cup ToSet(queue) \cup Taken)
        /\ Cardinality(InPumps \cup ToSet(queue) \cup Taken)
             = Cardinality(InPumps) + Len(queue) + Cardinality(Busy)
    BY <2>1, <2>2, PlacesCount, DisjointCount
  <2>4. (InPumps \cup ToSet(queue) \cup Taken) \cap dropped = {}
    BY <1>1, <1>2, <1>3
  <2> QED
    BY <2>3, <2>4, PlacesCount, DisjointCount
<1>5. {e.r : e \in ends} \cap (InPumps \cup ToSet(queue) \cup dropped) = {}
  BY <1>1, <1>2, <1>3
<1> QED
  BY <1>4, <1>5 DEF OnePlace, InPumps, Taken

(* One worker keeps the order.                                             *)
LEMMA AheadIsOrdered == IInv => OrderedByOneWorker
<1> SUFFICES ASSUME IInv, Cardinality(cfg.workers) = 1,
                    NEW s \in Sessions, NEW i \in DOMAIN got[s], NEW j \in DOMAIN got[s], i < j
             PROVE  got[s][i].n <= got[s][j].n
  BY DEF OrderedByOneWorker
<1>1. IsFiniteSet(cfg.workers)
  BY TypeParts, ResultAssumption, FS_Subset DEF IInv
<1>2. \E w : cfg.workers = {w}
  BY <1>1, FS_Singleton
<1> QED
  BY <1>2 DEF IInv, Ahead, OneWorker

(* From ResultPathInv: between pump and sink a result is at one place, only*)
(* partial results are dropped while their session is open, and a single   *)
(* worker keeps the order; whatever overlaps, is slow or is shut down.     *)
THEOREM OnePlaceAtATime == Spec => []ResultPathInv
<1>1. IInv => ResultPathInv
  BY ApartIsOnePlace, AheadIsOrdered DEF IInv, ResultPathInv
<1> QED
  BY <1>1, ResultPathIInv, PTL

(* From HTTPCallbackSink.Send: a result ends once for each sink, and for a *)
(* callback as its endpoint has answered it: no refusal without a 4xx and  *)
(* no 4xx without a refusal, no result given up while waiting that has had *)
(* all of its attempts, and what ran out of them goes to a dead-letter sink*)
(* exactly if there is one.                                                *)
THEOREM SendsEndAsAnswered == Spec => []EndsAsAnswered
<1>1. IInv => EndsAsAnswered
  BY DEF IInv, Listed, Answers, Told, Agrees, EndsOnce, DeadLetterKept, EndsAsAnswered
<1> QED
  BY <1>1, ResultPathIInv, PTL

(* From dispatch: a sink that fails or hangs takes nothing from the others *)
(* on the list, however long that is.                                      *)
THEOREM EachSinkServed == Spec => []EverySinkServed
<1>1. ASSUME IInv, NEW e \in ends, ctx = "live", \A w \in Busy : wk[w].r # e.r
      PROVE  {f.sink : f \in {g \in ends : g.r = e.r}} = ToSet(cfg.sinks)
  <2>1. ToSet(cfg.sinks) = {cfg.sinks[i] : i \in DOMAIN cfg.sinks}
    BY DEF ToSet
  <2>2. \A i \in DOMAIN cfg.sinks : Ended(e.r, cfg.sinks[i])
    BY <1>1 DEF IInv, Listed
  <2>3. \A f \in ends : \E i \in DOMAIN cfg.sinks : f.sink = cfg.sinks[i]
    BY <1>1 DEF IInv, Listed
  <2> QED
    BY <2>1, <2>2, <2>3 DEF Ended
<1>2. IInv => EverySinkServed
  BY <1>1 DEF EverySinkServed
<1> QED
  BY <1>2, ResultPathIInv, PTL

(* From the retry loop of Send: an endpoint gets a result again only after *)
(* a 5xx or no answer, at most MaxRetry times, and a Send counts as a      *)
(* success exactly if the endpoint said so.                                *)
THEOREM RetriesAreJustified == Spec => []ResentOnlyIfUnanswered
<1>1. ASSUME IInv, NEW s \in Sessions, NEW n \in 1..cfg.results
      PROVE  (\E e \in ends : e.r.s = s /\ e.r.n = n /\ e.sink = "http" /\ e.how = "ok")
               <=> \E i \in Receipts(s, n) : got[s][i].reply = "2xx"
  <2>1. (\E e \in ends : e.r.s = s /\ e.r.n = n /\ e.sink = "http" /\ e.how = "ok")
          => \E i \in Receipts(s, n) : got[s][i].reply = "2xx"
    BY <1>1 DEF IInv, Answers, Told, Agrees
  <2>2. ASSUME NEW i \in Receipts(s, n), got[s][i].reply = "2xx"
        PROVE  \E e \in ends : e.r.s = s /\ e.r.n = n /\ e.sink = "http" /\ e.how = "ok"
    <3>1. i \in DOMAIN got[s] /\ got[s][i].n = n
      BY <2>2 DEF Receipts
    <3>2. OwnedBy(s, n)
      BY <1>1, <3>1 DEF IInv, Answers, Owned
    <3>3. ~\E w \in Busy : Trying(w) /\ wk[w].r.s = s /\ wk[w].r.n = n
      BY <1>1, <2>2 DEF IInv, Answers, OpenFor
    <3>4. PICK e \in ends : e.sink = "http" /\ e.r.s = s /\ e.r.n = n
      BY <3>2, <3>3 DEF OwnedBy
    <3>5. e.how = "ok"
      BY <1>1, <2>2, <3>4 DEF IInv, Answers, Told, Agrees
    <3> QED
      BY <3>4, <3>5
  <2> QED
    BY <2>1, <2>2
<1>2. ASSUME IInv, NEW s \in Sessions, NEW n \in 1..cfg.results
      PROVE  /\ Cardinality(Receipts(s, n)) <= MaxRetry + 1
             /\ \A i, j \in Receipts(s, n) : i < j => got[s][i].reply = "again"
  <2>1. n \in Nat
    BY <1>2, TypeParts DEF IInv
  <2> QED
    BY <1>2, <2>1 DEF IInv, Answers, Attempted
<1>3. IInv => ResentOnlyIfUnanswered
  BY <1>1, <1>2 DEF ResentOnlyIfUnanswered
<1> QED
  BY <1>3, ResultPathIInv, PTL
=============================================================================
