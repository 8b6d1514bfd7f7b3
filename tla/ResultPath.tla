----------------------------- MODULE ResultPath -----------------------------
(***************************************************************************)
(* internal/result and the coordinator's result pump: the way of a result  *)
(* from the ResultQueue of its session to the sinks.  A pump per session   *)
(* pushes into the dispatcher's one queue under the drop policy; workers   *)
(* take results in turn, copy the session's list of sinks and serve one    *)
(* after the other: a DataChannel, or an HTTP callback with retries under  *)
(* one SendTimeout.                                                        *)
(*                                                                         *)
(* The endpoint of a callback answers as it likes, late or never; a POST   *)
(* may reach it although the answer is lost.  A timer that is armed may    *)
(* fire at any moment.  A result is its session, its number there and      *)
(* whether it is final.  CallbackPool and a dead-letter sink exist in the  *)
(* package but the gateway makes neither; the second is a configuration    *)
(* here.                                                                   *)
(*                                                                         *)
(* A definition X_Bug is X with a bug that the runs are known to find; no  *)
(* action uses it.                                                         *)
(***************************************************************************)
EXTENDS Naturals, Sequences, SequencesExt, FiniteSets

CONSTANTS
  None, Stopped,
  Sessions,
  Workers,     \* Config.Workers, at most
  Channels,    \* the DataChannels a session may have
  Configs,     \* the configurations to check
  QueueSize,   \* Config.QueueSize
  MaxRetry     \* HTTPCallbackSink.MaxRetry

Results == [s : Sessions, n : Nat \ {0}, final : BOOLEAN]

(* The sinks of a session: its HTTP callback and the DataChannels of its   *)
(* peers, each of which is registered once.                                *)
Sinks == {"http"} \cup Channels

ASSUME ResultAssumption ==
  /\ QueueSize \in Nat \ {0} /\ MaxRetry \in Nat
  /\ IsFiniteSet(Sessions) /\ IsFiniteSet(Workers) /\ "http" \notin Channels
  /\ Configs \subseteq [workers : SUBSET Workers, dropPartial : BOOLEAN,
                        deadLetter : BOOLEAN, sinks : Seq(Sinks), results : Nat]
  /\ \A c \in Configs : \A i, j \in DOMAIN c.sinks : c.sinks[i] = c.sinks[j] => i = j
  /\ None # Stopped /\ None \notin Results /\ Stopped \notin Results

VARIABLES
  cfg,      \* the workers started, DropPartialWhenFull, is DeadLetter set, and
            \* the sinks registered for a session, in order; and a bound, the
            \* results of a session
  ctx,      \* the dispatcher's context: the process
  live,     \* the sessions whose context is live
  made,     \* results the pump of each session has taken
  pump,     \* the result each pump is pushing
  queue,    \* Dispatcher.queue
  sinks,    \* Dispatcher.sinks
  wk,       \* the workers: see WorkerStates
  dropped,  \* the results Push has dropped
  ends,     \* how the sends ended, one record for each result and sink
  got       \* what the callback of a session was sent, and the answers

inputVars == <<made, pump, queue, dropped>>
vars == <<cfg, ctx, live, inputVars, sinks, wk, ends, got>>

(* How a Send ends: it returned nil; the dead-letter sink took the result, *)
(* or returned an error itself; the endpoint refused it (4xx); the context *)
(* was done before a retry; no retry was left; no request could be made of *)
(* it; the DataChannel was shut or full.                                   *)
Endings == {"ok", "dead", "lost", "refused", "late", "failed", "invalid", "shut"}

(* What comes of a request that has reached the endpoint: the last is a 5xx*)
(* or an answer that is lost.                                              *)
Replies == {"2xx", "4xx", "again"}

WorkerStates ==
  [at : {"idle", "next", "post", "backoff", "done"}, r : Results \cup {None},
   todo : Seq(Sinks), tries : Nat, late : BOOLEAN]

Idle == [at |-> "idle", r |-> None, todo |-> <<>>, tries |-> 0, late |-> FALSE]

TypeOK ==
  /\ cfg \in Configs /\ ctx \in {"live", "done"} /\ live \subseteq Sessions
  /\ made \in [Sessions -> Nat] /\ pump \in [Sessions -> Results \cup {None, Stopped}]
  /\ queue \in Seq(Results) /\ Len(queue) <= QueueSize
  /\ sinks \in [Sessions -> Seq(Sinks)]
  /\ wk \in [cfg.workers -> WorkerStates]
  /\ dropped \subseteq Results
  /\ ends \subseteq [r : Results, sink : Sinks, how : Endings]
  /\ got \in [Sessions -> Seq([n : Nat, reply : Replies])]

Init ==
  /\ cfg \in Configs /\ ctx = "live" /\ live = Sessions
  /\ made = [s \in Sessions |-> 0] /\ pump = [s \in Sessions |-> None] /\ queue = <<>>
  /\ sinks = [s \in Sessions |-> cfg.sinks]
  /\ wk = [w \in cfg.workers |-> Idle]
  /\ dropped = {} /\ ends = {} /\ got = [s \in Sessions |-> <<>>]

-----------------------------------------------------------------------------
(* The pump of a session, and Push.                                        *)

Holds(s) == pump[s] \notin {None, Stopped}

PumpTakes(s) ==
  /\ pump[s] = None /\ made[s] < cfg.results
  /\ made' = [made EXCEPT ![s] = @ + 1]
  /\ \E f \in BOOLEAN : pump' = [pump EXCEPT ![s] = [s |-> s, n |-> made'[s], final |-> f]]
  /\ UNCHANGED <<queue, dropped>>

PumpStops(s) ==
  /\ pump[s] = None /\ s \notin live
  /\ pump' = [pump EXCEPT ![s] = Stopped]
  /\ UNCHANGED <<made, queue, dropped>>

PushRoom_Unchecked(s) ==
  /\ Holds(s)
  /\ queue' = Append(queue, pump[s])
  /\ pump' = [pump EXCEPT ![s] = None]
  /\ UNCHANGED <<made, dropped>>

PushRoom(s) ==
  /\ Holds(s) /\ Len(queue) < QueueSize
  /\ queue' = Append(queue, pump[s])
  /\ pump' = [pump EXCEPT ![s] = None]
  /\ UNCHANGED <<made, dropped>>

MayDrop_Any(r) == TRUE
MayDrop(r) == cfg.dropPartial /\ ~r.final

(* There is no room, and the result is a partial one.                      *)
PushDrops(s) ==
  /\ Holds(s) /\ Len(queue) = QueueSize /\ MayDrop(pump[s])
  /\ dropped' = dropped \cup {pump[s]}
  /\ pump' = [pump EXCEPT ![s] = None]
  /\ UNCHANGED <<made, queue>>

PushCancelled_Never(s) == FALSE /\ UNCHANGED inputVars

(* The session's context ends before there is room, or is found done.      *)
PushCancelled(s) ==
  /\ Holds(s) /\ s \notin live
  /\ dropped' = dropped \cup {pump[s]}
  /\ pump' = [pump EXCEPT ![s] = None]
  /\ UNCHANGED <<made, queue>>

PumpStep(s) ==
  /\ PumpTakes(s) \/ PumpStops(s) \/ PushRoom(s) \/ PushDrops(s) \/ PushCancelled(s)
  /\ UNCHANGED <<cfg, ctx, live, sinks, wk, ends, got>>

-----------------------------------------------------------------------------
(* The ends of a session, whose cleanup removes the sinks, and of the      *)
(* process.                                                                *)

UnregisterSinks(s) ==
  /\ s \notin live
  /\ sinks' = [sinks EXCEPT ![s] = <<>>]
  /\ UNCHANGED <<ctx, live>>

SessionCloses(s) ==
  /\ live' = live \ {s}
  /\ UNCHANGED <<ctx, sinks>>

Shutdown ==
  /\ ctx' = "done"
  /\ UNCHANGED <<live, sinks>>

OwnerStep ==
  /\ \/ \E s \in Sessions : UnregisterSinks(s) \/ SessionCloses(s)
     \/ Shutdown
  /\ UNCHANGED <<cfg, inputVars, wk, ends, got>>

-----------------------------------------------------------------------------
(* A worker: its loop, and dispatch with its copy of the list of sinks.    *)

WorkerStops(w) ==
  /\ wk[w].at = "idle" /\ ctx = "done"
  /\ wk' = [wk EXCEPT ![w].at = "done"]
  /\ UNCHANGED <<queue, ends, got>>

Take_Newest(w) ==
  /\ wk[w].at = "idle" /\ queue # <<>>
  /\ queue' = Front(queue)
  /\ wk' = [wk EXCEPT ![w] = [Idle EXCEPT !.at = "next", !.r = Last(queue),
                                          !.todo = sinks[Last(queue).s]]]
  /\ UNCHANGED <<ends, got>>

Take(w) ==
  /\ wk[w].at = "idle" /\ queue # <<>>
  /\ queue' = Tail(queue)
  /\ wk' = [wk EXCEPT ![w] = [Idle EXCEPT !.at = "next", !.r = Head(queue),
                                          !.todo = sinks[Head(queue).s]]]
  /\ UNCHANGED <<ends, got>>

(* The list is done, or the process is shutting down.                      *)
Leave_Requeues(w) ==
  /\ wk[w].at = "next" /\ (wk[w].todo = <<>> \/ ctx = "done")
  /\ wk' = [wk EXCEPT ![w] = Idle]
  /\ queue' = IF wk[w].todo # <<>> /\ Len(queue) < QueueSize THEN Append(queue, wk[w].r) ELSE queue
  /\ UNCHANGED <<ends, got>>

Leave(w) ==
  /\ wk[w].at = "next" /\ (wk[w].todo = <<>> \/ ctx = "done")
  /\ wk' = [wk EXCEPT ![w] = Idle]
  /\ UNCHANGED <<queue, ends, got>>

(* The next sink gets a timeout of its own.                                *)
SendTo(w) ==
  /\ wk[w].at = "next" /\ wk[w].todo # <<>> /\ ctx = "live"
  /\ wk' = [wk EXCEPT ![w].at = "post", ![w].tries = 0, ![w].late = FALSE]
  /\ UNCHANGED <<queue, ends, got>>

Sink(w) == Head(wk[w].todo)
HTTP(w) == wk[w].at = "post" /\ Sink(w) = "http"

(* Send returns; dispatch goes on whether with an error or not.            *)
SendReturns_Aborts(w, how) ==
  /\ ends' = ends \cup {[r |-> wk[w].r, sink |-> Sink(w), how |-> how]}
  /\ wk' = [wk EXCEPT ![w].at = "next",
                      ![w].todo = IF how \in {"ok", "dead"} THEN Tail(@) ELSE <<>>]
  /\ UNCHANGED queue

SendReturns(w, how) ==
  /\ ends' = ends \cup {[r |-> wk[w].r, sink |-> Sink(w), how |-> how]}
  /\ wk' = [wk EXCEPT ![w].at = "next", ![w].todo = Tail(@)]
  /\ UNCHANGED queue

Reach(w, reply) ==
  got' = [got EXCEPT ![wk[w].r.s] =
            Append(@, [n |-> wk[w].r.n, reply |-> reply])]

(* DataChannelSink.Send: the channel is shut or its buffer full, or not.   *)
SendData(w) ==
  /\ wk[w].at = "post" /\ Sink(w) # "http"
  /\ SendReturns(w, "ok") \/ SendReturns(w, "shut")
  /\ UNCHANGED got

-----------------------------------------------------------------------------
(* HTTPCallbackSink.Send.                                                  *)

(* sendCtx: SendTimeout is over, or the process is shutting down.          *)
Over(w) == wk[w].late \/ ctx = "done"

(* The loop is done: the dead-letter sink, if there is one. It is given    *)
(* the context of this Send, which may be over, and its error is returned. *)
Exhausted(w) ==
  \E how \in (IF cfg.deadLetter THEN {"dead", "lost"} ELSE {"failed"}) : SendReturns(w, how)

(* An attempt has failed in a way that may pass.                           *)
Fails(w, late) ==
  IF wk[w].tries < MaxRetry
  THEN /\ wk' = [wk EXCEPT ![w].at = "backoff", ![w].tries = @ + 1, ![w].late = @ \/ late]
       /\ UNCHANGED <<queue, ends>>
  ELSE Exhausted(w)

(* The payload cannot be marshalled, or no request made for the URL.       *)
CannotSend(w) ==
  /\ HTTP(w) /\ wk[w].tries = 0
  /\ SendReturns(w, "invalid")
  /\ UNCHANGED got

Accepted(w) == HTTP(w) /\ ~Over(w) /\ Reach(w, "2xx") /\ SendReturns(w, "ok")

Refused_Retried(w) == HTTP(w) /\ ~Over(w) /\ Reach(w, "4xx") /\ Fails(w, FALSE)
Refused(w) == HTTP(w) /\ ~Over(w) /\ Reach(w, "4xx") /\ SendReturns(w, "refused")

ServerError_Refused(w) ==
  HTTP(w) /\ ~Over(w) /\ Reach(w, "again") /\ SendReturns(w, "refused")
ServerError(w) == HTTP(w) /\ ~Over(w) /\ Reach(w, "again") /\ Fails(w, FALSE)

(* The connection fails before the request or before the answer arrives.   *)
NetworkError(w) ==
  HTTP(w) /\ ~Over(w) /\ (Reach(w, "again") \/ UNCHANGED got) /\ Fails(w, FALSE)

(* The time is over during the request, which counts as a network error.   *)
TimesOut_Never(w) == FALSE /\ UNCHANGED vars
TimesOut(w) ==
  HTTP(w) /\ (Reach(w, "again") \/ UNCHANGED got) /\ Fails(w, TRUE)

TimeIsUp(w) ==
  /\ wk[w].at = "backoff" /\ ~wk[w].late
  /\ wk' = [wk EXCEPT ![w].late = TRUE]
  /\ UNCHANGED <<queue, ends, got>>

Resume(w) ==
  /\ wk[w].at = "backoff" /\ ~Over(w)
  /\ wk' = [wk EXCEPT ![w].at = "post"]
  /\ UNCHANGED <<queue, ends, got>>

(* The context is done before a retry: no dead letter.                     *)
GivesUp(w) ==
  /\ wk[w].at = "backoff" /\ Over(w)
  /\ SendReturns(w, "late")
  /\ UNCHANGED got

(* What the endpoint, the network and the result may do or not do.         *)
Answered(w) ==
  CannotSend(w) \/ Accepted(w) \/ Refused(w) \/ ServerError(w) \/ NetworkError(w) \/ TimeIsUp(w)

WorkerRuns(w) ==
  WorkerStops(w) \/ Take(w) \/ Leave(w) \/ SendTo(w) \/ SendData(w)
    \/ TimesOut(w) \/ Resume(w) \/ GivesUp(w)

WorkerStep(A(_)) ==
  /\ \E w \in cfg.workers : A(w)
  /\ UNCHANGED <<cfg, ctx, live, made, pump, dropped, sinks>>

-----------------------------------------------------------------------------

Next == \/ \E s \in Sessions : PumpStep(s)
        \/ OwnerStep
        \/ WorkerStep(WorkerRuns) \/ WorkerStep(Answered)

Spec == Init /\ [][Next]_vars

(* The goroutines run and SendTimeout ends a Send; the endpoint need not   *)
(* answer. One condition is enough because results, retries and the changes*)
(* of the sinks are bounded.                                               *)
FairSpec ==
  Spec /\ WF_vars((\E s \in Sessions : PumpStep(s)) \/ WorkerStep(WorkerRuns))

-----------------------------------------------------------------------------
(* Properties.                                                             *)

Receipts(s, n) == {i \in DOMAIN got[s] : got[s][i].n = n}

Busy == {w \in cfg.workers : wk[w].at \notin {"idle", "done"}}

(* Every result a pump has taken is at one place, or was dropped, or has   *)
(* been through a worker: what no Send has ended for is one of these, and  *)
(* no result is at two places.                                             *)
OnePlace ==
  LET inPumps == {pump[s] : s \in {t \in Sessions : Holds(t)}}
      taken == {wk[w].r : w \in Busy}
      places == inPumps \cup ToSet(queue) \cup taken \cup dropped
  IN /\ Cardinality(places) = Cardinality(inPumps) + Len(queue) + Cardinality(Busy)
                                + Cardinality(dropped)
     /\ {e.r : e \in ends} \cap (inPumps \cup ToSet(queue) \cup dropped) = {}

(* The drop policy: while its session is open a final result is never      *)
(* thrown away for want of room, nor is any if DropPartialWhenFull is off. *)
OnlyPartialsDropped ==
  \A r \in dropped : r.s \in live => cfg.dropPartial /\ ~r.final

(* An endpoint is sent a result again only if its last answer was a 5xx or *)
(* did not come; after a 2xx or 4xx never, and at most MaxRetry times. A   *)
(* Send counts as a success only if the endpoint has said so.              *)
ResentOnlyIfUnanswered ==
  \A s \in Sessions : \A n \in 1 .. cfg.results :
    LET rs == Receipts(s, n) IN
    /\ Cardinality(rs) <= MaxRetry + 1
    /\ \A i, j \in rs : i < j => got[s][i].reply = "again"
    /\ (\E e \in ends : e.r.s = s /\ e.r.n = n /\ e.sink = "http" /\ e.how = "ok")
         <=> \E i \in rs : got[s][i].reply = "2xx"

(* A result ends once for each sink, and for a callback in a way that its  *)
(* endpoint's answers bear out: it is refused exactly if the endpoint has  *)
(* said 4xx, given up late only while an attempt was left, called invalid  *)
(* only if the endpoint has not seen it; and whatever runs out of attempts *)
(* is offered to the dead-letter sink, if there is one.                    *)
EndsAsAnswered ==
  /\ \A e, f \in ends : (e.r = f.r /\ e.sink = f.sink) => e = f
  /\ \A e \in ends : e.sink = "http" =>
       LET rs == Receipts(e.r.s, e.r.n) IN
       /\ e.how = "refused" <=> \E i \in rs : got[e.r.s][i].reply = "4xx"
       /\ e.how = "late" => Cardinality(rs) <= MaxRetry
       /\ e.how = "invalid" => rs = {}
       /\ e.how \in {"dead", "lost"} => cfg.deadLetter
       /\ e.how = "failed" => ~cfg.deadLetter

(* The endpoint gets the results of a session in the order the pump took   *)
(* them when there is one worker; with more of them there is no order.          *)
OrderedByOneWorker ==
  Cardinality(cfg.workers) = 1 =>
    \A s \in Sessions : \A i, j \in DOMAIN got[s] :
      i < j => got[s][i].n <= got[s][j].n

(* One sink that fails or hangs takes nothing from the next: while the     *)
(* process runs, a result that has been sent to one of the session's sinks *)
(* is sent to each of them before its worker leaves it.                    *)
EverySinkServed ==
  \A e \in ends :
    (ctx = "live" /\ \A w \in Busy : wk[w].r # e.r) =>
      {f.sink : f \in {g \in ends : g.r = e.r}} = ToSet(cfg.sinks)

(* Endpoints that never answer do not stop the dispatcher: everything that *)
(* was pushed is worked off.                                               *)
QueueDrains ==
  <>[](ctx = "live" => queue = <<>> /\ Busy = {})

(* After shutdown every worker ends, whatever its endpoint does, and each  *)
(* pump whose session was closed ends too, even if it was waiting for room.*)
AllStop ==
  <>[](/\ ctx = "done" => \A w \in cfg.workers : wk[w].at = "done"
       /\ \A s \in Sessions \ live : pump[s] = Stopped)

(* What holds of the results at any moment between pump and sink: each is in  *)
(* one place, only partial ones were dropped, and one worker keeps the order. *)
ResultPathInv == TypeOK /\ OnePlace /\ OnlyPartialsDropped /\ OrderedByOneWorker
=============================================================================
