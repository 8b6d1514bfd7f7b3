------------------------------ MODULE AIStream ------------------------------
(***************************************************************************)
(* internal/ai: the life of one AI stream.  Open has dialled the worker;   *)
(* runWithReconnect runs a pair of loops over the connection, the send     *)
(* loop (fed by a forwarder through a queue of its own) and the receive    *)
(* loop, waits for all of them and dials again while errors and retries    *)
(* last; a reaper adds the stream's counters to the manager's and removes  *)
(* its entry.  Every goroutine runs on its own, and those of a pair share  *)
(* an error slot, a context and the connection.                            *)
(*                                                                         *)
(* The worker is cmd/mock-ai-worker, which may also hang, crash or return  *)
(* at any time.  A chunk is its number, a result its place among those of  *)
(* its connection; a connection that was replaced is forgotten.  A timer   *)
(* that is armed may fire at any moment.                                   *)
(*                                                                         *)
(* Each goroutine has a Step, which says what it leaves alone; its actions *)
(* say what they do to the rest.  A definition X_Bug is X with a bug that  *)
(* the runs are known to find; no action uses it.                          *)
(***************************************************************************)
EXTENDS Naturals, Sequences

CONSTANTS
  None,
  Configs,      \* the configurations to check: see DefaultConfig, ToAIConfig
  QueueSize,    \* Config.QueueSize, of the forwarder's queue
  MaxRetries,   \* Config.MaxRetries
  AudioCap,     \* capacity of Session.AudioQueue
  ResultCap,    \* capacity of Session.ResultQueue
  Window,       \* chunks gRPC takes before Send blocks
  PartialEvery, \* the worker answers so many chunks with a partial result
  FinalEvery,   \* and so many with a final one
  MaxChunks     \* bound: chunks the pipeline makes

Chunks == [n : Nat, end : BOOLEAN]
Results == [conn : Nat, seq : Nat, final : BOOLEAN]
Errors == {"first", "send", "recv", "eof", "idle", "dial"}

ASSUME StreamAssumption ==
  /\ {QueueSize, AudioCap, ResultCap, Window, PartialEvery, FinalEvery} \subseteq Nat \ {0}
  /\ {MaxRetries, MaxChunks} \subseteq Nat
  /\ Configs \subseteq [firstChunk : BOOLEAN, recvIdle : BOOLEAN]
  /\ None \notin Chunks \cup Results \cup Errors

(* The optional timeouts that ai.DefaultConfig sets, and those that the    *)
(* gateway's own configuration leaves at zero.                             *)
DefaultConfig == [firstChunk |-> TRUE, recvIdle |-> TRUE]
ToAIConfig == [firstChunk |-> FALSE, recvIdle |-> FALSE]

VARIABLES
  cfg,    \* which timeouts are set
  ctx,    \* the stream's context: ended by the session's or by StreamTimeout
  audio,  \* Session.AudioQueue
  made,   \* chunks the pipeline has made
  out,    \* Session.ResultQueue
  got,    \* results the coordinator's result pump has taken
  heard,  \* numbers of the chunks the workers have taken
  sup,    \* progress of runWithReconnect, then of the reaper
  st,     \* what the goroutines share: first error, pairCancel called, a Send
          \* timed out in this pair
  counts, \* Stream.retries, sendErrors, recvErrors
  totals, \* the same three of the Manager, of the streams reaped
  entry,  \* is the stream in Manager.streams
  fwd,    \* the forwarder
  queue,  \* its queue
  snd,    \* the send loop: its place, chunk in hand, first-chunk timer, endOfStreamSent
  rcv,    \* the receive loop: its place, result in hand
  conn    \* the connection: see Connections

sessionVars == <<cfg, ctx, made, got>>
supVars == <<sup, totals, entry>>
pairVars == <<st, counts, fwd, queue, snd, rcv>>
vars == <<sessionVars, audio, out, heard, supVars, pairVars, conn>>

(* One connection: its number and state, was CloseSend called, the chunks  *)
(* and results in flight, and the worker's two counters.                   *)
Connections ==
  [n : Nat, state : {"open", "finished", "broken"}, half : BOOLEAN,
   up : Seq(Chunks), down : Seq(Results), chunks : Nat, seq : Nat]

TypeOK ==
  /\ cfg \in Configs /\ ctx \in {"live", "expired", "closed"} /\ made \in Nat /\ entry \in BOOLEAN
  /\ audio \in Seq(Chunks) /\ Len(audio) <= AudioCap
  /\ out \in Seq(Results) /\ Len(out) <= ResultCap
  /\ got \in Seq(Results) /\ heard \in Seq(Nat)
  /\ sup \in {"pair", "backoff", "returned", "counted", "reaped"}
  /\ st \in [err : Errors \cup {None}, cancelled : BOOLEAN, timedOut : BOOLEAN]
  /\ {counts, totals} \subseteq [retries : Nat, send : Nat, recv : Nat]
  /\ fwd \in {"run", "done"}
  /\ queue \in Seq(Chunks) /\ Len(queue) <= QueueSize
  /\ snd \in [at : {"select", "send", "sent", "close", "cancel", "done"},
              chunk : Chunks \cup {None}, armed : BOOLEAN, eos : BOOLEAN]
  /\ rcv \in [at : {"recv", "offer", "done"}, result : Results \cup {None}]
  /\ conn \in Connections

NewConnection(n) ==
  [n |-> n, state |-> "open", half |-> FALSE, up |-> <<>>, down |-> <<>>,
   chunks |-> 0, seq |-> 0]
NoError == [err |-> None, cancelled |-> FALSE, timedOut |-> FALSE]
NewSender == [at |-> "select", chunk |-> None, armed |-> cfg.firstChunk, eos |-> FALSE]
NewReceiver == [at |-> "recv", result |-> None]
Zero == [retries |-> 0, send |-> 0, recv |-> 0]

Init ==
  /\ cfg \in Configs /\ ctx = "live" /\ made = 0
  /\ audio = <<>> /\ out = <<>> /\ got = <<>> /\ heard = <<>>
  /\ sup = "pair" /\ counts = Zero /\ totals = Zero /\ entry = TRUE
  /\ st = NoError /\ conn = NewConnection(1)
  /\ fwd = "run" /\ queue = <<>> /\ snd = NewSender /\ rcv = NewReceiver

(* pairCtx is done when pairCancel was called or the stream's context ended.*)
PairDone == st.cancelled \/ ctx # "live"

(* setErr keeps the first error.                                           *)
SetErr(e) == [st EXCEPT !.err = IF @ = None THEN e ELSE @]
Count(k) == counts' = [counts EXCEPT ![k] = @ + 1]

-----------------------------------------------------------------------------
(* The audio pipeline, the session, and the coordinator's result pump. The *)
(* pipeline is flushed by the cleanup of a session that was closed; the    *)
(* last chunk is dropped if AudioQueue is full.                            *)

MakeChunk ==
  /\ IF ctx = "closed" THEN made = MaxChunks ELSE made < MaxChunks
  /\ Len(audio) < AudioCap
  /\ made' = made + 1
  /\ audio' = Append(audio, [n |-> made', end |-> ctx = "closed"])
  /\ UNCHANGED <<cfg, ctx, out, got>>

(* The timer that Open arms: the session and its pipeline go on.           *)
StreamTimesOut ==
  /\ ctx = "live"
  /\ ctx' = "expired"
  /\ UNCHANGED <<cfg, made, audio, out, got>>

SessionCloses ==
  /\ ctx # "closed"
  /\ ctx' = "closed"
  /\ UNCHANGED <<cfg, made, audio, out, got>>

ContextEnds == StreamTimesOut \/ SessionCloses

PumpTakes ==
  /\ out # <<>>
  /\ out' = Tail(out)
  /\ got' = Append(got, Head(out))
  /\ UNCHANGED <<cfg, ctx, made, audio>>

SessionStep(A) == A /\ UNCHANGED <<heard, supVars, pairVars, conn>>

-----------------------------------------------------------------------------
(* The forwarder of a pair. It never waits for room in its queue.          *)

ForwarderEnds_OnClose == FALSE /\ UNCHANGED vars

ForwarderEnds ==
  /\ PairDone
  /\ fwd' = "done" /\ UNCHANGED <<audio, queue>>

Forward_NoRoomCheck ==
  /\ audio # <<>>
  /\ audio' = Tail(audio)
  /\ queue' = Append(queue, Head(audio))
  /\ UNCHANGED fwd

Forward ==
  /\ audio # <<>>
  /\ audio' = Tail(audio)
  /\ queue' = IF Len(queue) < QueueSize THEN Append(queue, Head(audio)) ELSE queue
  /\ UNCHANGED fwd

ForwarderStep ==
  /\ fwd = "run"
  /\ ForwarderEnds \/ Forward
  /\ UNCHANGED <<sessionVars, out, heard, supVars, st, counts, snd, rcv, conn>>

-----------------------------------------------------------------------------
(* The send loop: a select, and a Send under SendTimeout.                  *)

SendAt(step) == snd' = [snd EXCEPT !.at = step, !.chunk = None]

SendLeaves ==
  /\ snd.at = "select"
  /\ PairDone \/ (queue = <<>> /\ fwd = "done")
  /\ SendAt("close") /\ UNCHANGED <<st, counts, queue, audio, conn>>

FirstChunkTimesOut ==
  /\ snd.at = "select" /\ snd.armed
  /\ st' = SetErr("first")
  /\ SendAt("close") /\ UNCHANGED <<counts, queue, audio, conn>>

TakeChunk ==
  /\ snd.at = "select" /\ queue # <<>>
  /\ queue' = Tail(queue)
  /\ snd' = [snd EXCEPT !.at = "send", !.chunk = Head(queue), !.armed = FALSE]
  /\ UNCHANGED <<st, counts, audio, conn>>

WindowOpen == conn.state = "open" /\ Len(conn.up) < Window
Transmit == conn' = [conn EXCEPT !.up = Append(@, snd.chunk)]

Sent ==
  /\ snd.at = "send" /\ WindowOpen
  /\ Transmit
  /\ snd' = [snd EXCEPT !.at = "sent"]
  /\ UNCHANGED <<st, counts, queue, audio>>

(* Only after Send has returned is the end of the stream noted.            *)
SentNoted ==
  /\ snd.at = "sent"
  /\ snd' = [snd EXCEPT !.at = "select", !.chunk = None, !.eos = @ \/ snd.chunk.end]
  /\ UNCHANGED <<st, counts, queue, audio, conn>>

SendFails_Requeued ==
  /\ snd.at = "send" /\ conn.state # "open"
  /\ st' = SetErr("send") /\ Count("send")
  /\ audio' = Append(audio, snd.chunk)
  /\ SendAt("close") /\ UNCHANGED <<queue, conn>>

SendFails ==
  /\ snd.at = "send" /\ conn.state # "open"
  /\ st' = SetErr("send") /\ Count("send")
  /\ SendAt("close") /\ UNCHANGED <<queue, audio, conn>>

(* SendTimeout is over: isCtxErr takes DeadlineExceeded for the end of the *)
(* context, and no error is recorded.                                      *)
SendTimesOut ==
  /\ snd.at = "send" /\ conn.state = "open" /\ ~WindowOpen
  /\ st' = [st EXCEPT !.timedOut = TRUE]
  /\ SendAt("close") /\ UNCHANGED <<counts, queue, audio, conn>>

(* The context ends during Send, which may or may not get through.         *)
SendCancelled ==
  /\ snd.at = "send" /\ PairDone
  /\ (WindowOpen /\ Transmit) \/ UNCHANGED conn
  /\ SendAt("close") /\ UNCHANGED <<st, counts, queue, audio>>

CloseSend ==
  /\ snd.at = "close"
  /\ conn' = [conn EXCEPT !.half = TRUE]
  /\ SendAt("cancel") /\ UNCHANGED <<st, counts, queue, audio>>

SendCancelsPair ==
  /\ snd.at = "cancel"
  /\ st' = [st EXCEPT !.cancelled = TRUE]
  /\ SendAt("done") /\ UNCHANGED <<counts, queue, audio, conn>>

SenderStep ==
  /\ \/ SendLeaves \/ FirstChunkTimesOut \/ TakeChunk \/ Sent \/ SentNoted
     \/ SendFails \/ SendTimesOut \/ SendCancelled \/ CloseSend \/ SendCancelsPair
  /\ UNCHANGED <<sessionVars, out, heard, supVars, fwd, rcv>>

-----------------------------------------------------------------------------
(* The receive loop. It cancels the pair when it leaves.                   *)

RecvResult ==
  /\ rcv.at = "recv" /\ conn.down # <<>>
  /\ rcv' = [at |-> "offer", result |-> Head(conn.down)]
  /\ conn' = [conn EXCEPT !.down = Tail(@)]
  /\ UNCHANGED <<st, counts, out>>

Deliver_FinalFirst ==
  /\ rcv.at = "offer" /\ Len(out) < ResultCap
  /\ out' = IF rcv.result.final THEN <<rcv.result>> \o out ELSE Append(out, rcv.result)
  /\ rcv' = NewReceiver
  /\ UNCHANGED <<st, counts, conn>>

Deliver ==
  /\ rcv.at = "offer" /\ Len(out) < ResultCap
  /\ out' = Append(out, rcv.result)
  /\ rcv' = NewReceiver
  /\ UNCHANGED <<st, counts, conn>>

DropPartial_AnyKind ==
  /\ rcv.at = "offer" /\ Len(out) = ResultCap /\ ~PairDone
  /\ rcv' = NewReceiver
  /\ UNCHANGED <<st, counts, out, conn>>

(* A partial result finds no room; a final one waits.                      *)
DropPartial ==
  /\ rcv.at = "offer" /\ Len(out) = ResultCap /\ ~PairDone
  /\ ~rcv.result.final
  /\ rcv' = NewReceiver
  /\ UNCHANGED <<st, counts, out, conn>>

RecvLeaves(e) ==
  /\ rcv' = [NewReceiver EXCEPT !.at = "done"]
  /\ st' = [(IF e = None THEN st ELSE SetErr(e)) EXCEPT !.cancelled = TRUE]
  /\ IF e = None THEN UNCHANGED counts ELSE Count("recv")
  /\ UNCHANGED <<out, conn>>

OfferCancelled ==
  /\ rcv.at = "offer" /\ PairDone
  /\ RecvLeaves(None)

NoMoreResults == rcv.at = "recv" /\ conn.state # "open" /\ conn.down = <<>>

RecvFails_QuietEOF ==
  /\ NoMoreResults
  /\ RecvLeaves(IF PairDone \/ conn.state = "finished" THEN None ELSE "recv")

(* Recv returns an error: EOF when the worker has returned and all its     *)
(* results are read. An error that follows the end of the pair's context   *)
(* does not count, nor does the EOF that answers EndOfStream.              *)
RecvFails ==
  /\ NoMoreResults
  /\ RecvLeaves(IF PairDone \/ (conn.state = "finished" /\ snd.eos) THEN None
                ELSE IF conn.state = "finished" THEN "eof" ELSE "recv")

RecvIdles ==
  /\ rcv.at = "recv" /\ cfg.recvIdle /\ conn.down = <<>>
  /\ RecvLeaves(IF PairDone THEN None ELSE "idle")

RecvCancelled_OwnContext ==
  /\ rcv.at = "recv" /\ cfg.recvIdle /\ PairDone
  /\ RecvLeaves(None)

(* recvWithTimeout watches the pair's context only if RecvIdleTimeout is   *)
(* set; Recv itself returns when the stream's context is done.             *)
RecvCancelled ==
  /\ rcv.at = "recv"
  /\ ctx # "live" \/ (cfg.recvIdle /\ PairDone)
  /\ RecvLeaves(None)

ReceiverStep ==
  /\ \/ RecvResult \/ Deliver \/ DropPartial \/ OfferCancelled
     \/ RecvFails \/ RecvIdles \/ RecvCancelled
  /\ UNCHANGED <<sessionVars, audio, heard, supVars, fwd, queue, snd>>

-----------------------------------------------------------------------------
(* The worker. It counts its chunks, answers by the count and returns after*)
(* EndOfStream or when the gateway has closed its side.                    *)

(* The results due after the k-th chunk of a connection.                   *)
Answers(k, last) ==
  LET finals == (IF k % PartialEvery = 0 THEN <<FALSE>> ELSE <<>>) \o
                (IF k % FinalEvery = 0 THEN <<TRUE>> ELSE <<>>) \o
                (IF last THEN <<TRUE>> ELSE <<>>)
  IN [j \in DOMAIN finals |-> [conn |-> conn.n, seq |-> conn.seq + j, final |-> finals[j]]]

WorkerTakes ==
  /\ conn.up # <<>>
  /\ LET c == Head(conn.up)
         answers == Answers(conn.chunks + 1, c.end)
     IN /\ heard' = Append(heard, c.n)
        /\ conn' = [conn EXCEPT
             !.up = Tail(@), !.chunks = @ + 1, !.seq = @ + Len(answers),
             !.down = @ \o answers, !.state = IF c.end THEN "finished" ELSE @]

WorkerSeesEOF ==
  /\ conn.up = <<>> /\ conn.half
  /\ conn' = [conn EXCEPT !.state = "finished"]
  /\ UNCHANGED heard

(* Not the mock's doing: a worker that returns early, and one that crashes *)
(* or is cut off, whose last results may be lost.                          *)
WorkerQuits ==
  /\ conn' = [conn EXCEPT !.state = "finished"]
  /\ UNCHANGED heard

WorkerBreaks ==
  /\ \E k \in 0..Len(conn.down) :
       conn' = [conn EXCEPT !.state = "broken", !.down = SubSeq(@, 1, k)]
  /\ UNCHANGED heard

WorkerStep ==
  /\ conn.state = "open"
  /\ WorkerTakes \/ WorkerSeesEOF \/ WorkerQuits \/ WorkerBreaks
  /\ UNCHANGED <<sessionVars, audio, out, supVars, pairVars>>

-----------------------------------------------------------------------------
(* runWithReconnect, once all three goroutines of the pair have left, and  *)
(* the reaper.                                                             *)

PairOver == sup = "pair" /\ fwd = "done" /\ snd.at = "done" /\ rcv.at = "done"

PairEnds ==
  /\ PairOver
  /\ ctx # "live" \/ st.err = None \/ counts.retries >= MaxRetries
  /\ sup' = "returned"
  /\ UNCHANGED <<totals, entry, pairVars, conn>>

Retry ==
  /\ PairOver
  /\ ctx = "live" /\ st.err # None /\ counts.retries < MaxRetries
  /\ Count("retries")
  /\ st' = [st EXCEPT !.err = None]
  /\ sup' = "backoff"
  /\ UNCHANGED <<totals, entry, fwd, queue, snd, rcv, conn>>

BackoffCancelled ==
  /\ sup = "backoff" /\ ctx # "live"
  /\ sup' = "returned"
  /\ UNCHANGED <<totals, entry, pairVars, conn>>

(* Dial finds no worker, or NewStream fails, as it does if the context is  *)
(* done.                                                                   *)
RedialFails ==
  /\ sup = "backoff"
  /\ st' = SetErr("dial")
  /\ sup' = "returned"
  /\ UNCHANGED <<totals, entry, counts, fwd, queue, snd, rcv, conn>>

(* A new connection and a new pair over it.                                *)
Redial ==
  /\ sup = "backoff" /\ ctx = "live"
  /\ sup' = "pair"
  /\ conn' = NewConnection(conn.n + 1)
  /\ st' = NoError /\ fwd' = "run" /\ queue' = <<>> /\ snd' = NewSender /\ rcv' = NewReceiver
  /\ UNCHANGED <<totals, entry, counts>>

ReaperCounts_Late ==
  /\ sup = "returned"
  /\ sup' = "counted" /\ entry' = FALSE
  /\ UNCHANGED <<totals, pairVars, conn>>

ReaperCounts ==
  /\ sup = "returned"
  /\ sup' = "counted"
  /\ totals' = [k \in DOMAIN totals |-> totals[k] + counts[k]]
  /\ UNCHANGED <<entry, pairVars, conn>>

ReaperRemoves ==
  /\ sup = "counted"
  /\ sup' = "reaped" /\ entry' = FALSE
  /\ UNCHANGED <<totals, pairVars, conn>>

SupervisorStep ==
  /\ \/ PairEnds \/ Retry \/ BackoffCancelled \/ RedialFails \/ Redial
     \/ ReaperCounts \/ ReaperRemoves
  /\ UNCHANGED <<sessionVars, audio, out, heard>>

-----------------------------------------------------------------------------

GatewayStep ==
  ForwarderStep \/ SenderStep \/ ReceiverStep \/ SupervisorStep \/ SessionStep(PumpTakes)

Next == GatewayStep \/ WorkerStep \/ SessionStep(MakeChunk) \/ SessionStep(ContextEnds)

Spec == Init /\ [][Next]_vars

(* The gateway's goroutines do not all stop while one can go on, and the   *)
(* timers of a pair fire. Nothing obliges the worker to do anything, the   *)
(* session to be closed or audio to arrive. The timer of the whole stream  *)
(* fires as well, but nothing rests on it: what is to happen eventually    *)
(* must not wait for StreamTimeout (300 s as shipped). One condition is    *)
(* enough: chunks and retries are bounded, so every behaviour comes to     *)
(* rest.                                                                   *)
FairSpec == Spec /\ WF_vars(GatewayStep)

-----------------------------------------------------------------------------
(* Properties.                                                             *)

Increasing(s, Before(_, _)) ==
  \A i, j \in DOMAIN s : i < j => Before(s[i], s[j])

InHand(x) == IF x = None THEN <<>> ELSE <<x>>

(* The workers hear the chunks in the order the pipeline made them and none*)
(* twice, whatever was lost with a connection: a chunk whose Send failed is*)
(* not sent again by the next pair, and no old forwarder or sender mixes in.*)
AudioInOrder ==
  LET Numbers(s) == [i \in DOMAIN s |-> s[i].n]
      held == IF snd.at = "send" THEN <<snd.chunk>> ELSE <<>>
  IN Increasing(heard \o Numbers(conn.up \o held \o queue \o audio), LAMBDA a, b : a < b)

ResultsOnTheirWay == got \o out \o InHand(rcv.result) \o conn.down

(* The results of a stream reach the coordinator in the order the workers  *)
(* gave them, those of an earlier connection before those of a later one,  *)
(* and none twice.                                                         *)
ResultsInOrder ==
  Increasing(ResultsOnTheirWay,
             LAMBDA r, t : r.conn < t.conn \/ (r.conn = t.conn /\ r.seq < t.seq))

(* The final results of connection n in a sequence of results.             *)
FinalsOf(n, s) == {s[i] : i \in {i \in DOMAIN s : s[i].conn = n /\ s[i].final}}

(* Those the worker has given on the connection while the session is open: *)
(* it numbers partial and final results together.                          *)
FinalsGiven ==
  {[conn |-> conn.n, seq |-> k \div PartialEvery + k \div FinalEvery, final |-> TRUE] :
     k \in {k \in 1..conn.chunks : k % FinalEvery = 0}}

(* The policy in the comment of runRecv: as long as the pair goes on and   *)
(* the connection holds, every final result the worker gave is delivered   *)
(* or on its way, however full the result queue was.                       *)
FinalsKept ==
  (~PairDone /\ conn.state # "broken") => FinalsOf(conn.n, ResultsOnTheirWay) = FinalsGiven

(* A stream whose session is open ends only for one of three reasons: all  *)
(* retries are used up, the worker cannot be dialled again, or a Send ran  *)
(* into its timeout; in particular a worker that returns early is dialled  *)
(* again. Each connection but the first has been counted as a retry.       *)
ReconnectsAsConfigured ==
  /\ (sup \in {"returned", "counted", "reaped"} /\ ctx = "live") =>
       \/ st.timedOut
       \/ st.err = "dial"
       \/ st.err # None /\ counts.retries = MaxRetries
  /\ conn.n <= counts.retries + 1 /\ counts.retries <= MaxRetries

(* Manager.Stats                                                           *)
Stats(k) == totals[k] + (IF entry THEN counts[k] ELSE 0)

(* The manager's statistics never miss an error or a retry of a stream, at *)
(* any point of its reaping, and have each once when that is over.         *)
StatsComplete ==
  \A k \in DOMAIN counts :
    /\ Stats(k) >= counts[k]
    /\ sup = "reaped" => Stats(k) = counts[k]

(* Once the context is done every goroutine of the stream ends, wherever it*)
(* waits, and the manager forgets the stream.                              *)
StreamEnds == ctx # "live" ~> sup = "reaped"

(* A pair of which one loop has left, or whose connection is gone, ends, so*)
(* that the stream is dialled again or given up, without waiting for       *)
(* StreamTimeout. If the worker neither returns nor fails this takes a     *)
(* RecvIdleTimeout, which the gateway's own configuration leaves at zero   *)
(* (config.go:288): then only StreamTimeout ends a pair with a worker that *)
(* hangs.                                                                  *)
PairSettles ==
  ( /\ sup = "pair"
    /\ conn.state # "open" \/ (cfg.recvIdle /\ "done" \in {snd.at, rcv.at}) ) ~> sup # "pair"

(* What holds of a stream at any moment, over all its connections: audio and *)
(* results keep their order, and the statistics leave out no stream.         *)
AIStreamInv == TypeOK /\ AudioInOrder /\ ResultsInOrder /\ StatsComplete
=============================================================================
