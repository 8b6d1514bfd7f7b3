# media_ai: TLA+ models and proofs

This directory holds a formal model of the media-ai gateway (`src/cmd/media-ai-gateway`,
`src/internal`) and of the mock programs it is tried with. The gateway receives the audio of phone
calls over RTP or WebRTC, decodes and resamples it, streams it to an AI worker for recognition and
delivers the results to HTTP callbacks and data channels. Calls are announced, patched and ended over
HTTP by a peer called DCSF.

* `X.tla` models a component, `MCX.tla` instantiates it for TLC, `XProofs.tla` proves theorems about it
  (`CoordinatorJitterProofs` about Coordinator and JitterBuffer, `WebRTCPoolProofs` about WebRTC and
  WorkerPool, `AdmissionProofs` about Fleet too, `MediaPathProofs` about Audio too).
* A definition `X_Bug` just before `X` is `X` with a plausible bug in it. No specification uses it; it
  documents which mistake in the code the runs would find.
* A variable called `past`, `missed`, `roomAt`, `crowd` or `fed`, and the fields `read` of `tx` and `nth`
  of a packet in MediaPath, are records of the past on which no behaviour depends: a property uses them
  to say in which histories it holds, or with what earlier state it compares.
* `PROJECT.json` lists the runs, the source lines behind every definition, the hazards, the findings
  and the theorems.

Check: `tlc -config sm_index.cfg MCSessionManager.tla`. Prove: `tlapm SessionManagerProofs.tla`.

## 1. Inventory

### 1.1 Components

| component | code (`src/internal/`) | state | operations | module |
|---|---|---|---|---|
| session manager | `session/` | `sessions` (ID to session), indices by SSRC, address, peer, track; per session status, context, LastActive; totals | Create, Update, Close, Touch, gc | SessionManager, SessionStore |
| coordinator | `coordinator/` | `jitterBufs`; goroutines per session | Start, rollback, cleanup goroutine, three pumps, UpdateCallbackSink | Coordinator, JitterBuffer, ResultPath |
| call handling | `controlplane/handler.go` | one goroutine per request | ANSWER, ctrl-result, DELETE, call-control, heartbeat | CallControl, Coordinator, Admission, Fleet |
| port allocator, per-session listeners | `controlplane/port_allocator.go`, `ingress/rawrtp/port_manager.go` | stack of free ports; a UDP socket per session | Acquire, Release, bind, read loop, close | CallControl, JitterBuffer |
| jitter buffer | `jitter/` | heap, next expected and last processed number, hold timer, counters | Push, Run (ticker), flush | JitterBuffer |
| worker pool, audio pipeline | `pipeline/` | shared job queue; `pipelines` by session ID, each with a lock, decoder, resampler, chunker | Register, Unregister, Submit, worker, process, flush | WorkerPool, MediaPath |
| codecs, chunker, resampler | `codec/`, `audio/` | phase, buffer and timestamp carried between packets | Decode, Resample, Push, Flush | Audio |
| shared RTP ingress | `ingress/rawrtp/udp_server.go`, `packet_handler.go` | one socket, five counters | read, parse, route, enqueue, Stats | MediaPath |
| AI stream, stream manager | `ai/stream_manager.go`, `ai/grpc_client.go` | `streams` by session ID; per stream an error slot, retries, counters | Open, Close, reaper, forwarder, send and receive loop, reconnect | AIStream, Coordinator |
| AI dialers, worker registry | `ai/*dialer.go`, `ai/worker_*.go` | workers with load and time stamp; shared connections | Register, Select, Dial, WatchAndReconnect, message codec | Admission, MediaPath |
| dispatcher, sinks | `result/` | result queue; `sinks` by session ID | Push, worker, RegisterSink, UnregisterSinks, HTTP retry, data channel | ResultPath, Coordinator |
| WebRTC ingress | `ingress/webrtc/` | `pcs` by session ID | offer, replace, cleanup, reader, UDP relay | WebRTC |
| admission, gateway registry | `controlplane/admission_controller.go`, `gateway_*.go` | gateways with load and time stamp | check, heartbeat, expire, select | Admission, Fleet |
| DCSF client | `controlplane/dcsf_client.go` | client per host | clientFor, SendCallControl | Admission |
| mock programs | `src/cmd/mock-*` | - | send a file over RTP, recognize, take callbacks | MediaPath, AIStream, ResultPath |
| HTTP server, config, monitor, main | the rest | - | - | lines of Fleet, AIStream, Admission |

### 1.2 How they interact

ANSWER passes admission, creates two sessions, `{callId}-tcore` and `{callId}-taccess`, takes two
ports, starts two listeners and calls `Coordinator.Start` for each session. Start registers a callback
sink with the dispatcher, a pipeline with the worker pool, an AI stream with the AI manager and a jitter
buffer with itself, then spawns the pumps and a cleanup goroutine that waits for the session's context.
Packets flow listener (or shared ingress, or WebRTC track), `PacketQueue`, jitter buffer, output
channel, worker pool's queue, pipeline, `AudioQueue`, AI stream; results flow AI stream, `ResultQueue`,
dispatcher, sinks. Everything is connected by channels and by **tables keyed by the session ID**, and
everything ends because the session's context is cancelled by `Manager.Close`. Two things make this
hard: the ID is free for reuse from the moment Close has unlinked the session, while its goroutines end
at their own pace; and Close itself, every rollback and every cleanup act by ID.

### 1.3 What is hard, per component, and what makes it correct

* **session manager**: Close works on after the unlock; gc closes by ID what it found idle earlier;
  indices are overwritten and deleted by key. Correct: the map holds exactly the open sessions,
  indices never lead to a wrong or closed one, the totals balance, an idle session eventually ends.
* **coordinator**: Start, rollback, cleanup and stream reaper of sessions with the same ID interleave.
  Correct: a started session has its own pipeline, sinks and buffer; nothing is orphaned; everything
  is released after Close; the AI manager knows every running stream.
* **call handling, ports, listeners**: partial failure at each of a dozen steps, overlapping requests.
  Correct: each port has exactly one owner, a refused call leaves nothing, an answered call has two legs.
* **jitter buffer**: wraparound, duplicates, reordering, loss, a full output. Correct: packets leave
  in sending order and at most once, every datagram is accounted for, only duplicates are thrown away.
* **worker pool, pipeline**: several workers, blocking sends under a lock, jobs by ID. Correct: no
  sound is lost or doubled, and only a session whose own AI stream is gone can hold up the others.
* **codecs, resampler, chunker, messages**: state carried over packet boundaries, wraparound, two
  hand-written encoders. Correct: the output is the input resampled in one piece (but that the last
  sample of a packet is held), and says when it was.
* **AI stream**: loops that share an error slot, timeouts against context ends, reconnect. Correct:
  audio and results keep their order over connections, final results survive, a failing worker is
  retried as configured, no goroutine survives the context, which its own timer ends if nothing else does.
* **dispatcher**: drop policy, workers, retries under one timeout. Correct: final results are never
  dropped for want of room, a POST is repeated only if unanswered and ends as it was answered, hanging
  endpoints stop nothing.
* **WebRTC ingress**: overlapping offers, reuse of IDs. Correct: the table knows every live peer, and
  none outlives its session.
* **admission, registries, DCSF client, connection watch**: state that is stale when used. Correct: a
  chosen gateway had room lately, an admitted call finds what it was admitted for unless too many were
  admitted at the same time, a worker can serve what it gets, a connection comes back.

## 2. Plan

| step | modules | state |
|---|---|---|
| 1 | SessionStore, SessionManager, SessionManagerProofs | done |
| 2 | Coordinator, CallControl over SessionStore, CoordinatorJitterProofs, CallControlProofs | done; all their safety proved |
| 3 | JitterBuffer, WorkerPool, CoordinatorJitterProofs, WebRTCPoolProofs | done; all their safety proved |
| 4 | AIStream, ResultPath, WebRTC, with Proofs of each | done; all their safety proved |
| 5 | Audio, MediaPath, MediaPathProofs | done; all their safety but FramesAreDecoded proved |
| 6 | Fleet, Admission, AdmissionProofs | done; all their safety proved |

Which composes which: Coordinator, CallControl, WorkerPool and WebRTC take their sessions from
SessionStore, the abstract specification that SessionManager is proved to implement. MediaPath is built
from the operators of Audio. Admission extends Fleet: the sessions that admission counts are the load
that the gateway reports about itself.

## 3. Modules

**SessionStore, SessionManager.** SessionStore is the promise: a session goes `absent`, `open`,
`unlinked`, `ended`; Allocate takes an ID no open session has, while fewer than MaxSessions are open;
Unlink frees the ID; End is what the holders of the session notice, the cancelled context.
SessionManager models `session/manager.go`. Session objects (`Objs`) are distinct from IDs, since an ID
is reused. `index` holds the four routing maps; `closer` is the progress of the one Close call that
unlinked the object. Create, Update and the locked part of Close are one critical section each; the
statements after the unlock are actions of their own. gc is its scan (`GCScan` fills `expired`) and one
`GCClose` per ID.

**Coordinator.** The four tables, Start's steps with both rollback paths, the cleanup goroutine's three
deletions, the AI stream's end and its reaper, and ctrl-result's lookup and ReplaceHTTPSink; each step
is one access to one table. A ctrl-result needs no more than to find its session open, so it may come
before Start, during it, or while a Start that failed rolls back; `url` is the session's CallbackURL,
which decides whether Start registers a sink. `past.calm` records that no ID has been used again before
the session that had it was settled, `past.stray` the sessions for which a ctrl-result has installed a
sink after their rollback or cleanup had passed the sinks.

**CallControl.** ANSWER is one action per call it makes, with each error path. `held` are the ports the
handler answers for, `sock` and `port` the listener's socket. Closing by ID is a list (`toClose`) that a
handler works through, each Close in two steps. `past` records overlapping requests and idle collection.

**JitterBuffer.** Network (loss, reordering, up to `MaxCopies` duplicates), the reader's
non-blocking put, the packet pump's Push, the ticker, flush, the output channel, the submit pump. A
packet is its place in the sender's stream, and only the place modulo SeqSpace is visible to the buffer.
The stream has any length; what arrives is less than half of SeqSpace away (`Near`) from what waits in the
queue and the heap and from the last packet released (`InUse`).
Each iteration of flush is an action, since the submit pump does not take the buffer's lock.

**WorkerPool.** `queue` is the channel all sessions share, `pipes` the table of pipelines. A worker looks
the pipeline up, waits for its lock and puts a full chunk into AudioQueue under the same lock unless the
context ends first. A sample is abstracted to its packet, `Conveyed` are the chunks that are out.
`QuietSpec` assumes that an ID is used again only when the pool has unregistered its last user and no
job of that user waits in the queue (QuietReuse); a worker may still be at that user's pipeline.

**AIStream.** One stream from Open to reaper: forwarder, send loop with its timed Send, receive loop
with both result policies, the pair's context and error slot, runWithReconnect, and the connection with
the worker of `cmd/mock-ai-worker` at the far end, which may also hang, crash or return. An action is
one channel operation or one access to shared state. `DefaultConfig` has all timeouts, `ToAIConfig` is
what `config.go` really sets. The context ends by the session's close (SessionCloses) or by the
StreamTimeout that Open arms for every stream (StreamTimesOut), after which session and pipeline go on.

**ResultPath.** The result pumps, the dispatcher's Push with its drop policy, its queue and workers, and
the sends to a data channel or to an endpoint that answers as `mock-callback-server` can be told to, or
not at all; unregistering, closing and shutdown happen at any time. `got` is what the endpoint received,
`ends` how each Send ended: `ok`, `refused` (4xx), `late` (the time was over while waiting), `invalid`
(no payload or request could be made), `failed` (attempts used up, no dead-letter sink), `dead`, or
`lost` when the dead-letter sink, called with a context that may be over, returns an error.

**WebRTC.** Offers step by step (close the old peer, make, add the sink, store, describe), the peers'
cleanup goroutine, reader, relay and connection, and the manager and coordinator as far as they touch
them. `past` records overlapping offers and sessions cancelled during an offer.

**Audio, MediaPath.** Audio holds the pure algorithms as operators: G.711, the AMR payload parser,
the resampler with its phase, the chunker, byte order. MediaPath drives them end to end: sender with
its frame reader and timestamps, shared ingress step by step against a reading monitor, pipeline,
protobuf messages as the fields each side writes and reads, worker, results. A session is closed between
two packets (CloseSession) or while the chunks of a packet are put out (ProcessCancelled): `Cut` is what
decoder, resampler and chunker make of the packet, the chunks not yet out are dropped, and `Flush` puts
out what the chunker keeps, if AudioQueue has room. Protobuf's varints and
UTF-8 are not spelled out: a message is the set of its non-zero fields. `ToMono` takes one or two
channels, all that the decoders give. `fed` lists what the decoder got and gave.

**Fleet, Admission.** Fleet is the registry one gateway keeps of all: heartbeats under way, handlers
that register the sender and then this node by what `selfInfo` has read, expiry, Select. Admission has
three scenes chosen by `cfg.scene`: "fleet"; "calls", the steps of ANSWER that take something limited,
the worker registry and RoutingDialer, and the DCSF client with its two locks; and "watch", the
goroutine that keeps the worker's connection up. A scene's steps touch nothing of another's. Expiry
of workers is the registry's own promise: `main` sets its TTL to 0 and registers one worker.

## 4. Runs

All runs but `co_ready`, which ends in a violation, visit every state of their instance. `XInv` is the conjunction of the type
invariant and the named safety parts of module X; a part can be put into the cfg by itself, and
`PROJECT.json` has a bug that breaks each.

| run | specification | shows |
|---|---|---|
| `sm_index` | Spec | map, indices and totals agree with status and Close progress; the capacity holds; an open session loses an entry only to one with the same key |
| `sm_gc` | fair | the manager implements SessionStore; an idle session is collected or touched |
| `co_reuse` | fair, IDs and ctrl-results at any time | no stream untracked, stream limit, no orphan, everything released, but for a stray ctrl-result's sink; a started session keeps its pipeline, and sinks and buffer while reuse is calm |
| `co_ready` | Spec, IDs reused at any time; violation | the cleanup of an old session takes the sinks of the open one with its ID |
| `cc_release` | fair, gc included | overlapping ANSWERs and a DELETE: ports conserved, two legs for an answered call, no stray leg for a refused one, everything given back |
| `jb_order` | Spec | order, at most once, conservation of datagrams, only duplicates thrown away, in a stream longer than half of the sequence space |
| `wp_path` | QuietSpec | no decoded sound lost, doubled, overtaken or given to another session; the last chunk is last; cleanups end; jobs wait only while an open session has lost its AI stream |
| `ai_stream` | fair, both configurations | order of audio and results over reconnects, final results kept, retries as configured, statistics complete, pairs and streams end |
| `results` | fair | each result in one place, drop policy, retries, each Send ends as it was answered, order with one worker, other sinks served, the queue drains, all stop |
| `webrtc` | fair | entries are watched, live peers listed, sinks have sessions, peers end with their session |
| `media` | Spec | frames are decoded as their codec defines, audio is the reference, chunks and spans are timed, timestamps place the audio, messages intact, every packet counted, snapshots cover |
| `admission` | fair | chosen gateways had room, admitted calls find it but after a crowd, limits hold, workers can serve and live, one client per host, the connection settles |

**Bounds.** They limit what the environment does: sessions, requests, packets, faults, ticks.
SessionManager: three objects on three IDs give an open, a closing and a new session at once; two kinds
and two keys give overwriting and exchange. Coordinator: two objects on two IDs, two ctrl-results, one
stream, so that every table is contended. CallControl: two ANSWERs of one call, one DELETE, two ports,
so that Acquire fails at the first and at the second. JitterBuffer: SeqSpace 6 for 65536 and the
places 5 to 9, more than half of the space and with the wrap inside, one duplicate, one place in the queue
and in the output: every pair of places that may meet does, and pairs too far apart to be compared occur
one after the other. WorkerPool: two workers, a session that fills AudioQueue and one whose packet is silence.
AIStream: two chunks, one retry, queues of one and two, a result per chunk and every second one final:
a full queue, a lost final result and a second connection all occur. ResultPath: three configurations:
two workers; a queue that overflows, with dead letters; and two sinks. WebRTC: two offers and two
sessions of one ID. MediaPath: all 256 bytes of both G.711 laws, all AMR-WB frame types of either
quality, five pairs of rates with packets that yield no sample or several chunks, SeqWrap 4 and TsWrap
16 so that both wrap, and three instances with a bad network. Fleet: one peer and two handlers, TTL and
Flight of one tick and three ticks, loads of 17 and 18 of 20, on either side of 90%. Admission: two calls
where what is kept back serves one and not two, for sessions and for streams; where nobody is let in;
where one call is a crowd already; without routing; and one call among three workers (limited, GPU,
static) that report, fill up and die.

**Deadlock** is not checked: the models stop when the bounded requests and objects are used up.

**Fairness.** Weak fairness of what a running goroutine does next: the Go scheduler runs every runnable
goroutine, critical sections end, timers fire. Except in SessionManager one condition for all of the
program's own steps is enough, which is weaker than one each: the inputs are bounded, no step can be
repeated for ever, so a behaviour in which some own step is possible goes on until none is. The
eventual properties are written `<>[]P` for the same reason. Fairness is never assumed of the peer, the
worker, the endpoint, the network, of idleness or of a caller; in the watch scene gRPC finishes
connecting and retries by itself.

No fairness is assumed of the timer of a whole AI stream either: it does fire, but what is to happen
eventually must not wait for it (300 s as shipped).

**Disagreement found** by a run, with both sides quoted in `findings`: `co_ready`. `UnregisterSinks` is
documented to be called when its session closes, and Start to leave everything ready. The cleanup goroutine
acts by ID (`coordinator.go:128`), so an open session that uses the ID again loses its sinks, and its
results with them.

**Disagreements stated in a property.**

* `codec/g711.go` names ITU-T G.711 and inverts its sign for mu-law: it takes bit 7 after the complement
  for the sign of a positive sample (`g711.go:47`), where the standard has it before. RefUlaw is the law
  of the standard, and FramesAreDecoded says that every PCMU sample is its negative; magnitudes, and all
  of A-law, are exact.
* The design promises that a worker that hangs is detected by `recv_idle_timeout`, 30 s by default
  (`docs/media-ai-gateway-design-modules_v2.md:1062`, `:1184`). `config.go:288` never sets it, so such a
  pair lasts until StreamTimeout after 300 s, and then the stream is over. PairSettles therefore has
  RecvIdleTimeout as a condition where a worker neither returns nor fails.

**Observed while modelling, without a run.**

* gc closes by ID what it found idle earlier (`session/manager.go:310`).
* The cleanup of a session acts on a reused ID (`coordinator.go:127`, against the comment at line 76).
  A ctrl-result that comes after the cleanup, or between the rollback of a failed Start and the
  handler's Close, leaves a sink behind for good (`handler.go:262`): `past.stray`. One that comes before
  Start has registered the session's sink leaves the session two sinks.
* A DELETE that overlaps an ANSWER leaves a leg open (`handler.go:311`).
* Two workers can decode packets of one session in the wrong order (`worker_pool.go:142`;
  `docs/media-ai-gateway-design-modules_v2.md:874`). An open session whose AI stream has ended can hold
  every worker until it is closed (`audio_pipeline.go:99`): the exception in JobsTaken.
* A packet that comes too late is not in the jitter buffer's received count (`jitter/buffer.go:92`;
  `docs/metrics.md:79`); packets the gateway dropped count as lost (`jitter/buffer.go:223`).
* A send timeout records no error, so it does not lead to a reconnect (`grpc_client.go:274`); the last
  chunk of a session, with EndOfStream, is usually not sent; `Manager.Stats` counts a stream twice
  between two statements of its reaper (`stream_manager.go:172`), never too little.
* WatchAndReconnect misses an Idle it starts with and one that lies between two of its looks
  (`grpc_dialer.go:285`): the exception in ConnectionSettles.
* A callback whose time is over while it waits returns without a dead letter (`http_callback.go:258`),
  and so does one for which no payload or request can be made (lines 243, 267); the dead-letter sink is
  called with the context of the Send, which may be over (line 288). The gateway makes neither a
  dead-letter sink nor a CallbackPool.
* Chunks that a packet filled are dropped when the session is closed while they wait for AudioQueue
  (`audio_pipeline.go:101`), and the flushed rest then follows the gap.
* Admission takes nothing at its check, and nothing bounds the handlers between check and use
  (`admission_controller.go:58`): the crowd in AdmittedFindsRoom.
* WebRTC: sinks of replaced peers stay registered until the session is swept; an offer served while its
  session ends registers one for ever; the relay's socket is closed only if its data channel opened.
* The self entry of the gateway registry is refreshed by peers' heartbeats only, so that of a lone node
  goes stale; GatewaySelector and Deregister are called by tests only. Sessions are created without a
  language, so a worker limited to languages is never chosen. Admission asks for one port, a call needs
  two. `Server.httpCallbacks` only grows (`server.go:140`). `main` goes on without a control plane if it
  cannot listen (`main.go:250`).

## 5. Proofs

Every theorem holds for all values of the constants that satisfy the module's named ASSUME.

`SessionManagerProofs`, for any number of sessions, IDs, keys, any capacity and timeout:

* `TypeCorrect`, and `IInvHolds`: the inductive invariant IInv = TypeOK, MapHoldsOpenSessions,
  CloserOrder, IndexSound. CloserOrder is the strengthening: an object's status, context and place in
  the map are tied to the progress of its Close. Without it a CLOSED status says nothing of the map,
  and Touch or a second Close could not be shown to leave the object alone.
* `MapCorrect`, `RoutingSound`: parts of it.
* `CapacityRespected`, `TotalsExact`, together `CountsRight`: from CountInv, which counts open and closing sessions; each step
  moves at most one object between the sets, by the library's cardinality facts.
* `ManagerImplementsStore`: SessionManager implements SessionStore, so what is checked of Coordinator,
  CallControl, WorkerPool and WebRTC rests on a proved interface.
* `EntriesAreKept`: an open session loses a routing entry only to a session with the same key.
* `RoutingComplete`: with unique keys every open session stays reachable (proved only, no run).

`AdmissionProofs`, for any number of calls, workers, peers and hosts, any limits, any TTL:

* `FleetChosenHadRoom`, of the registry by itself: ChosenHadRoom speaks of entries only, so it is not
  inductive: an entry comes from a heartbeat or from a handler that has read the counters. FleetInv passes
  the bound along: BeatIsRecent (what a heartbeat says was true when it was sent, at most Flight ago),
  SelfIsRecent (what a handler has read is of this tick), EntryHadRoom (an entry is at most Flight older
  than its stamp), PastIsKept (the record never falls).
* `ClientIsShared`: all calls to one host use one client. The argument is the second look under the
  write lock.
* `AdmissionIInv`: the inductive invariant. Load and streams are counted over the slots (call, leg),
  two to a call (LegsCounted, StreamsBound). A handler between check and use claims two of each (Claimed,
  ClaimedStreams), and `crowd` is the most such handlers there have been (CrowdSeen). SessionsReserved and
  StreamsReserved say that what is taken and claimed together was never more than what the checks allow
  plus two for each of the crowd: without it a refusal in Create says nothing of how many were admitted.
* `WithinAllLimits`: limits of sessions, streams and worker loads; the worker a stream was dialled to had
  been heard of within the TTL (Reports: nobody is heard of after its death).
* `AdmittedIsServed`: AdmittedFindsRoom, with no bound on the calls: a refusal of an admitted call shows
  that the handlers between check and use have at one time wanted more than the tenth of the sessions or
  the twentieth of the streams that the checks keep back. `SelectHadRoom`: ChosenHadRoom in the whole gateway, since a
  call that begins or ends is to the fleet a change of this node's sessions.

`CoordinatorJitterProofs`. Of the jitter buffer, for any sequence space, stream, buffer time and capacities:

* `JitterIInv`. The buffer sees numbers modulo SeqSpace, the properties speak of places in the stream.
  Anchored says that behind `next` there is a place N, stored nowhere: what has left is before N, what is
  held is not, but for copies of the packet just released that the flush under way will still meet.
  PlacesClose says that the places in use (queue, heap, last released) are pairwise less than half of the
  space apart: the network keeps to it (Arrive), and no other step adds a place, while places long gone may
  be any number of wraps behind. So SeqDiff of two numbers in use is the difference of their places
  (WireDiff), and each comparison of the code is one of places. That the
  top of the heap is the oldest packet (TopIsOldest) needs that a finite set of numbers has a least one;
  the library's theorem on well-founded orders gives it. Books counts the copies in the heap one by one.
* `DatagramsAccounted`: JitterBufferInv. `ReleasedInOrder`: InOrder. `OnlyDuplicatesDropped`:
  DropsOnlyDuplicates.

Of the coordinator, for any number of sessions, IDs and ctrl-results, and any limit:

* `CoordinatorIInv`: StreamsTracked, NothingOrphaned and EntriesStay with Lives, which says for every
  step of Start how far cleanup, stream and pipeline of that session can be. An ID in a table says
  little, for it may be reused; Lives speaks of objects.
* `TablesAreSound`, `StartIsReady`: CoordinatorInv and StartedIsReady follow. NothingOrphaned leaves out
  the sinks of `past.stray`, and StartedIsReady speaks of sinks and buffer only under `past.calm`; the run
  `co_ready` shows that the sinks may be gone without it. The streams are counted by
  injecting them into the table, one entry each.

`CallControlProofs`, for any number of calls, ANSWERs, DELETEs, sessions and ports:

* `CallControlIInv`: CallIInv (types and legs) and the ports. Its parts: LegsMade and LegsDiffer (which
  legs an ANSWER has at each step, none shared), OneOpen (SessionStore's promise), Closes (what a list
  can still hold), Owned (every open session is the leg of an ANSWER that stands or has yet to undo it),
  Kept (with gc quiet and no DELETE of the call, legs stay open), ClosesOwn, Found and Deleted (what a
  DELETE that met nobody has taken off), Holds and Sockets (which ports and listeners go with each step),
  OneOwner (a port is at one place: another call, one index of the stack, one ANSWER's leg, one
  listener).
* `LegsOfACall`: CallControlInv. `NoPortLost`: PortsConserved. Every step is first shown to be one of a
  few kinds of moves of legs (Kinds) and of ports (Deals); each part is then kept by kinds, not steps.
  The proof showed that DeleteClosesBoth needs no quiet gc; the hypothesis was dropped and the stronger
  form is what the run checks.

`WebRTCPoolProofs`. Of the WebRTC ingress, for any number of offers, sessions and packets:

* `WebRTCIInv`: Served (what an offer has by the step it has reached), PastKnows (what the record of
  the past excludes), AlreadyClosed (an offer that has closed its predecessor meets no other before it
  stores), and the properties themselves.
* `TableIsWatched`: WebRTCInv. `OnePeerFeeds`: LivePeerIsListed, as long as no two offers of a session
  have overlapped (`past`); with two that have, one peer is not listed (`handler.go:90`).

Of the worker pool, for any number of workers, sessions and packets, any chunk length and capacities,
under QuietReuse, which a behaviour of QuietSpec keeps by definition:

* `WorkerPoolIInv`. Users and Entries say what a session has in the pool by how far the coordinator is
  with it, and that an entry leads to a user that is not unregistered. Serving says that a worker at a
  pipeline serves the session of its job, and that the one that has cut a chunk is the one that holds
  the lock, with an empty chunker behind it. Own says whose every packet is, wherever it is. Whole is
  AudioIntact by owner: what is cut plus what is left, in the chunker or with the holder of the lock, is
  what was decoded. Ended says that after the last chunk nothing of the session goes on.
* `SoundIsIntact`: WorkerPoolInv. A worker finds the pipeline of its own job's session because a job in
  the queue keeps the ID from a second user; it may come to the lock long after, and the pipeline it
  found still is that session's.

`AIStreamProofs`, for any capacities, windows, retries, chunks and both configurations:

* `AIStreamIInv`. A chunk passes five places (audio channel, forwarder, send queue, sender, worker), a
  result four. Marks stand between the places: what lies in one is later than the mark before it, not
  later than the mark after it, and in order (AudioMarks, ResultMarks). A step moves one mark; a lost
  connection only takes away. InPlace, LoopsLeft and LeftForAReason say which goroutines of a pair are
  left and why; Books and Redials tie counters and retries to them.
* `OrderIsKept`: AIStreamInv. `GivenUpForAReason`: ReconnectsAsConfigured.
* `FinalResultsKept`: FinalsKept, that the final results on their way are those the worker has given on
  this connection. The set is taken apart by place, and each step moves a result from a place to the
  next. A further invariant, Tally, ties the numbers the worker gives to the chunks it has heard; that no
  result of a connection exists before it is dialled follows from the marks.

`ResultPathProofs`, for any number of sessions and workers, sinks, queue size, retries:

* `ResultPathIInv`: Numbered (the pump passes numbers in order), Apart (a result is in the queue, with
  one worker, dropped or ended, never two of these), Working and Listed (a worker has done the first sinks
  of its list and has the rest to do), Answers (every receipt belongs to a callback under way or ended;
  attempts are counted and only the last may be final), Ahead (one worker keeps the order).
* `OnePlaceAtATime`: ResultPathInv. `SendsEndAsAnswered`: EndsAsAnswered. `EachSinkServed`:
  EverySinkServed. `RetriesAreJustified`: ResentOnlyIfUnanswered, an action property.

`MediaPathProofs`, for any file, codec, rates, chunk length, widths of sequence number and timestamp,
and any network:

* `MediaIInv`: TimestampsPlaceAudio with four parts. Route: the sender's timestamp counts the frames it
  has read, and whatever is on its way is one of its datagrams. Counts: a datagram has one outcome, and
  a snapshot that loads the counters in order covers what it saw received. Stream: chunks and kept
  samples lie on the reference one after the other, and (what is out plus what is kept) times the input
  rate, less the input times the output rate, is the phase. After the close, what was kept is the last
  chunk or, if that was not sent, gone, and of the last packet some chunks may be missing before it. Answers: the worker's state sums up the
  results it has given, and only the last chunk it has heard can say EndOfStream.
* `AudioIsWhole`: AudioIsReference, that no sample is lost, doubled or shifted where packets or chunks
  meet (only the last sample of a packet is held, not interpolated towards the next packet, and the
  reference says so). The lemmas under it say what Resample does to a packet from a phase on (each output sample is the input
  sample the reference takes), and what Push and Flush do to a buffer.
* `TimestampsTell`: TimestampsPlaceAudio. `MessagesAreIntact`: MessagesArriveIntact: encoding and decoding
  are inverse for every chunk the pipeline gives, though fields that are zero are not sent.
* `MediaPathKept`: MediaPathInv, which has the counters, the times of chunks and the spans of results
  besides the messages.

**Assumptions made for the proofs**, each true of the program or of how a model encodes it. Sets of
calls, sessions, workers and ports are finite, where something is counted. Markers (`None`, `"over"`,
`"http"`) are not members of the sets they stand beside. AdmissionAssumption: a configuration's limits
are in range (ConfigOK) and there is a request. ResultAssumption: no sink is
twice in a list, since each `RegisterSink` (`coordinator.go`, `webrtc/handler.go`) gets a sink made for it.
JitterAssumption: the sequence space is even and the set of places finite, of any size. That nothing
arrives half of the sequence space (eleven minutes of audio) away from the places in use is a condition of
Arrive.
MediaAssumption: ConfigOK, that a decoder gives a slice of int16, a session has one or two channels,
rates are positive and a chunk has at least one sample.

**Only model-checked.**

* Liveness: no prover here handles fairness.
* FramesAreDecoded, that the decoders of Audio agree with what G.711 and the AMR-WB payload format say:
  powers of two, folds over bits and a choice over data, which no prover here evaluates. The run takes
  every byte and every frame type, which is the whole input space of G.711 and of the headers.

Neither checked nor proved: WorkerPool when an ID is reused while a job of its last user waits. By
`worker_pool.go:135` that job then goes to the pipeline of the new user.

## 6. Not modelled

* Session API handlers that only read, stats, metrics, debug and health endpoints, `monitor/`, logging,
  the middleware: they format state that is modelled elsewhere.
* `config/` but for `ToAIConfig`; flags and `main`'s order of waiting.
* Speech synthesis of AMR-WB (opencore, C) and Opus (pion); AMR-NB and EVS, which the code cannot
  decode; EVS format detection, level meters, `MixMono` and CallbackPool, which nothing calls.
* ICE, DTLS, SRTP, SCTP, gRPC and HTTP/2 themselves: external, by what they let the gateway see.
* The HTTP proxy of the data channel (`dc_proxy.go`), warming up of connections, gRPC keepalive.
* Real time: a timer that is armed may fire at any moment, except in Fleet and SessionManager, which
  count ticks. A slow Dial under the AI manager's lock is therefore not seen.
* The RFC 3550 jitter estimate and the mock result pump, a test aid.
