----------------------------- MODULE WorkerPool -----------------------------
(***************************************************************************)
(* internal/pipeline: the queue of audio jobs that all sessions share, the *)
(* workers that take from it, and the pipeline of each session, which      *)
(* decodes a packet, cuts the samples into chunks and puts these into the  *)
(* session's AudioQueue, for its AI stream to send.                        *)
(*                                                                         *)
(* A worker finds the pipeline by the job's session ID, then locks it, and *)
(* keeps the lock while it waits for room in AudioQueue.  UnregisterSession *)
(* deletes the entry, then locks the pipeline to flush the rest of its     *)
(* samples as the last chunk.                                              *)
(*                                                                         *)
(* Samples are abstracted to the packet they come from: a chunk is the     *)
(* ChunkPackets packets it was cut from.  The AI stream appears as a       *)
(* reader of AudioQueue that may stop at any time.                         *)
(*                                                                         *)
(* A definition X_Bug is X with a bug that the runs are known to find; no  *)
(* action uses it.                                                         *)
(***************************************************************************)
EXTENDS SessionStore, Sequences

CONSTANTS
  Workers,        \* the goroutines of Run
  QueueSize,      \* WorkerPoolConfig.QueueSize
  AudioQueueSize, \* capacity of Session.AudioQueue
  ChunkPackets,   \* packets in a chunk: ChunkMs over the time of a packet
  MaxPackets,     \* bound: packets each session submits
  Silent          \* the packets that cannot be decoded, or decode to no samples

Packets == [from : Objs, n : Nat]

ASSUME PoolAssumption ==
  /\ {QueueSize, AudioQueueSize} \subseteq Nat
  /\ MaxPackets \in [Objs -> Nat]
  /\ ChunkPackets \in Nat \ {0}
  /\ None \notin Workers
  /\ Silent \subseteq Packets

VARIABLES
  pipes,     \* WorkerPool.pipelines: ID -> the session whose pipeline it is
  queue,     \* WorkerPool.queue
  at,        \* progress of each worker
  job,       \* the job it has taken
  served,    \* the session whose pipeline it looked up
  pending,   \* the chunk it has cut and not yet put into AudioQueue
  mutex,     \* sessionPipeline.mu: the worker that holds it
  chunker,   \* the packets whose samples are in the chunker's buffer
  decoded,   \* the packets each pipeline has decoded, in order
  audio,     \* Session.AudioQueue
  heard,     \* the chunks the AI stream has taken
  reader,    \* the send loop of the session's AI stream
  phase,     \* what the coordinator has done with the session
  flushee,   \* the session whose pipeline UnregisterSession is to flush
  submitted  \* packets the submit pump has passed to Submit

sharedVars == <<pipes, queue>>
workerVars == <<at, job, served, pending>>
pipeVars == <<mutex, chunker, decoded>>
streamVars == <<heard, reader>>
callerVars == <<phase, flushee, submitted>>
poolVars == <<storeVars, sharedVars, workerVars, pipeVars, audio, streamVars, callerVars>>

Chunks == [pcm : Seq(Packets), last : BOOLEAN]

PoolTypeOK ==
  /\ stage \in [Objs -> Stages]
  /\ sid \in [Objs -> IDs \cup {None}]
  /\ pipes \in [IDs -> Objs \cup {None}]
  /\ queue \in Seq(Packets) /\ Len(queue) <= QueueSize
  /\ at \in [Workers -> {"idle", "found", "emit"}]
  /\ job \in [Workers -> Packets \cup {None}]
  /\ served \in [Workers -> Objs \cup {None}]
  /\ pending \in [Workers -> Seq(Packets)]
  /\ mutex \in [Objs -> Workers \cup {None}]
  /\ chunker \in [Objs -> Seq(Packets)]
  /\ \A o \in Objs : Len(chunker[o]) < ChunkPackets
  /\ decoded \in [Objs -> Seq(Packets)]
  /\ audio \in [Objs -> Seq(Chunks)]
  /\ \A o \in Objs : Len(audio[o]) <= AudioQueueSize
  /\ heard \in [Objs -> Seq(Chunks)]
  /\ reader \in [Objs -> {"none", "running", "stopped"}]
  /\ phase \in [Objs -> {"idle", "registered", "pumping", "flushing", "done"}]
  /\ flushee \in [Objs -> Objs \cup {None}]
  /\ submitted \in [Objs -> Nat]

PoolInit ==
  /\ StoreInit
  /\ pipes = [i \in IDs |-> None]
  /\ queue = <<>>
  /\ at = [w \in Workers |-> "idle"]
  /\ job = [w \in Workers |-> None]
  /\ served = [w \in Workers |-> None]
  /\ pending = [w \in Workers |-> <<>>]
  /\ mutex = [o \in Objs |-> None]
  /\ chunker = [o \in Objs |-> <<>>]
  /\ decoded = [o \in Objs |-> <<>>]
  /\ audio = [o \in Objs |-> <<>>]
  /\ heard = [o \in Objs |-> <<>>]
  /\ reader = [o \in Objs |-> "none"]
  /\ phase = [o \in Objs |-> "idle"]
  /\ flushee = [o \in Objs |-> None]
  /\ submitted = [o \in Objs |-> 0]

Done(o) == stage[o] = "ended"

-----------------------------------------------------------------------------
(* The session manager and the coordinator, as far as the pool sees them.  *)

StoreStep ==
  /\ StoreNext
  /\ UNCHANGED <<sharedVars, workerVars, pipeVars, audio, streamVars, callerVars>>

(* RegisterSession: ErrSessionExists, or an error making the decoder.      *)
Register(o) ==
  /\ phase[o] = "idle" /\ stage[o] # "absent"
  /\ \/ /\ pipes[sid[o]] = None
        /\ pipes' = [pipes EXCEPT ![sid[o]] = o]
        /\ phase' = [phase EXCEPT ![o] = "registered"]
     \/ /\ phase' = [phase EXCEPT ![o] = "done"]
        /\ UNCHANGED pipes
  /\ UNCHANGED <<storeVars, queue, workerVars, pipeVars, audio, streamVars,
                 flushee, submitted>>

(* The AI stream is open and the pumps run.                                *)
StartPumps(o) ==
  /\ phase[o] = "registered"
  /\ phase' = [phase EXCEPT ![o] = "pumping"]
  /\ reader' = [reader EXCEPT ![o] = "running"]
  /\ UNCHANGED <<storeVars, sharedVars, workerVars, pipeVars, audio, heard,
                 flushee, submitted>>

(* UnregisterSession, by ID: by the cleanup goroutine, or by Start when the *)
(* AI stream cannot be opened.                                             *)
Unregister(o) ==
  /\ phase[o] = "registered" \/ (phase[o] = "pumping" /\ Done(o))
  /\ pipes' = [pipes EXCEPT ![sid[o]] = None]
  /\ flushee' = [flushee EXCEPT ![o] = pipes[sid[o]]]
  /\ phase' = [phase EXCEPT ![o] = IF pipes[sid[o]] = None THEN "done" ELSE "flushing"]
  /\ UNCHANGED <<storeVars, queue, workerVars, pipeVars, audio, streamVars, submitted>>

(* flush, under the pipeline's lock: the rest of the samples goes out as the *)
(* last chunk if there is room for it.                                     *)
Flush(o) ==
  LET p == flushee[o] IN
  /\ phase[o] = "flushing"
  /\ mutex[p] = None
  /\ phase' = [phase EXCEPT ![o] = "done"]
  /\ chunker' = [chunker EXCEPT ![p] = <<>>]
  /\ audio' = IF chunker[p] # <<>> /\ Len(audio[p]) < AudioQueueSize
              THEN [audio EXCEPT ![p] = Append(@, [pcm |-> chunker[p], last |-> TRUE])]
              ELSE audio
  /\ UNCHANGED <<storeVars, sharedVars, workerVars, mutex, decoded, streamVars,
                 flushee, submitted>>

(* Submit, by the submit pump, which may pass on packets for a while after *)
(* the context is done: the packet is dropped when the queue is full, and  *)
(* may be dropped when the context is done.                                *)
Submit(o) ==
  /\ phase[o] # "idle" /\ reader[o] # "none"
  /\ submitted[o] < MaxPackets[o]
  /\ submitted' = [submitted EXCEPT ![o] = @ + 1]
  /\ \/ /\ Len(queue) < QueueSize
        /\ queue' = Append(queue, [from |-> o, n |-> submitted[o] + 1])
     \/ /\ Len(queue) = QueueSize \/ Done(o)
        /\ UNCHANGED queue
  /\ UNCHANGED <<storeVars, pipes, workerVars, pipeVars, audio, streamVars,
                 phase, flushee>>

-----------------------------------------------------------------------------
(* Without a pipeline for it a job is forgotten.                           *)
Forgets_Leaves(w) == at' = [at EXCEPT ![w] = "left"] /\ UNCHANGED <<job, served>>
Forgets(w) == UNCHANGED <<at, job, served>>

(* A worker takes a job and finds the pipeline by its session ID.  Between   *)
(* the two the job might as well still be in the queue, but for the place in *)
(* it, which a larger QueueSize stands for: one step.                      *)
TakeJob(w) ==
  LET p == pipes[sid[Head(queue).from]] IN
  /\ at[w] = "idle"
  /\ queue # <<>>
  /\ queue' = Tail(queue)
  /\ IF p = None
     THEN Forgets(w)
     ELSE /\ at' = [at EXCEPT ![w] = "found"]
          /\ job' = [job EXCEPT ![w] = Head(queue)]
          /\ served' = [served EXCEPT ![w] = p]
  /\ UNCHANGED <<storeVars, pipes, pending, pipeVars, audio, streamVars, callerVars>>

(* The pipeline the worker has found, whoever has its ID by now.           *)
Pipeline_Again(w) ==
  IF pipes[sid[job[w].from]] = None THEN served[w] ELSE pipes[sid[job[w].from]]
Pipeline(w) == served[w]

Entered(w) == at[w] = "found" /\ mutex[Pipeline(w)] = None

Skips_Never(p) == FALSE
Skips(p) == Done(p)

(* The worker forgets the job it is done with.                             *)
Finish(w) ==
  /\ at' = [at EXCEPT ![w] = "idle"]
  /\ job' = [job EXCEPT ![w] = None]
  /\ served' = [served EXCEPT ![w] = None]
  /\ pending' = [pending EXCEPT ![w] = <<>>]

(* process ends at once: the context is done, the payload cannot be decoded, *)
(* or there is no sound in it.                                             *)
ProcessNothing(w) ==
  /\ Entered(w)
  /\ Skips(Pipeline(w)) \/ job[w] \in Silent
  /\ Finish(w)
  /\ UNCHANGED <<storeVars, sharedVars, pipeVars, audio, streamVars, callerVars>>

Holder_Unlocked(w) == None
Holder(w) == w

(* Enough samples for a chunk.                                             *)
Full_Late(buf) == Len(buf) > ChunkPackets
Full(buf) == Len(buf) = ChunkPackets

(* process decodes the packet and cuts a chunk when there is enough.       *)
Process(w) ==
  LET p == Pipeline(w)
      buf == Append(chunker[p], job[w])
  IN
  /\ Entered(w)
  /\ ~Skips(p) /\ job[w] \notin Silent
  /\ decoded' = [decoded EXCEPT ![p] = Append(@, job[w])]
  /\ chunker' = [chunker EXCEPT ![p] = IF Full(buf) THEN <<>> ELSE buf]
  /\ IF Full(buf)
     THEN /\ pending' = [pending EXCEPT ![w] = buf]
          /\ at' = [at EXCEPT ![w] = "emit"]
          /\ mutex' = [mutex EXCEPT ![p] = Holder(w)]
          /\ UNCHANGED <<job, served>>
     ELSE Finish(w) /\ UNCHANGED mutex
  /\ UNCHANGED <<storeVars, sharedVars, audio, streamVars, callerVars>>

Unlock(w) ==
  /\ Finish(w)
  /\ mutex' = [mutex EXCEPT ![Pipeline(w)] = None]
  /\ UNCHANGED <<storeVars, sharedVars, chunker, decoded, streamVars, callerVars>>

Emit(w) ==
  LET p == Pipeline(w) IN
  /\ at[w] = "emit"
  /\ Len(audio[p]) < AudioQueueSize
  /\ audio' = [audio EXCEPT ![p] = Append(@, [pcm |-> pending[w], last |-> FALSE])]
  /\ Unlock(w)

GivesUp_Never(p) == FALSE
GivesUp(p) == Done(p)

EmitCancelled(w) ==
  /\ at[w] = "emit"
  /\ GivesUp(Pipeline(w))
  /\ Unlock(w)
  /\ UNCHANGED audio

-----------------------------------------------------------------------------
(* The send loop of the AI stream.                                         *)

ReaderTakes(o) ==
  /\ reader[o] = "running"
  /\ audio[o] # <<>>
  /\ heard' = [heard EXCEPT ![o] = Append(@, Head(audio[o]))]
  /\ audio' = [audio EXCEPT ![o] = Tail(@)]
  /\ UNCHANGED <<storeVars, sharedVars, workerVars, pipeVars, reader, callerVars>>

ReaderStops(o) ==
  /\ reader[o] = "running"
  /\ reader' = [reader EXCEPT ![o] = "stopped"]
  /\ UNCHANGED <<storeVars, sharedVars, workerVars, pipeVars, audio, heard, callerVars>>

-----------------------------------------------------------------------------

WorkerStep(w) ==
  \/ TakeJob(w) \/ ProcessNothing(w) \/ Process(w)
  \/ Emit(w) \/ EmitCancelled(w)

PoolNext ==
  \/ StoreStep
  \/ \E o \in Objs : \/ Register(o) \/ StartPumps(o) \/ Unregister(o) \/ Flush(o)
                     \/ Submit(o) \/ ReaderTakes(o) \/ ReaderStops(o)
  \/ \E w \in Workers : WorkerStep(w)

(* The pool has unregistered the session, and no job of it waits.          *)
Settled(o) == phase[o] = "done" /\ \A k \in DOMAIN queue : queue[k].from # o

(* Callers that use an ID again only when its last user is settled; workers *)
(* may still have found its pipeline.                                      *)
QuietReuse ==
  \A o, q \in Objs :
    (o # q /\ sid[o] = sid[q] /\ sid[o] # None) => Settled(o) \/ Settled(q)

(* Workers run, and so do the cleanup goroutine and the send loop until it  *)
(* stops.  As packets are bounded every behaviour ends, so it is enough to  *)
(* assume that these do not all stop while one of them can go on.  Nothing  *)
(* obliges a session to end, a packet to come or the AI stream to go on.    *)
Fairness ==
  WF_poolVars(\/ \E w \in Workers : WorkerStep(w)
          \/ \E o \in Objs : \/ phase[o] = "pumping" /\ Unregister(o)
                            \/ Flush(o)
                            \/ ReaderTakes(o))

QuietSpec == PoolInit /\ [][PoolNext /\ QuietReuse']_poolVars /\ Fairness

-----------------------------------------------------------------------------
(* Properties.                                                             *)

Emitting(o) == {w \in Workers : at[w] = "emit" /\ served[w] = o}
PendingOf(o) ==
  IF Emitting(o) = {} THEN <<>> ELSE pending[CHOOSE w \in Emitting(o) : TRUE]

Conveyed(o) == heard[o] \o audio[o]

(* As long as a session is open, all sound that was decoded for it is in its *)
(* AI stream, in AudioQueue, with the worker that holds the pipeline or in   *)
(* the chunker, in the order of decoding: workers that compete for the       *)
(* pipeline, and wait for room while they hold it, lose, repeat and          *)
(* overtake nothing.                                                         *)
AudioIntact ==
  \A o \in Objs : ~Done(o) =>
    LET cs == Conveyed(o)
        cut == Len(cs) * ChunkPackets
    IN /\ \A k \in DOMAIN cs :
            cs[k].pcm = SubSeq(decoded[o], (k - 1) * ChunkPackets + 1, k * ChunkPackets)
       /\ PendingOf(o) \o chunker[o] = SubSeq(decoded[o], cut + 1, Len(decoded[o]))
       /\ cut <= Len(decoded[o])

(* A job names its session by ID, and a worker may come to the pipeline it   *)
(* found when the ID has another user: still no packet is decoded by the     *)
(* pipeline of another session, nor sent to its AI stream.                   *)
OwnSound ==
  \A o \in Objs :
    /\ \A k \in DOMAIN decoded[o] : decoded[o][k].from = o
    /\ \A k \in DOMAIN Conveyed(o) : \A j \in DOMAIN Conveyed(o)[k].pcm :
         Conveyed(o)[k].pcm[j].from = o

(* The chunk marked as the last one is the last one, although workers that   *)
(* found the pipeline before it was unregistered may still enter it.         *)
EndIsLast ==
  \A o \in Objs :
    \A k \in DOMAIN Conveyed(o) : Conveyed(o)[k].last => k = Len(Conveyed(o))

(* The cleanup of a session ends: no worker keeps the pipeline locked once   *)
(* the context is done, even if nobody reads AudioQueue any more.  (Sessions *)
(* and packets are bounded, so a state that comes back again and again is    *)
(* one in which something waits for ever.)                                   *)
CleanupEnds ==
  <>[](\A o \in Objs : Done(o) => phase[o] \notin {"pumping", "flushing"})

(* Only an open session whose AI stream has stopped can hold up the others:  *)
(* as long as there is none, the queue empties when no more packets come.    *)
Stalled(o) == phase[o] = "pumping" /\ reader[o] = "stopped" /\ ~Done(o)

JobsTaken == <>[](queue = <<>> \/ \E o \in Objs : Stalled(o))

(* What holds of the audio of a session at any moment, whichever workers    *)
(* handled its packets: decoded sound is its own, complete and in order, and *)
(* nothing comes after the chunk that ends it.                              *)
WorkerPoolInv == PoolTypeOK /\ AudioIntact /\ OwnSound /\ EndIsLast
=============================================================================
