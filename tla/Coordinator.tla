----------------------------- MODULE Coordinator -----------------------------
(***************************************************************************)
(* internal/coordinator: what Start wires for a session, what the cleanup  *)
(* goroutine takes down, and the tables both share with every other        *)
(* session: the dispatcher's sinks, the worker pool's pipelines, the AI    *)
(* manager's streams and the coordinator's jitter buffers.                 *)
(*                                                                         *)
(* All four tables are keyed by session ID, and an ID may be used again as *)
(* soon as the manager has unlinked the session that had it.  The cleanup  *)
(* goroutine of the earlier session runs at an unknown time after its      *)
(* context is cancelled, so it interleaves with the Start of the later     *)
(* one.  Each table access is one critical section of the component that   *)
(* owns the table, hence one action.                                       *)
(*                                                                         *)
(* Sessions themselves follow SessionStore, which SessionManager is shown  *)
(* to implement.                                                           *)
(*                                                                         *)
(* A definition X_Bug is X with a bug that the runs are known to find; no  *)
(* action uses it.                                                         *)
(***************************************************************************)
EXTENDS SessionStore, Sequences, SequencesExt

CONSTANTS
  Patchers,         \* ctrl-result requests; each is handled once
  ResultCallback,   \* is Config.ResultCallbackURL set (every session gets it)
  MaxActiveStreams  \* ai.Config.MaxActiveStreams

ASSUME CoordinatorAssumption ==
  /\ ResultCallback \in BOOLEAN
  /\ MaxActiveStreams \in Nat
  /\ None \notin Patchers
  /\ "over" \notin Objs

VARIABLES
  sinks,      \* Dispatcher.sinks: the HTTP callback sinks of every ID, in order
  pipes,      \* WorkerPool.pipelines: ID -> the session whose queues it feeds
  streams,    \* ai.Manager.streams: ID -> the session whose stream it is
  jitterBufs, \* Coordinator.jitterBufs: ID -> the session whose packets it holds
  pc,         \* progress of the one Start call on every session object
  cleanup,    \* progress of the session's cleanup goroutine
  run,        \* the goroutines of the session's AI stream
  url,        \* Session.CallbackURL: none, the configured one or a ctrl-result's
  patch,      \* the session each ctrl-result request has updated
  past        \* a record of the past, which no action reads: see PastAfter

startVars == <<pc, cleanup, run>>
tableVars == <<sinks, pipes, streams, jitterBufs>>
vars == <<storeVars, tableVars, startVars, url, patch, past>>

StartSteps == {"idle", "pool", "stream", "jitter", "spawn", "started",
               "undo_pool", "undo_sinks", "failed"}
CleanupSteps == {"none", "pool", "sinks", "jitter", "done"}

URLs == {"none", "configured", "patched"}

(* A callback sink knows for whom and with which URL it was made: the one of *)
(* the gateway's configuration or the one of a ctrl-result.                   *)
Sinks == Objs \X {"configured", "patched"}

Done(o) == stage[o] = "ended"

Streams == {i \in IDs : streams[i] # None}

TypeOK ==
  /\ stage \in [Objs -> Stages]
  /\ sid \in [Objs -> IDs \cup {None}]
  /\ sinks \in [IDs -> Seq(Sinks)]
  /\ pipes \in [IDs -> Objs \cup {None}]
  /\ streams \in [IDs -> Objs \cup {None}]
  /\ jitterBufs \in [IDs -> Objs \cup {None}]
  /\ pc \in [Objs -> StartSteps]
  /\ cleanup \in [Objs -> CleanupSteps]
  /\ run \in [Objs -> {"none", "running", "stopped", "reaped"}]
  /\ url \in [Objs -> URLs]
  /\ patch \in [Patchers -> Objs \cup {None, "over"}]
  /\ past \in [calm : BOOLEAN, stray : SUBSET Objs]

Init ==
  /\ StoreInit
  /\ sinks = [i \in IDs |-> <<>>]
  /\ pipes = [i \in IDs |-> None]
  /\ streams = [i \in IDs |-> None]
  /\ jitterBufs = [i \in IDs |-> None]
  /\ pc = [o \in Objs |-> "idle"]
  /\ cleanup = [o \in Objs |-> "none"]
  /\ run = [o \in Objs |-> "none"]
  /\ url = [o \in Objs |-> "none"]
  /\ patch = [p \in Patchers |-> None]
  /\ past = [calm |-> TRUE, stray |-> {}]

-----------------------------------------------------------------------------
(* The session manager.                                                    *)

(* Which of the unused objects a Create makes is only a matter of names.   *)
CreateSession(o, i) ==
  /\ Allocate(o, i)
  /\ o = CHOOSE p \in Objs : stage[p] = "absent"
  /\ url' = [url EXCEPT ![o] = IF ResultCallback THEN "configured" ELSE "none"]
  /\ UNCHANGED <<tableVars, startVars, patch>>

UnlinkSession(o) ==
  /\ Unlink(o)
  /\ UNCHANGED <<tableVars, startVars, url, patch>>

CancelSession(o) ==
  /\ End(o)
  /\ UNCHANGED <<tableVars, startVars, url, patch>>

-----------------------------------------------------------------------------
(* Start, called once with the session just created; that session may have *)
(* been closed in the meantime.                                            *)

GoTo(o, step) == pc' = [pc EXCEPT ![o] = step]

StartSink(o) ==
  /\ pc[o] = "idle"
  /\ stage[o] # "absent"
  /\ sinks' = IF url[o] # "none"
              THEN [sinks EXCEPT ![sid[o]] = Append(@, <<o, url[o]>>)]
              ELSE sinks
  /\ GoTo(o, "pool")
  /\ UNCHANGED <<storeVars, pipes, streams, jitterBufs, cleanup, run, url, patch>>

(* RegisterSession: ErrSessionExists, or an error making the pipeline.     *)
StartPool(o) ==
  /\ pc[o] = "pool"
  /\ \/ /\ pipes[sid[o]] = None
        /\ pipes' = [pipes EXCEPT ![sid[o]] = o]
        /\ GoTo(o, "stream")
     \/ /\ GoTo(o, "undo_sinks")
        /\ UNCHANGED pipes
  /\ UNCHANGED <<storeVars, sinks, streams, jitterBufs, cleanup, run, url, patch>>

StreamRoom_OffByOne == Cardinality(Streams) <= MaxActiveStreams
NoStream(i) == streams[i] = None

StreamRoom == Cardinality(Streams) < MaxActiveStreams

(* Manager.Open: ErrMaxStreams, ErrDuplicateStream, or the dial fails.     *)
StartStream(o) ==
  /\ pc[o] = "stream"
  /\ \/ /\ StreamRoom
        /\ NoStream(sid[o])
        /\ streams' = [streams EXCEPT ![sid[o]] = o]
        /\ run' = [run EXCEPT ![o] = "running"]
        /\ GoTo(o, "jitter")
     \/ /\ GoTo(o, "undo_pool")
        /\ UNCHANGED <<streams, run>>
  /\ UNCHANGED <<storeVars, sinks, pipes, jitterBufs, cleanup, url, patch>>

StartJitter(o) ==
  /\ pc[o] = "jitter"
  /\ jitterBufs' = [jitterBufs EXCEPT ![sid[o]] = o]
  /\ GoTo(o, "spawn")
  /\ UNCHANGED <<storeVars, sinks, pipes, streams, cleanup, run, url, patch>>

StartSpawn(o) ==
  /\ pc[o] = "spawn"
  /\ cleanup' = [cleanup EXCEPT ![o] = "pool"]
  /\ GoTo(o, "started")
  /\ UNCHANGED <<storeVars, tableVars, run, url, patch>>

UndoPool(o) ==
  /\ pc[o] = "undo_pool"
  /\ pipes' = [pipes EXCEPT ![sid[o]] = None]
  /\ GoTo(o, "undo_sinks")
  /\ UNCHANGED <<storeVars, sinks, streams, jitterBufs, cleanup, run, url, patch>>

UndoSinks_Kept(o) ==
  /\ pc[o] = "undo_sinks"
  /\ GoTo(o, "failed")
  /\ UNCHANGED <<storeVars, tableVars, cleanup, run, url, patch>>

UndoSinks_Nil(o) ==
  /\ pc[o] = "undo_sinks"
  /\ sinks' = [sinks EXCEPT ![sid[o]] = None]
  /\ GoTo(o, "failed")
  /\ UNCHANGED <<storeVars, pipes, streams, jitterBufs, cleanup, run, url, patch>>

UndoSinks(o) ==
  /\ pc[o] = "undo_sinks"
  /\ sinks' = [sinks EXCEPT ![sid[o]] = <<>>]
  /\ GoTo(o, "failed")
  /\ UNCHANGED <<storeVars, pipes, streams, jitterBufs, cleanup, run, url, patch>>

-----------------------------------------------------------------------------
(* The cleanup goroutine, which deletes by ID.                             *)

CleanupPool_Eager(o) ==
  /\ cleanup[o] = "pool"
  /\ pipes' = [pipes EXCEPT ![sid[o]] = None]
  /\ cleanup' = [cleanup EXCEPT ![o] = "sinks"]
  /\ UNCHANGED <<storeVars, sinks, streams, jitterBufs, pc, run, url, patch>>

CleanupPool(o) ==
  /\ cleanup[o] = "pool"
  /\ Done(o)
  /\ pipes' = [pipes EXCEPT ![sid[o]] = None]
  /\ cleanup' = [cleanup EXCEPT ![o] = "sinks"]
  /\ UNCHANGED <<storeVars, sinks, streams, jitterBufs, pc, run, url, patch>>

CleanupSinks(o) ==
  /\ cleanup[o] = "sinks"
  /\ sinks' = [sinks EXCEPT ![sid[o]] = <<>>]
  /\ cleanup' = [cleanup EXCEPT ![o] = "jitter"]
  /\ UNCHANGED <<storeVars, pipes, streams, jitterBufs, pc, run, url, patch>>

CleanupJitter(o) ==
  /\ cleanup[o] = "jitter"
  /\ jitterBufs' = [jitterBufs EXCEPT ![sid[o]] = None]
  /\ cleanup' = [cleanup EXCEPT ![o] = "done"]
  /\ UNCHANGED <<storeVars, sinks, pipes, streams, pc, run, url, patch>>

-----------------------------------------------------------------------------
(* The AI stream: runWithReconnect returns when the context is done, and   *)
(* also on its own (stream timeout, retries exhausted, worker closed); the *)
(* manager's goroutine then removes the entry if it is still this stream's.*)

StreamStops(o) ==
  /\ run[o] = "running"
  /\ run' = [run EXCEPT ![o] = "stopped"]
  /\ UNCHANGED <<storeVars, tableVars, pc, cleanup, url, patch>>

StreamReaped_WhileRunning(o) ==
  /\ run[o] \in {"running", "stopped"}
  /\ run' = [run EXCEPT ![o] = IF @ = "stopped" THEN "reaped" ELSE @]
  /\ streams' = [streams EXCEPT ![sid[o]] = IF @ = o THEN None ELSE @]
  /\ UNCHANGED <<storeVars, sinks, pipes, jitterBufs, pc, cleanup, url, patch>>

StreamReaped(o) ==
  /\ run[o] = "stopped"
  /\ run' = [run EXCEPT ![o] = "reaped"]
  /\ streams' = [streams EXCEPT ![sid[o]] = IF @ = o THEN None ELSE @]
  /\ UNCHANGED <<storeVars, sinks, pipes, jitterBufs, pc, cleanup, url, patch>>

-----------------------------------------------------------------------------
(* ctrl-result with a callback URL: Update finds the open session, however *)
(* far its Start has come, and gives it the URL; then UpdateCallbackSink   *)
(* replaces the HTTP sinks of the ID.  A peer may know the URL of the      *)
(* request from an earlier call with the same callId.                      *)

PatchSession(p, o) ==
  /\ patch[p] = None
  /\ stage[o] = "open"
  /\ url' = [url EXCEPT ![o] = "patched"]
  /\ patch' = [patch EXCEPT ![p] = o]
  /\ UNCHANGED <<storeVars, tableVars, startVars>>

ReplaceHTTPSink(p) ==
  /\ patch[p] \in Objs
  /\ sinks' = [sinks EXCEPT ![sid[patch[p]]] = <<<<patch[p], "patched">>>>]
  /\ patch' = [patch EXCEPT ![p] = "over"]
  /\ UNCHANGED <<storeVars, pipes, streams, jitterBufs, startVars, url>>

-----------------------------------------------------------------------------

StartStep(o) ==
  \/ StartSink(o) \/ StartPool(o) \/ StartStream(o) \/ StartJitter(o)
  \/ StartSpawn(o) \/ UndoPool(o) \/ UndoSinks(o)

CleanupStep(o) == CleanupPool(o) \/ CleanupSinks(o) \/ CleanupJitter(o)

Step ==
  \/ \E o \in Objs : \/ \E i \in IDs : CreateSession(o, i)
                     \/ UnlinkSession(o)
                     \/ CancelSession(o)
                     \/ StartStep(o)
                     \/ CleanupStep(o)
                     \/ StreamStops(o)
                     \/ StreamReaped(o)
                     \/ \E p \in Patchers : PatchSession(p, o)
  \/ \E p \in Patchers : ReplaceHTTPSink(p)

(* Nothing that was begun for the session is still going on.                   *)
Settled(o) ==
  /\ pc[o] = "failed" \/ cleanup[o] = "done"
  /\ run[o] \in {"none", "reaped"}
  /\ \A p \in Patchers : patch[p] # o

(* Rollback or cleanup has deleted the sinks of the session, and nothing will   *)
(* delete them again on its behalf.                                            *)
Swept(o) == pc[o] = "failed" \/ cleanup[o] \in {"jitter", "done"}

(* What has happened so far: was an ID used again only after the session that  *)
(* had it was settled, and for which sessions has a ctrl-result installed a    *)
(* sink although their sinks had been swept?                                   *)
PastAfter ==
  past' = [calm |-> past.calm /\
             \A o, q \in Objs :
               (o # q /\ sid[o] = sid[q] /\ sid[o] # None) => Settled(o) \/ Settled(q),
           stray |-> past.stray \cup
             {o \in Objs : Swept(o) /\ \E p \in Patchers : patch[p] = o /\ patch'[p] = "over"}]

Next == Step /\ PastAfter

Spec == Init /\ [][Next]_vars

(* A Start call, once begun, and a cleanup goroutine run to their end, a Close *)
(* in progress cancels, and a stream whose context is done stops and is        *)
(* reaped.  Creating and closing sessions, calling Start and sending           *)
(* ctrl-result are up to the callers.  One condition for all of them is enough,*)
(* since every object goes through its life once.                              *)
FairStep ==
  \E o \in Objs :
    \/ CancelSession(o)
    \/ pc[o] # "idle" /\ StartStep(o)
    \/ CleanupStep(o)
    \/ Done(o) /\ StreamStops(o)
    \/ StreamReaped(o)

FairSpec == Spec /\ WF_vars(FairStep /\ PastAfter)

-----------------------------------------------------------------------------
(* Properties.                                                             *)

(* Every running AI stream is the one its manager has under that session ID,   *)
(* until the manager itself removes it: a second Start cannot displace it, and *)
(* the reaper of an older stream cannot remove it.                             *)
StreamsTracked ==
  \A o \in Objs : run[o] \in {"running", "stopped"} => streams[sid[o]] = o

(* MaxActiveStreams bounds the streams that run, not just the table.           *)
StreamBound ==
  Cardinality({o \in Objs : run[o] = "running"}) <= MaxActiveStreams

(* Nothing is orphaned in the four tables: every entry belongs to a session    *)
(* whose own Start, rollback or cleanup has not yet passed the statement that  *)
(* deletes the entries of that ID.  In particular, once no Start, cleanup or   *)
(* stream goroutine is left, the tables are empty.  The one exception is the   *)
(* sink that a ctrl-result installs after that statement: the request had      *)
(* found its session open, and the session was closed, or its Start had failed *)
(* and rolled back, by the time the sink came.                                 *)
NothingOrphaned ==
  \A i \in IDs :
    /\ \A s \in ToSet(sinks[i]) :
         LET o == s[1] IN
         /\ sid[o] = i
         /\ \/ ~Swept(o)
            \/ s[2] = "patched" /\ o \in past.stray
    /\ pipes[i] # None =>
         LET o == pipes[i] IN
         /\ sid[o] = i
         /\ pc[o] \in {"stream", "jitter", "spawn", "undo_pool"} \/ cleanup[o] = "pool"
    /\ jitterBufs[i] # None =>
         LET o == jitterBufs[i] IN
         /\ sid[o] = i
         /\ pc[o] = "spawn" \/ cleanup[o] \in {"pool", "sinks", "jitter"}
    /\ streams[i] # None =>
         LET o == streams[i] IN sid[o] = i /\ run[o] \in {"running", "stopped"}

(* What the comment of Start says: once it has returned without error, the     *)
(* pipeline is ready for packets.  As long as the session is open, packets find*)
(* its pipeline, however IDs are used again.  Its jitter buffer is counted and *)
(* results find a sink of this session, and none of another but a stray one,   *)
(* as long as an ID is used again only once the session before it is settled:  *)
(* an earlier session's cleanup that comes late deletes sinks and buffer by ID *)
(* (coordinator.go:128-130), which the run co_ready shows.                     *)
StartedIsReady ==
  \A o \in Objs :
    (pc[o] = "started" /\ stage[o] = "open") =>
      /\ pipes[sid[o]] = o
      /\ past.calm =>
           /\ jitterBufs[sid[o]] = o
           /\ (url[o] # "none" /\ \A p \in Patchers : patch[p] # o) =>
                \E s \in ToSet(sinks[sid[o]]) : s[1] = o
           /\ \A s \in ToSet(sinks[sid[o]]) : s[1] = o \/ s[1] \in past.stray

(* What the comments say of the sinks: Start registers one if a URL is         *)
(* configured (coordinator.go:68) and they are deleted when the session closes *)
(* (dispatcher.go:81).  So an open session that was started has a sink.        *)
SinksUntilClose ==
  \A o \in Objs :
    (ResultCallback /\ pc[o] = "started" /\ stage[o] = "open") => sinks[sid[o]] # <<>>

Owns(o) ==
  \E i \in IDs : \/ pipes[i] = o \/ jitterBufs[i] = o \/ streams[i] = o
                \/ \E s \in ToSet(sinks[i]) :
                      s[1] = o /\ ~(s[2] = "patched" /\ o \in past.stray)

(* A closed session gives everything back: its pipeline, its jitter buffer,    *)
(* its stream and its sinks all go for good, whatever step Start was at when   *)
(* the session was closed, and whether Start succeeds or rolls back.  Two      *)
(* things stay: a sink that a ctrl-result installs after rollback or cleanup,  *)
(* and one that it gives to a session on which Start is never called.          *)
EventuallyReleased ==
  <>[](\A o \in Objs : Done(o) /\ pc[o] # "idle" => ~Owns(o))

(* What holds of the tables at any moment, however sessions reuse IDs: the AI *)
(* manager tracks every running stream and keeps its limit, and no entry has  *)
(* lost the session or the goroutine that will remove it.                     *)
CoordinatorInv == TypeOK /\ StreamsTracked /\ StreamBound /\ NothingOrphaned
=============================================================================
