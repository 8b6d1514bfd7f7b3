---------------------------- MODULE MCWorkerPool ----------------------------
(* WorkerPool on small instances.                                          *)
EXTENDS WorkerPool, TLC

CONSTANTS o1, o2

(* One session fills its AudioQueue and keeps a worker waiting; the other  *)
(* sends a packet of silence, which needs a worker too.                    *)
MCPackets == o1 :> 4 @@ o2 :> 1
MCSilent == {[from |-> o2, n |-> 1]}
=============================================================================
