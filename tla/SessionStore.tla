---------------------------- MODULE SessionStore ----------------------------
(***************************************************************************)
(* What session.Manager promises to the rest of the gateway, without its   *)
(* locks, indices, clock or collector.                                     *)
(*                                                                         *)
(* Every session object is allocated once, for one ID, and then goes       *)
(* through its stages in one direction:                                    *)
(*                                                                         *)
(*    absent --Allocate--> open --Unlink--> unlinked --End--> ended        *)
(*                                                                         *)
(* An open session is the one the manager's map holds for its ID; an       *)
(* unlinked one has left the map but its context is still live; an ended   *)
(* one has a cancelled context.  At most MaxSessions are open, and no two  *)
(* open sessions share an ID.  Nothing is said about who closes a session  *)
(* or when: the API handlers and the idle collector both may.              *)
(***************************************************************************)
EXTENDS Naturals, FiniteSets

CONSTANTS
  Objs,         \* session objects (one per successful Create)
  IDs,          \* session IDs, reusable after the session is unlinked
  None,         \* no object, no ID, no key
  MaxSessions   \* ManagerConfig.MaxSessions

ASSUME StoreAssumption ==
  /\ None \notin Objs \cup IDs
  /\ MaxSessions \in Nat

VARIABLES
  stage,        \* stage of every session object
  sid           \* Session.ID of every allocated object

storeVars == <<stage, sid>>

Stages == {"absent", "open", "unlinked", "ended"}

OpenSessions == {o \in Objs : stage[o] = "open"}

StoreInit ==
  /\ stage = [o \in Objs |-> "absent"]
  /\ sid = [o \in Objs |-> None]

Allocate(o, i) ==
  /\ stage[o] = "absent"
  /\ Cardinality(OpenSessions) < MaxSessions
  /\ \A p \in OpenSessions : sid[p] # i
  /\ stage' = [stage EXCEPT ![o] = "open"]
  /\ sid' = [sid EXCEPT ![o] = i]

Unlink(o) ==
  /\ stage[o] = "open"
  /\ stage' = [stage EXCEPT ![o] = "unlinked"]
  /\ UNCHANGED sid

End(o) ==
  /\ stage[o] = "unlinked"
  /\ stage' = [stage EXCEPT ![o] = "ended"]
  /\ UNCHANGED sid

StoreNext ==
  \E o \in Objs :
    \/ \E i \in IDs : Allocate(o, i)
    \/ Unlink(o)
    \/ End(o)

StoreSpec == StoreInit /\ [][StoreNext]_storeVars
=============================================================================
