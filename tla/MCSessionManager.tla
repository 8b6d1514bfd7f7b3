-------------------------- MODULE MCSessionManager --------------------------
(* SessionManager on small instances.                                      *)
EXTENDS SessionManager, TLC

(* Objects, IDs and keys are interchangeable in the safety runs.           *)
Symmetry == Permutations(Objs) \cup Permutations(IDs) \cup Permutations(Keys)
=============================================================================
