------------------------- MODULE MCSessionRegistry -------------------------
(* Two sockets over two sessions, one parked at a time: a claimant and the  *)
(* owner it supersedes, a park that evicts a session somebody is claiming,  *)
(* and a claim that queues behind one whose claimant gave up.  Liveness     *)
(* rules out symmetry reduction, so the sets stay this small; the theorems  *)
(* of SessionRegistryProofs cover the safety properties for any sets.       *)
EXTENDS SessionRegistry
=============================================================================
