-------------------------------- MODULE MCRun --------------------------------
(***************************************************************************)
(* RunLifecycle for TLC.  The emitter of the worker is the one that is       *)
(* committed, a repaired one, or, where both are of interest, either.       *)
(***************************************************************************)
EXTENDS RunProperties

CommittedEmitter == {"raised"}
RepairedEmitter == {"published"}
AnyEmitter == CommittedEmitter \union RepairedEmitter
=============================================================================
