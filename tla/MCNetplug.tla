------------------------------ MODULE MCNetplug ------------------------------
(***************************************************************************)
(* Small instances of Netplug for TLC.  Sessions change hands, and with    *)
(* one session for two clients the pool is exhausted; an earlier           *)
(* connection may have used one of the two session ids, so that they run   *)
(* out.  Clients are interchangeable where no liveness is checked.         *)
(***************************************************************************)
EXTENDS Netplug, TLC

MCQueues == {"command", "response"}
MCThreads == {"executor", "responder"}
ClientSymmetry == Permutations(Clients)
==============================================================================
