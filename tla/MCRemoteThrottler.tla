--------------------------- MODULE MCRemoteThrottler ---------------------------
(***************************************************************************)
(* An instance of RemoteThrottler for TLC: an ordinary operation, one      *)
(* named like a method of Object.prototype and one named '__proto__', two  *)
(* fetches at a time, credits in halves of a unit.                         *)
(***************************************************************************)
EXTENDS RemoteThrottler

CONSTANTS get, constructor, proto

===============================================================================
