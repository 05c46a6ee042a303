---------------------------- MODULE MCTChannelBridge ---------------------------
(***************************************************************************)
(* An instance of TChannelBridge for TLC: two calls, traced or foreign,    *)
(* each of which may be made by the handler of the other.                  *)
(***************************************************************************)
EXTENDS TChannelBridge

CONSTANTS c1, c2, k1

===============================================================================
