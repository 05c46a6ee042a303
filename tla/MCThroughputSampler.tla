-------------------------- MODULE MCThroughputSampler --------------------------
(***************************************************************************)
(* An instance of ThroughputSampler for TLC: quarters of a credit, half    *)
(* seconds, lower bounds of none, one in two seconds and two in a second.  *)
(***************************************************************************)
EXTENDS ThroughputSampler

===============================================================================
