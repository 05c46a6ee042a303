---------------------------- MODULE MCSpanSampling ----------------------------
(***************************************************************************)
(* An instance of SpanSampling for TLC: two spans, which are two traces or *)
(* a parent and its child, each with one context that may become stale.    *)
(***************************************************************************)
EXTENDS SpanSampling, TLC

CONSTANTS s1, s2

\* The spans are alike; no property is about liveness.
Symmetry == Permutations(Span)

===============================================================================
