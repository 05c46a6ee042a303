----------------------------- MODULE MCUDPReporter -----------------------------
(***************************************************************************)
(* Instances of UDPReporter for TLC.  The mutants are the plausible bugs   *)
(* that each property is checked to catch.                                 *)
(***************************************************************************)
EXTENDS UDPReporter

CONSTANTS a, b, c, d, e, bad, big

\* Two spans fill a batch exactly (a, b), others overflow it (c, e), one is
\* unwritable (d), one unconvertible (bad) and one too large (big).
MCSpanSize == [s \in Span |-> CASE s \in {c, e} -> 3 [] s = d -> 1 [] s = big -> 9
                               [] OTHER -> 2]

===============================================================================
