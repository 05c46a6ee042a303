---------------------------- MODULE MCRemoteSampler ----------------------------
(***************************************************************************)
(* An instance of RemoteSampler for TLC: two operations, room for one, and *)
(* two polls at a time.                                                    *)
(***************************************************************************)
EXTENDS RemoteSampler

CONSTANTS x, y, missing

\* Rates are thirds.  The last three throw: at an operation, at the default
\* rate, and at the lower bound.
MCAnswer ==
  {Malformed, Probabilistic(missing),
   RateLimiting(1), RateLimiting(missing), RateLimiting(-1),
   PerOperation(0, 2, <<>>),
   PerOperation(0, 2, [op \in {x, y} |-> 3]),
   PerOperation(1, 2, [op \in {x, y} |-> IF op = x THEN 1 ELSE 4]),
   PerOperation(1, 4, [op \in {y} |-> missing]),
   PerOperation(-1, 3, [op \in {x} |-> 1])}

===============================================================================
