----------------------------- MODULE MCPropagation -----------------------------
(***************************************************************************)
(* An instance of Propagation for TLC: one baggage key in two spellings,   *)
(* another in one, a name on Object.prototype, and a foreign request of    *)
(* each kind.                                                              *)
(***************************************************************************)
EXTENDS Propagation, TLC

CONSTANTS user, User, tenant, constructor, plain, escape, long, half

\* "escape" looks like the encoding of "plain", and "long" is cut in the middle
\* of a surrogate pair.
MCNormalized == [k \in Key |-> IF k = User THEN user ELSE k]
MCUnescaped == [v \in Value |-> IF v = escape THEN plain ELSE v]
MCTruncated == [v \in Value |-> IF v = long THEN half ELSE v]

Outside(id, flags, baggage) == Context(id, id + 1, None, flags, baggage)
MCOther == Outside(30, {"sampled"}, <<>>)

Text(id, flags) ==
  "uber-trace-id" :> [trace |-> id, span |-> id + 1, parent |-> None, flags |-> flags]

MCForeign ==
  {[carrier |-> Carrier("text", Text(10, {"sampled"}),
                        (user :> plain) @@ (User :> escape), <<>>, FALSE),
    context |-> Outside(10, {"sampled"}, <<>>)],
   [carrier |-> Carrier("text", <<>>, <<>>, <<>>, TRUE),
    context |-> Empty],
   [carrier |-> Carrier("http", Text(10, {}), user :> escape,
                        <<<<User, plain>>, <<user>>, <<user, long>>>>, TRUE),
    context |-> Outside(10, {}, <<>>)],
   [carrier |-> Carrier("http", "uber-trace-id" :> GarbledIds, <<>>,
                        <<<<user, plain>>>>, FALSE),
    context |-> Empty],
   [carrier |-> Carrier("b3", ("x-b3-traceid" :> 10) @@ ("x-b3-spanid" :> 11)
                                @@ ("x-b3-parentspanid" :> 12) @@ ("x-b3-flags" :> 1),
                        <<>>, <<>>, FALSE),
    context |-> Outside(10, {"sampled", "debug"}, <<>>)],
   [carrier |-> Carrier("b3", ("x-b3-traceid" :> 10) @@ ("x-b3-sampled" :> 1),
                        <<>>, <<>>, FALSE),
    context |-> Empty]}

===============================================================================
