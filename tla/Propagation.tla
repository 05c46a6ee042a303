------------------------------ MODULE Propagation ------------------------------
(***************************************************************************)
(* How a trace goes from process to process: extract and inject of the     *)
(* codecs (src/propagators), the choice of a parent in Tracer.startSpan,   *)
(* and setBaggageItem with its restrictions (src/span.js, src/baggage).    *)
(*                                                                         *)
(* One request is followed.  It comes from a foreign client; each process  *)
(* extracts a context, starts spans, sets baggage, and injects its span    *)
(* into a new carrier with a codec of its choice, which the next process   *)
(* extracts with the same codec.  When sampling is final is left to        *)
(* SpanSampling.                                                           *)
(***************************************************************************)
EXTENDS Integers, Sequences

CONSTANTS
  Key,                  \* spellings of baggage keys
  Inherited,            \* of those, names on Object.prototype: `in` the cache
                        \* of normalized keys, although nobody put them there
  Normalized,           \* lower-cased, with dashes for underscores
  Lowered,              \* lower-cased
  Value,                \* baggage values
  Unescaped,            \* decodeURIComponent of a value, itself if it throws
  Truncated,            \* a value cut to maxValueLength
  Unencodable,          \* values with half a surrogate pair, which a cut may
                        \* leave: encodeURIComponent throws
  Foreign,              \* requests of foreign clients, with the context each
                        \* sends in the headers of its codec
  Other,                \* another context, which the program knows
  MaxSpans              \* bound of the model

Codec == {"text", "http", "b3", "binary"}
Flag == {"sampled", "debug"}
None == 0               \* no id
Garbled == -1           \* a header that holds no hexadecimal number, a zero
                        \* trace id, or too few parts

Context(trace, span, parent, flags, baggage) ==
  [trace |-> trace, span |-> span, parent |-> parent, flags |-> flags,
   baggage |-> baggage, debugId |-> FALSE]

\* The context that extract() returns when there is nothing to extract.  The
\* null of the binary codec makes no difference here.
Empty == Context(None, None, None, {}, <<>>)

\* headers are those of the trace context, items those with the baggage
\* prefix, pairs what jaeger-baggage lists once it is decoded, as a whole,
\* debugId is jaeger-debug-id.
Carrier(codec, headers, items, pairs, debugId) ==
  [codec |-> codec, headers |-> headers, items |-> items, pairs |-> pairs,
   debugId |-> debugId]
NoCarrier == Carrier("binary", <<>>, <<>>, <<>>, FALSE)

\* A value encoded for an URL.
Escaped(v) == [of |-> v]

ASSUME PropagationAssumption ==
  /\ Normalized \in [Key -> Key] /\ Lowered \in [Key -> Key]
  /\ Inherited \subseteq Key
  /\ \A k \in Key \ Inherited : Lowered[Normalized[k]] = Normalized[k]
  /\ Unescaped \in [Value -> Value] /\ Truncated \in [Value -> Value]
  /\ Unencodable \subseteq Value
  /\ \A v \in Value : Escaped(v) \notin Value
  /\ MaxSpans \in Nat

VARIABLES
  span,                 \* the context of the span at hand, or the foreign one
  spans,                \* spans started so far, which also are their ids
  onItsWay,             \* whether the request is between two processes,
  carrier,              \* and the carrier it has there
  counted,              \* metrics and logs of the last step, or its exception
  intact,               \* history: the carrier has the context of the span,
  trace,                \* the trace that it belongs to,
  chain,                \* its spans, each started below the one before,
  decided,              \* the flags decided on for it,
  items                 \* and the baggage items that were set on it

vars == <<span, spans, onItsWay, carrier, counted, intact, trace, chain,
          decided, items>>

-------------------------------------------------------------------------------

UrlEncoding(codec) == codec \in {"http", "b3"}

\* Mutant: values are put into the carrier as they are.
Encoded_Not(codec, v) == v

\* Whether _encodeValue throws for none of the items of b.
Encodable(codec, b) ==
  UrlEncoding(codec) => \A k \in DOMAIN b : b[k] \notin Unencodable

\* _encodeValue, of a value for which it does not throw.
Encoded(codec, v) == IF UrlEncoding(codec) THEN Escaped(v) ELSE v

\* Mutant: values are taken from the carrier as they are.
Decoded_Not(codec, w) == w

\* _decodeValue
Decoded(codec, w) ==
  IF ~UrlEncoding(codec) THEN w ELSE IF w \in Value THEN Unescaped[w] ELSE w.of

HeaderOf(c, name) == IF name \in DOMAIN c.headers THEN c.headers[name] ELSE None

NoIds == [trace |-> None, span |-> None, parent |-> None, flags |-> {}]
GarbledIds == [NoIds EXCEPT !.trace = Garbled]

\* TextMapCodec.extract has one header for all: whether there is no use of it.
BadText(c) == "uber-trace-id" \in DOMAIN c.headers /\ c.headers["uber-trace-id"] = GarbledIds

\* The ids and flags that SpanContext.fromString finds in it.
TextHeaders(c) ==
  IF "uber-trace-id" \notin DOMAIN c.headers \/ BadText(c) THEN NoIds
  ELSE c.headers["uber-trace-id"]

\* ZipkinB3TextMapCodec.extract: flags of the two headers; debug implies
\* sampled.
B3Flags(c) ==
  (IF HeaderOf(c, "x-b3-sampled") = 1 THEN {"sampled"} ELSE {})
    \cup (IF HeaderOf(c, "x-b3-flags") = 1 THEN {"sampled", "debug"} ELSE {})

B3Names == {"x-b3-traceid", "x-b3-spanid", "x-b3-parentspanid"}

BadB3(c) == \E name \in B3Names : HeaderOf(c, name) = Garbled

\* One bad id makes all three empty.
B3Headers(c) ==
  IF BadB3(c)
  THEN [NoIds EXCEPT !.flags = B3Flags(c)]
  ELSE [trace |-> HeaderOf(c, "x-b3-traceid"), span |-> HeaderOf(c, "x-b3-spanid"),
        parent |-> HeaderOf(c, "x-b3-parentspanid"), flags |-> B3Flags(c)]

\* The pairs of key k in jaeger-baggage; what is no pair is left out.
PairsOf(c, k) == {i \in DOMAIN c.pairs : Len(c.pairs[i]) = 2 /\ c.pairs[i][1] = k}

\* parseCommaSeparatedBaggage: a later pair wins.
Listed(c) ==
  [k \in {k \in Key : PairsOf(c, k) # {}} |->
     LET last == CHOOSE i \in PairsOf(c, k) : \A j \in PairsOf(c, k) : j <= i
     IN c.pairs[last][2]]

\* The items of b, and those of old that b does not have.
Over(b, old) ==
  [k \in DOMAIN b \cup DOMAIN old |-> IF k \in DOMAIN b THEN b[k] ELSE old[k]]

\* The baggage in a carrier.  Of items and pairs of the same key, the one that
\* comes later in the carrier wins.
Baggages(c) ==
  LET prefixed == [k \in DOMAIN c.items |-> Decoded(c.codec, c.items[k])]
  IN {Over(prefixed, Listed(c)), Over(Listed(c), prefixed)}

\* The ids and flags in a carrier.
IdsOf(c) == IF c.codec = "b3" THEN B3Headers(c) ELSE TextHeaders(c)

\* extract() of the codecs.
Extracted(c) ==
  IF c.codec = "binary" THEN {Empty}
  ELSE LET ids == IdsOf(c)
       IN {[trace |-> ids.trace, span |-> ids.span, parent |-> ids.parent,
            flags |-> ids.flags, baggage |-> b, debugId |-> c.debugId] :
             b \in Baggages(c)}

\* Whether extract() counts a decoding error.
DecodingError(c) ==
  \/ c.codec \in {"text", "http"} /\ BadText(c)
  \/ c.codec = "b3" /\ BadB3(c)

\* Mutant: there is no need of a header for debug.
DecisionHeader_Sampled(s) == "x-b3-sampled"

\* ZipkinB3TextMapCodec.inject: debug implies sampled, so it comes without it.
DecisionHeader(s) == IF "debug" \in s.flags THEN "x-b3-flags" ELSE "x-b3-sampled"

\* inject() of the codecs: the headers of the trace context.
InjectedHeaders(codec, s) ==
  CASE codec \in {"text", "http"} ->
         [name \in {"uber-trace-id"} |->
            [trace |-> s.trace, span |-> s.span, parent |-> s.parent, flags |-> s.flags]]
    [] codec = "b3" ->
         [name \in {"x-b3-traceid", "x-b3-spanid", DecisionHeader(s)}
                     \cup (IF s.parent # None THEN {"x-b3-parentspanid"} ELSE {}) |->
            CASE name = "x-b3-traceid" -> s.trace
              [] name = "x-b3-spanid" -> s.span
              [] name = "x-b3-parentspanid" -> s.parent
              [] name = "x-b3-flags" -> 1
              [] name = "x-b3-sampled" -> IF "sampled" \in s.flags THEN 1 ELSE 0]
    [] codec = "binary" -> <<>>

\* The items of b with a key in ks.
Restricted(b, ks) == [k \in DOMAIN b \cap ks |-> b[k]]

\* inject() of the codecs: a header for each baggage item.
InjectedItems(codec, baggage) ==
  IF codec = "binary" THEN <<>>
  ELSE [k \in DOMAIN baggage |-> Encoded(codec, baggage[k])]

-------------------------------------------------------------------------------

IsValid(c) == c.trace # None /\ c.span # None

Reference(type, c) == [type |-> type, context |-> c]

IsChildOf(ref) == ref.type = "child_of"

\* Mutant: the first reference is the parent, whatever its type.
ParentOf_First(references) == references[1].context

\* startSpan: a CHILD_OF reference is preferred, the option childOf first, even
\* when it comes after a FOLLOWS_FROM reference.
ParentOf(references) ==
  LET children == {i \in DOMAIN references : IsChildOf(references[i])}
      first == CHOOSE i \in children : \A j \in children : i <= j
  IN references[IF children = {} THEN 1 ELSE first].context

\* startSpan without a valid parent: sampler and debug throttler may answer
\* anything, the latter is asked for a debug id only.
RootFlags(parent) ==
  {{}, {"sampled"}} \cup (IF parent.debugId THEN {{"sampled", "debug"}} ELSE {})

\* The span that startSpan makes below a parent.
Started(parent, id) ==
  IF IsValid(parent)
  THEN {Context(parent.trace, id, parent.span, parent.flags, parent.baggage)}
  ELSE {Context(id, id, None, flags, parent.baggage) : flags \in RootFlags(parent)}

-------------------------------------------------------------------------------

\* What a server makes of the extracted context x: an option or a reference,
\* perhaps next to one to another context.
References(x) ==
  {<<Reference("child_of", x)>>,
   <<Reference("follows_from", x)>>,
   <<Reference("child_of", x), Reference("follows_from", Other)>>,
   <<Reference("follows_from", Other), Reference("child_of", x)>>}

\* The request arrives: extract() and startSpan().
Receive ==
  /\ onItsWay
  /\ spans < MaxSpans
  /\ \E x \in Extracted(carrier) : \E references \in References(x) :
       span' \in Started(ParentOf(references), spans + 1)
  /\ spans' = spans + 1
  /\ onItsWay' = FALSE
  /\ carrier' = NoCarrier
  /\ counted' = IF DecodingError(carrier) THEN {"decodingErrors"} ELSE {}
  /\ IF intact
     THEN chain' = Append(chain, spans') /\ UNCHANGED <<trace, decided>>
     ELSE chain' = <<spans'>> /\ trace' = spans' /\ decided' = span'.flags
  /\ UNCHANGED <<intact, items>>

\* A child of the span at hand, in the same process.
StartChild ==
  /\ ~onItsWay
  /\ spans < MaxSpans
  /\ span' \in Started(span, spans + 1)
  /\ spans' = spans + 1
  /\ chain' = Append(chain, spans')
  /\ counted' = {}
  /\ UNCHANGED <<onItsWay, carrier, intact, trace, decided, items>>

\* setTag of sampling.priority: on, when the throttler allows it, or off.
SetPriority ==
  /\ ~onItsWay
  /\ \E flags \in {span.flags \cup Flag, span.flags \ {"sampled"}} :
       /\ flags = span.flags \cup Flag => "debug" \notin span.flags
       /\ span' = [span EXCEPT !.flags = flags]
       /\ decided' = flags
  /\ counted' = {}
  /\ UNCHANGED <<spans, onItsWay, carrier, intact, trace, chain, items>>

\* BaggageSetter._logFields: a sampled span keeps a log of the change.
Logged == IF "sampled" \in span.flags THEN {"log"} ELSE {}

\* setBaggageItem, when the restriction manager does not allow the key.
RefuseBaggageItem ==
  /\ ~onItsWay
  /\ counted' = {"baggageUpdateFailure"} \cup Logged
  /\ UNCHANGED <<span, spans, onItsWay, carrier, intact, trace, chain, decided,
                 items>>

\* withBaggageItem
WithItem(b, key, v) == Over([k \in {key} |-> v], b)

\* BaggageSetter.setBaggage cuts a value that is too long.
Cut(value, maxed) == IF maxed THEN Truncated[value] ELSE value
Truncation(value, maxed) ==
  IF Cut(value, maxed) # value THEN {"baggageTruncate"} ELSE {}

\* setBaggageItem, of a value that may be longer than the restriction allows.
\* The cache of _normalizeBaggageKey holds what it would compute again.
SetBaggageItem(key, value, maxed) ==
  LET v == Cut(value, maxed)
  IN /\ ~onItsWay
     /\ key \notin Inherited
     /\ span' = [span EXCEPT !.baggage = WithItem(@, Normalized[key], v)]
     /\ items' = WithItem(items, Normalized[key], v)
     /\ counted' = {"baggageUpdateSuccess"} \cup Logged \cup Truncation(value, maxed)
     /\ UNCHANGED <<spans, onItsWay, carrier, intact, trace, chain, decided>>

\* setBaggageItem of a key that is found on the prototype of the cache: it is
\* normalized to a function, and getBaggageItem, called for the item that is
\* there before, throws where it would normalize that.
SetBaggageThrows(key, value, maxed) ==
  /\ ~onItsWay
  /\ key \in Inherited
  /\ counted' = {"exception"} \cup Truncation(value, maxed)
  /\ UNCHANGED <<span, spans, onItsWay, carrier, intact, trace, chain, decided,
                 items>>

\* inject() into a new carrier.  The binary codec carries nothing.
Inject(codec) ==
  /\ ~onItsWay
  /\ Encodable(codec, span.baggage)
  /\ onItsWay' = TRUE
  /\ carrier' = Carrier(codec, InjectedHeaders(codec, span),
                        InjectedItems(codec, span.baggage), <<>>, FALSE)
  /\ intact' = (codec # "binary")
  /\ items' = IF codec = "binary" THEN <<>> ELSE items
  /\ counted' = {}
  /\ UNCHANGED <<span, spans, trace, chain, decided>>

\* inject() throws at an item that cannot be encoded, after the headers of the
\* trace context and the items before it; and the program sends the request
\* with those.
InjectThrows(codec) ==
  /\ ~onItsWay
  /\ ~Encodable(codec, span.baggage)
  /\ onItsWay' = TRUE
  /\ \E done \in SUBSET {k \in DOMAIN span.baggage : span.baggage[k] \notin Unencodable} :
       /\ carrier' = Carrier(codec, InjectedHeaders(codec, span),
                             InjectedItems(codec, Restricted(span.baggage, done)),
                             <<>>, FALSE)
       /\ items' = Restricted(items, done)
  /\ intact' = TRUE
  /\ counted' = {"exception"}
  /\ UNCHANGED <<span, spans, trace, chain, decided>>

-------------------------------------------------------------------------------

\* HTTP does not keep the case of a name, and of two names that become the same
\* only one value arrives.
LowerCased ==
  /\ onItsWay
  /\ UrlEncoding(carrier.codec)
  /\ LET names == DOMAIN carrier.items
         lowered == {Lowered[k] : k \in names}
     IN \E pick \in [lowered -> names] :
          /\ \A k \in lowered : Lowered[pick[k]] = k
          /\ carrier' = [carrier EXCEPT !.items =
                           [k \in lowered |-> carrier.items[pick[k]]]]
          /\ items' = [k \in {k \in DOMAIN items :
                                \A other \in names : Lowered[other] = k => other = k}
                         |-> items[k]]
  /\ counted' = {}
  /\ UNCHANGED <<span, spans, onItsWay, intact, trace, chain, decided>>

\* A header of the trace context is damaged on the way.
Damaged ==
  /\ onItsWay
  /\ \/ \E name \in DOMAIN carrier.headers \cap B3Names :
            carrier' = [carrier EXCEPT !.headers[name] = Garbled]
     \/ /\ "uber-trace-id" \in DOMAIN carrier.headers
        /\ carrier' = [carrier EXCEPT !.headers["uber-trace-id"] = GarbledIds]
  /\ intact' = FALSE
  /\ counted' = {}
  /\ UNCHANGED <<span, spans, onItsWay, trace, chain, decided, items>>

\* The request is lost on the way, and the process may try again.
Lost ==
  /\ onItsWay
  /\ spans > 0
  /\ onItsWay' = FALSE
  /\ carrier' = NoCarrier
  /\ intact' = TRUE
  /\ counted' = {}
  /\ UNCHANGED <<span, spans, trace, chain, decided, items>>

-------------------------------------------------------------------------------

\* The headers of a codec, each of which names the ids and flags of a context.
HeaderNames(codec) ==
  CASE codec \in {"text", "http"} -> {"uber-trace-id"}
    [] codec = "b3" -> B3Names \cup {"x-b3-sampled", "x-b3-flags"}
    [] codec = "binary" -> {}

\* What foreign clients send: headers of their codec, and the context that they
\* hold, or none; and baggage as they like, but no item '__proto__', which
\* extract() would not keep.
ASSUME ForeignAssumption ==
  \A f \in Foreign :
    /\ f.carrier = Carrier(f.carrier.codec, f.carrier.headers, f.carrier.items,
                           f.carrier.pairs, f.carrier.debugId)
    /\ f.carrier.codec \in Codec
    /\ DOMAIN f.carrier.headers \subseteq HeaderNames(f.carrier.codec)
    /\ DOMAIN f.carrier.items \subseteq Key
    /\ f.carrier.items \in [DOMAIN f.carrier.items -> Value]
    /\ f.carrier.pairs \in Seq(Seq(Key \cup Value))
    /\ \A i \in DOMAIN f.carrier.pairs :
         Len(f.carrier.pairs[i]) = 2 => f.carrier.pairs[i][2] \in Value
    /\ f.carrier.debugId \in BOOLEAN
    /\ f.context = Context(f.context.trace, f.context.span, None, f.context.flags, <<>>)
    /\ f.context.trace \in Nat /\ f.context.span \in Nat
    /\ f.context.flags \subseteq Flag
    /\ \A x \in Extracted(f.carrier) :
         IF IsValid(f.context)
         THEN /\ x.trace = f.context.trace
              /\ x.span = f.context.span
              /\ x.flags = f.context.flags
         ELSE ~IsValid(x)

Init ==
  /\ \E f \in Foreign :
       /\ carrier = f.carrier
       /\ span = f.context
       /\ intact = IsValid(f.context)
       /\ trace = f.context.trace
       /\ chain = <<f.context.span>>
       /\ decided = f.context.flags
  /\ spans = 0
  /\ onItsWay = TRUE
  /\ counted = {}
  /\ items = <<>>

Next ==
  \/ Receive \/ StartChild \/ SetPriority \/ RefuseBaggageItem
  \/ \E key \in Key, value \in Value, maxed \in BOOLEAN :
       SetBaggageItem(key, value, maxed) \/ SetBaggageThrows(key, value, maxed)
  \/ \E codec \in Codec : Inject(codec) \/ InjectThrows(codec)
  \/ LowerCased \/ Damaged \/ Lost

Spec == Init /\ [][Next]_vars

-------------------------------------------------------------------------------

Id == 0..MaxSpans
        \cup {f.context.trace : f \in Foreign} \cup {f.context.span : f \in Foreign}

\* In particular baggage holds values only, none of them still encoded.
TypeOK ==
  /\ span.trace \in Id /\ span.span \in Id /\ span.parent \in Id
  /\ span.flags \subseteq Flag
  /\ \E keys \in SUBSET Key : span.baggage \in [keys -> Value]
  /\ spans \in 0..MaxSpans
  /\ onItsWay \in BOOLEAN
  /\ carrier.codec \in Codec
  /\ counted \subseteq {"decodingErrors", "baggageUpdateSuccess", "log",
                         "baggageUpdateFailure", "baggageTruncate", "exception"}
  /\ intact \in BOOLEAN
  /\ trace \in Id
  /\ chain \in Seq(Id)
  /\ decided \subseteq Flag
  /\ \E keys \in SUBSET Key : items \in [keys -> Value]

\* However many processes a request went through, and by whatever codecs, its
\* span is in the trace that it began with, below the span that sent it, or the
\* first of a new trace when the headers were damaged or carried nothing
\* (tracer.js startSpan, extract and inject of the codecs).
OneTrace ==
  spans > 0 =>
    /\ span.trace = trace
    /\ span.span = chain[Len(chain)]
    /\ span.parent = IF Len(chain) = 1 THEN None ELSE chain[Len(chain) - 1]

\* The decision travels with the trace: a sampled span is not followed by one
\* that is not, nor one that is neither sampled nor in debug by one that is.
\* A span in debug that was switched off is switched on again by B3, which has
\* no header for it (zipkin_b3_text_map_codec.js inject, extract).
DecisionTravels ==
  /\ "debug" \in span.flags <=> "debug" \in decided
  /\ "sampled" \in decided => "sampled" \in span.flags
  /\ "sampled" \in span.flags => decided # {}

\* A baggage item that was set reaches every later process, whatever its value
\* looks like, whatever codecs it goes through and even if the trace context is
\* damaged, unless it met another spelling of its key in HTTP headers, or
\* inject() threw before it came to it: at a value, its own or another, that
\* cannot be encoded for an URL.  Setting one fails for the keys in Inherited
\* (span.js setBaggageItem, _normalizeBaggageKey; extract and inject of the
\* codecs).
BaggageReaches ==
  \A k \in DOMAIN items :
    k \in DOMAIN span.baggage /\ span.baggage[k] = items[k]

===============================================================================
