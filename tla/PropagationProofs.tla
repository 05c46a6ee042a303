--------------------------- MODULE PropagationProofs ---------------------------
(***************************************************************************)
(* Proofs about Propagation, for any keys, values and foreign clients, and *)
(* any number of processes; among the keys those that setBaggageItem()     *)
(* throws at, among the values those that inject() throws at.              *)
(*                                                                         *)
(* Between two processes a trace is nowhere but in the carrier. So the     *)
(* inductive invariant says what the codec will read there: the ids and    *)
(* the flags of the span at hand, or nothing that is valid (IdsArrive),    *)
(* and each baggage item (ItemsArrive).                                    *)
(***************************************************************************)
EXTENDS Propagation, WellFoundedInduction, TLAPS

Baggage == UNION {[keys -> Value] : keys \in SUBSET Key}
IsBaggage(b) == \E keys \in SUBSET Key : b \in [keys -> Value]
SpanContext ==
  [trace : Id, span : Id, parent : Id, flags : SUBSET Flag, baggage : Baggage,
   debugId : BOOLEAN]

\* The types that TypeOK has no need of: what a carrier holds can be decoded.
CarrierOK ==
  /\ carrier = Carrier(carrier.codec, carrier.headers, carrier.items,
                       carrier.pairs, carrier.debugId)
  /\ carrier.debugId \in BOOLEAN
  /\ DOMAIN carrier.headers \subseteq HeaderNames(carrier.codec)
  /\ DOMAIN carrier.items \subseteq Key
  /\ \A k \in DOMAIN carrier.items : Decoded(carrier.codec, carrier.items[k]) \in Value
  /\ \E n \in Nat : DOMAIN carrier.pairs = 1..n
  /\ \A i \in DOMAIN carrier.pairs :
       Len(carrier.pairs[i]) = 2 => carrier.pairs[i][2] \in Value

SpanOK == span \in SpanContext

\* The flags that are read for those that were written: the same, but for B3.
FlagsArrive(read, written) ==
  read = written \/ (written = {"debug"} /\ read = Flag)

\* The codec reads the ids of the span at hand, or none.
IdsArrive ==
  onItsWay =>
    IF intact
    THEN /\ carrier.codec # "binary"
         /\ IdsOf(carrier).trace = span.trace
         /\ IdsOf(carrier).span = span.span
         /\ FlagsArrive(IdsOf(carrier).flags, span.flags)
    ELSE carrier.codec # "binary" => ~IsValid(IdsOf(carrier))

\* The span at hand is the last of the chain.
AtHand ==
  /\ ~onItsWay => spans > 0
  /\ chain # <<>>
  /\ (spans > 0 \/ intact) => /\ IsValid(span)
                            /\ span.trace = trace
                            /\ span.span = chain[Len(chain)]

\* Each item is in the carrier, and nothing there hides it.
ItemsArrive ==
  /\ \A k \in DOMAIN items : Lowered[k] = k
  /\ onItsWay => \A k \in DOMAIN items :
       /\ k \in DOMAIN carrier.items
       /\ Decoded(carrier.codec, carrier.items[k]) = items[k]
       /\ carrier.pairs = <<>> /\ carrier.codec # "binary"

IInv == /\ TypeOK /\ CarrierOK /\ SpanOK
        /\ IdsArrive /\ AtHand /\ OneTrace /\ DecisionTravels
        /\ ItemsArrive /\ BaggageReaches

-------------------------------------------------------------------------------
(* Baggage                                                                 *)

LEMMA EmptyBaggage == IsBaggage(<<>>) /\ DOMAIN <<>> = {}
<1>1. <<>> \in [{} -> Value] /\ DOMAIN <<>> = {}
  OBVIOUS
<1> QED
  BY <1>1 DEF IsBaggage

LEMMA BaggageDomain ==
  ASSUME NEW b, IsBaggage(b)
  PROVE  /\ DOMAIN b \subseteq Key
         /\ b \in [DOMAIN b -> Value]
         /\ \A k \in DOMAIN b : b[k] \in Value
BY DEF IsBaggage

LEMMA MergedBaggage ==
  ASSUME NEW a, NEW b, IsBaggage(a), IsBaggage(b)
  PROVE  /\ IsBaggage(Over(a, b))
         /\ DOMAIN Over(a, b) = DOMAIN a \cup DOMAIN b
         /\ \A k \in DOMAIN a : Over(a, b)[k] = a[k]
         /\ \A k \in DOMAIN b : k \notin DOMAIN a => Over(a, b)[k] = b[k]
<1>1. Over(a, b) \in [DOMAIN a \cup DOMAIN b -> Value]
  BY BaggageDomain DEF Over
<1>2. DOMAIN a \cup DOMAIN b \in SUBSET Key
  BY BaggageDomain
<1>3. IsBaggage(Over(a, b))
  BY <1>1, <1>2 DEF IsBaggage
<1> QED
  BY <1>3 DEF Over

LEMMA RestrictedBaggage ==
  ASSUME NEW b, IsBaggage(b), NEW ks
  PROVE  /\ IsBaggage(Restricted(b, ks))
         /\ DOMAIN Restricted(b, ks) = DOMAIN b \cap ks
         /\ \A k \in DOMAIN Restricted(b, ks) : Restricted(b, ks)[k] = b[k]
<1>1. Restricted(b, ks) \in [DOMAIN b \cap ks -> Value]
  BY BaggageDomain DEF Restricted
<1>2. DOMAIN b \cap ks \in SUBSET Key
  BY BaggageDomain
<1> QED
  BY <1>1, <1>2 DEF IsBaggage, Restricted

LEMMA OneMoreItem ==
  ASSUME NEW b, IsBaggage(b), NEW key \in Key, NEW v \in Value
  PROVE  /\ IsBaggage(WithItem(b, key, v))
         /\ DOMAIN WithItem(b, key, v) = DOMAIN b \cup {key}
         /\ WithItem(b, key, v)[key] = v
         /\ \A k \in DOMAIN b : k # key => WithItem(b, key, v)[k] = b[k]
<1> DEFINE one == [k \in {key} |-> v]
<1>1. one \in [{key} -> Value]
  OBVIOUS
<1>2. IsBaggage(one)
  BY <1>1 DEF IsBaggage
<1>3. DOMAIN one = {key} /\ one[key] = v
  OBVIOUS
<1>4. WithItem(b, key, v) = Over(one, b)
  BY DEF WithItem
<1> HIDE DEF one
<1>5. /\ IsBaggage(Over(one, b))
      /\ DOMAIN Over(one, b) = DOMAIN one \cup DOMAIN b
      /\ \A k \in DOMAIN one : Over(one, b)[k] = one[k]
      /\ \A k \in DOMAIN b : k \notin DOMAIN one => Over(one, b)[k] = b[k]
  BY <1>2, MergedBaggage, Zenon
<1> QED
  BY <1>3, <1>4, <1>5

\* A set of natural numbers has a least one, and one of positions a greatest.
LEMMA Least ==
  ASSUME NEW T \in SUBSET Nat, T # {}
  PROVE  \E x \in T : \A y \in T : x <= y
<1> DEFINE R == OpToRel(<, Nat)
<1>1. IsWellFoundedOn(R, Nat)
  BY NatLessThanWellFounded
<1>2. \A x, y \in Nat : y < x => <<y, x>> \in R
  BY DEF OpToRel
<1> HIDE DEF R
<1>3. PICK x \in T : \A y \in T : <<y, x>> \notin R
  BY <1>1, WFMin
<1>4. ASSUME NEW y \in T PROVE x <= y
  <2>1. x \in Nat /\ y \in Nat
    OBVIOUS
  <2>2. ~(y < x)
    BY <1>2, <1>3, <2>1
  <2> QED
    BY <2>1, <2>2
<1> QED
  BY <1>4

LEMMA Greatest ==
  ASSUME NEW n \in Nat, NEW S \in SUBSET (1..n), S # {}
  PROVE  \E x \in S : \A y \in S : y <= x
<1> DEFINE T == {n - x : x \in S}
<1>1. \A x \in 1..n : n - x \in Nat
  OBVIOUS
<1>2. T \in SUBSET Nat
  BY <1>1
<1>3. T # {} /\ \A y \in S : n - y \in T
  OBVIOUS
<1>4. \A t \in T : \E x \in S : t = n - x
  OBVIOUS
<1> HIDE DEF T
<1>5. PICK t \in T : \A y \in T : t <= y
  BY <1>2, <1>3, Least
<1>6. PICK x \in S : t = n - x
  BY <1>4, <1>5
<1>7. \A y \in S : n - x <= n - y
  BY <1>3, <1>5, <1>6
<1>8. ASSUME NEW y \in S PROVE y <= x
  <2>1. x \in 1..n /\ y \in 1..n
    OBVIOUS
  <2> QED
    BY <1>7, <2>1
<1> QED
  BY <1>8

\* What jaeger-baggage lists.
LEMMA ListedBaggage ==
  ASSUME CarrierOK
  PROVE  IsBaggage(Listed(carrier))
<1> DEFINE listed == {k \in Key : PairsOf(carrier, k) # {}}
           last(k) == CHOOSE i \in PairsOf(carrier, k) :
                        \A j \in PairsOf(carrier, k) : j <= i
<1>1. PICK n \in Nat : DOMAIN carrier.pairs = 1..n
  BY DEF CarrierOK
<1>2. ASSUME NEW k \in listed
      PROVE  last(k) \in PairsOf(carrier, k)
  <2>1. PairsOf(carrier, k) \in SUBSET (1..n) /\ PairsOf(carrier, k) # {}
    BY <1>1 DEF PairsOf
  <2>2. \E i \in PairsOf(carrier, k) : \A j \in PairsOf(carrier, k) : j <= i
    BY <2>1, Greatest
  <2> QED
    BY <2>2
<1>3. \A k \in listed : carrier.pairs[last(k)][2] \in Value
  BY <1>2 DEF PairsOf, CarrierOK
<1>4. Listed(carrier) = [k \in listed |-> carrier.pairs[last(k)][2]]
  BY DEF Listed
<1>5. Listed(carrier) \in [listed -> Value]
  BY <1>3, <1>4
<1> QED
  BY <1>5 DEF IsBaggage

\* What extract() finds, whichever of items and pairs comes later.
LEMMA ExtractedBaggage ==
  ASSUME CarrierOK, NEW x \in Extracted(carrier), carrier.codec # "binary"
  PROVE  /\ IsBaggage(x.baggage)
         /\ carrier.pairs = <<>> => \A k \in DOMAIN carrier.items :
              /\ k \in DOMAIN x.baggage
              /\ x.baggage[k] = Decoded(carrier.codec, carrier.items[k])
<1> DEFINE prefixed == [k \in DOMAIN carrier.items |->
                          Decoded(carrier.codec, carrier.items[k])]
           listed == Listed(carrier)
<1>1. PICK b \in Baggages(carrier) : x.baggage = b
  BY DEF Extracted, Context
<1>2. b \in {Over(prefixed, listed), Over(listed, prefixed)}
  BY DEF Baggages
<1>3. prefixed \in [DOMAIN carrier.items -> Value]
  BY DEF CarrierOK
<1>4. IsBaggage(prefixed) /\ DOMAIN prefixed = DOMAIN carrier.items
  BY <1>3 DEF IsBaggage, CarrierOK
<1>5. \A k \in DOMAIN carrier.items :
        prefixed[k] = Decoded(carrier.codec, carrier.items[k])
  OBVIOUS
<1>6. IsBaggage(listed)
  BY ListedBaggage
<1>7. carrier.pairs = <<>> => DOMAIN listed = {}
  BY DEF Listed, PairsOf
<1> HIDE DEF prefixed, listed
<1>8. CASE b = Over(prefixed, listed)
  <2>1. /\ IsBaggage(Over(prefixed, listed))
        /\ DOMAIN Over(prefixed, listed) = DOMAIN prefixed \cup DOMAIN listed
        /\ \A k \in DOMAIN prefixed : Over(prefixed, listed)[k] = prefixed[k]
    BY <1>4, <1>6, MergedBaggage, Zenon
  <2> QED
    BY <1>1, <1>4, <1>5, <1>8, <2>1
<1>9. CASE b = Over(listed, prefixed)
  <2>1. /\ IsBaggage(Over(listed, prefixed))
        /\ DOMAIN Over(listed, prefixed) = DOMAIN listed \cup DOMAIN prefixed
        /\ \A k \in DOMAIN prefixed :
             k \notin DOMAIN listed => Over(listed, prefixed)[k] = prefixed[k]
    BY <1>4, <1>6, MergedBaggage, Zenon
  <2> QED
    BY <1>1, <1>4, <1>5, <1>7, <1>9, <2>1
<1> QED
  BY <1>2, <1>8, <1>9

-------------------------------------------------------------------------------
(* Ids and flags                                                           *)

LEMMA FirstChild ==
  ASSUME NEW references, NEW i \in DOMAIN references,
         DOMAIN references \subseteq Nat,
         IsChildOf(references[i]),
         \A j \in DOMAIN references : IsChildOf(references[j]) => i <= j
  PROVE  ParentOf(references) = references[i].context
<1> DEFINE children == {j \in DOMAIN references : IsChildOf(references[j])}
           first == CHOOSE k \in children : \A j \in children : k <= j
<1>1. i \in children /\ \A j \in children : i <= j
  OBVIOUS
<1>2. first \in children /\ \A j \in children : first <= j
  BY <1>1
<1>3. first = i
  BY <1>1, <1>2
<1> QED
  BY <1>1, <1>3 DEF ParentOf

\* Whatever a server makes of the extracted context, it is the parent.
LEMMA ExtractedIsParent ==
  ASSUME NEW x, NEW references \in References(x)
  PROVE  ParentOf(references) = x
<1> USE DEF Reference, IsChildOf
<1>1. CASE references = <<Reference("follows_from", x)>>
  <2>1. {i \in DOMAIN references : IsChildOf(references[i])} = {}
    BY <1>1
  <2> QED
    BY <1>1, <2>1 DEF ParentOf
<1>2. CASE references = <<Reference("child_of", x)>>
  BY <1>2, FirstChild
<1>3. CASE references = <<Reference("child_of", x), Reference("follows_from", Other)>>
  <2>1. DOMAIN references = 1..2 /\ references[1].context = x
    BY <1>3
  <2>2. IsChildOf(references[1])
    BY <1>3
  <2> QED
    BY <2>1, <2>2, FirstChild
<1>4. CASE references = <<Reference("follows_from", Other), Reference("child_of", x)>>
  <2>1. DOMAIN references = 1..2 /\ references[2].context = x
    BY <1>4
  <2>2. IsChildOf(references[2]) /\ ~IsChildOf(references[1])
    BY <1>4
  <2> QED
    BY <2>1, <2>2, FirstChild
<1> QED
  BY <1>1, <1>2, <1>3, <1>4 DEF References

LEMMA StartedSpan ==
  ASSUME NEW p, NEW id \in Nat \ {0}, NEW s \in Started(p, id)
  PROVE  /\ s = Context(s.trace, s.span, s.parent, s.flags, s.baggage)
         /\ s.span = id /\ s.baggage = p.baggage
         /\ IF IsValid(p)
            THEN s.trace = p.trace /\ s.parent = p.span /\ s.flags = p.flags
            ELSE s.trace = id /\ s.parent = None /\ s.flags \subseteq Flag
         /\ IsValid(s)
BY DEF Started, Context, RootFlags, Flag, IsValid, None

LEMMA ExtractedIds ==
  ASSUME NEW c, NEW x \in Extracted(c)
  PROVE  IF c.codec = "binary" THEN x = Empty
         ELSE /\ x.trace = IdsOf(c).trace /\ x.span = IdsOf(c).span
              /\ x.flags = IdsOf(c).flags
BY DEF Extracted

LEMMA SomethingExtracted ==
  ASSUME NEW c
  PROVE  \E x : x \in Extracted(c)
BY DEF Extracted, Baggages

LEMMA SameIds ==
  ASSUME NEW c, NEW d, c.codec = d.codec, c.headers = d.headers
  PROVE  IdsOf(c) = IdsOf(d)
BY DEF IdsOf, B3Headers, BadB3, B3Flags, HeaderOf, TextHeaders, BadText

\* What inject writes, extract reads.
LEMMA InjectedIds ==
  ASSUME NEW s, s.trace \in Nat, s.span \in Nat, s.parent \in Nat, s.flags \subseteq Flag,
         NEW c, c.codec \in Codec \ {"binary"},
         c.headers = InjectedHeaders(c.codec, s)
  PROVE  /\ DOMAIN c.headers \subseteq HeaderNames(c.codec)
         /\ IdsOf(c).trace = s.trace
         /\ IdsOf(c).span = s.span
         /\ FlagsArrive(IdsOf(c).flags, s.flags)
<1>1. CASE c.codec \in {"text", "http"}
  <2>1. c.headers = [name \in {"uber-trace-id"} |->
          [trace |-> s.trace, span |-> s.span, parent |-> s.parent, flags |-> s.flags]]
    BY <1>1 DEF InjectedHeaders
  <2>2. c.headers["uber-trace-id"].trace # Garbled
    BY <2>1 DEF Garbled
  <2>3. ~BadText(c)
    BY <2>2 DEF BadText, GarbledIds, NoIds
  <2> QED
    BY <1>1, <2>1, <2>3 DEF IdsOf, TextHeaders, HeaderNames, FlagsArrive
<1>2. CASE c.codec = "b3"
  <2>1. /\ DOMAIN c.headers = {"x-b3-traceid", "x-b3-spanid"}
             \cup (IF s.parent # None THEN {"x-b3-parentspanid"} ELSE {})
             \cup (IF "debug" \in s.flags THEN {"x-b3-flags"} ELSE {"x-b3-sampled"})
        /\ c.headers["x-b3-traceid"] = s.trace
        /\ c.headers["x-b3-spanid"] = s.span
        /\ s.parent # None => c.headers["x-b3-parentspanid"] = s.parent
        /\ "debug" \in s.flags => c.headers["x-b3-flags"] = 1
        /\ "debug" \notin s.flags =>
             c.headers["x-b3-sampled"] = IF "sampled" \in s.flags THEN 1 ELSE 0
    BY <1>2 DEF InjectedHeaders, DecisionHeader
  <2>2. /\ HeaderOf(c, "x-b3-traceid") = s.trace
        /\ HeaderOf(c, "x-b3-spanid") = s.span
        /\ HeaderOf(c, "x-b3-parentspanid") = s.parent
    BY <2>1 DEF HeaderOf
  <2>3. ~BadB3(c)
    BY <2>2 DEF BadB3, B3Names, Garbled
  <2>4. "debug" \in s.flags => B3Flags(c) = Flag
    BY <2>1 DEF B3Flags, HeaderOf, Flag, None
  <2>5. "debug" \notin s.flags =>
          B3Flags(c) = IF "sampled" \in s.flags THEN {"sampled"} ELSE {}
    BY <2>1 DEF B3Flags, HeaderOf, None
  <2>6. FlagsArrive(B3Flags(c), s.flags)
    BY <2>4, <2>5 DEF FlagsArrive, Flag
  <2>7. DOMAIN c.headers \subseteq HeaderNames(c.codec)
    BY <1>2, <2>1 DEF HeaderNames, B3Names
  <2> QED
    BY <1>2, <2>2, <2>3, <2>6, <2>7 DEF IdsOf, B3Headers
<1> QED
  BY <1>1, <1>2 DEF Codec

LEMMA OtherHeaders ==
  ASSUME CarrierOK, NEW h, DOMAIN h = DOMAIN carrier.headers,
         carrier' = [carrier EXCEPT !.headers = h]
  PROVE  CarrierOK' /\ carrier'.headers = h /\ carrier'.codec = carrier.codec
                    /\ carrier'.items = carrier.items /\ carrier'.pairs = carrier.pairs
<1>1. carrier' = Carrier(carrier.codec, h, carrier.items, carrier.pairs, carrier.debugId)
  BY DEF CarrierOK, Carrier
<1>2. /\ carrier'.codec = carrier.codec /\ carrier'.headers = h
      /\ carrier'.items = carrier.items /\ carrier'.pairs = carrier.pairs
      /\ carrier'.debugId = carrier.debugId
  BY <1>1 DEF Carrier
<1> QED
  BY <1>1, <1>2 DEF CarrierOK

\* A damaged header leaves no trace.
LEMMA DamagedIds ==
  ASSUME CarrierOK, carrier.codec \in Codec, Damaged
  PROVE  /\ CarrierOK' /\ carrier'.codec = carrier.codec
         /\ carrier'.items = carrier.items /\ carrier'.pairs = carrier.pairs
         /\ carrier'.codec # "binary" /\ ~IsValid(IdsOf(carrier'))
<1>1. CASE \E name \in DOMAIN carrier.headers \cap B3Names :
             carrier' = [carrier EXCEPT !.headers[name] = Garbled]
  <2>1. PICK name \in DOMAIN carrier.headers \cap B3Names :
          carrier' = [carrier EXCEPT !.headers = [carrier.headers EXCEPT ![name] = Garbled]]
    BY <1>1
  <2> DEFINE h == [carrier.headers EXCEPT ![name] = Garbled]
  <2>2. DOMAIN h = DOMAIN carrier.headers /\ h[name] = Garbled
    OBVIOUS
  <2> HIDE DEF h
  <2>3. /\ CarrierOK' /\ carrier'.headers = h /\ carrier'.codec = carrier.codec
        /\ carrier'.items = carrier.items /\ carrier'.pairs = carrier.pairs
    BY <2>1, <2>2, OtherHeaders DEF h
  <2>4. carrier.codec = "b3"
    BY <2>1 DEF CarrierOK, HeaderNames, B3Names, Codec
  <2>5. BadB3(carrier')
    BY <2>1, <2>2, <2>3 DEF BadB3, HeaderOf
  <2>6. IdsOf(carrier').trace = None
    BY <2>3, <2>4, <2>5 DEF IdsOf, B3Headers, NoIds
  <2> QED
    BY <2>3, <2>4, <2>6 DEF IsValid
<1>2. CASE /\ "uber-trace-id" \in DOMAIN carrier.headers
           /\ carrier' = [carrier EXCEPT !.headers["uber-trace-id"] = GarbledIds]
  <2> DEFINE h == [carrier.headers EXCEPT !["uber-trace-id"] = GarbledIds]
  <2>1. carrier' = [carrier EXCEPT !.headers = h]
    BY <1>2
  <2>2. DOMAIN h = DOMAIN carrier.headers /\ h["uber-trace-id"] = GarbledIds
    BY <1>2
  <2> HIDE DEF h
  <2>3. /\ CarrierOK' /\ carrier'.headers = h /\ carrier'.codec = carrier.codec
        /\ carrier'.items = carrier.items /\ carrier'.pairs = carrier.pairs
    BY <2>1, <2>2, OtherHeaders
  <2>4. carrier.codec \in {"text", "http"}
    BY <1>2 DEF CarrierOK, HeaderNames, B3Names, Codec
  <2>5. BadText(carrier')
    BY <1>2, <2>2, <2>3 DEF BadText
  <2>6. IdsOf(carrier').trace = None
    BY <2>3, <2>4, <2>5 DEF IdsOf, TextHeaders, NoIds
  <2> QED
    BY <2>3, <2>4, <2>6 DEF IsValid
<1> QED
  BY <1>1, <1>2 DEF Damaged

-------------------------------------------------------------------------------
(* Types                                                                   *)

LEMMA Types ==
  /\ Id \subseteq Nat
  /\ 0..MaxSpans \subseteq Id /\ None \in Id
  /\ {f.context.trace : f \in Foreign} \subseteq Id
  /\ {f.context.span : f \in Foreign} \subseteq Id
BY PropagationAssumption, ForeignAssumption DEF Id, None

LEMMA DecodedIsEncoded ==
  ASSUME NEW codec \in Codec, NEW v \in Value
  PROVE  Decoded(codec, Encoded(codec, v)) = v
BY PropagationAssumption DEF Decoded, Encoded, Escaped

LEMMA ContextIsOne ==
  ASSUME NEW t \in Id, NEW id \in Id, NEW p \in Id, NEW f \in SUBSET Flag, NEW b,
         IsBaggage(b)
  PROVE  Context(t, id, p, f, b) \in SpanContext
BY DEF Context, SpanContext, Baggage, IsBaggage

LEMMA ChangedContext ==
  ASSUME NEW s \in SpanContext, NEW f \in SUBSET Flag, NEW b, IsBaggage(b)
  PROVE  /\ LET t == [s EXCEPT !.flags = f]
            IN /\ t \in SpanContext /\ t.trace = s.trace /\ t.span = s.span
               /\ t.parent = s.parent /\ t.flags = f /\ t.baggage = s.baggage
         /\ LET t == [s EXCEPT !.baggage = b]
            IN /\ t \in SpanContext /\ t.trace = s.trace /\ t.span = s.span
               /\ t.parent = s.parent /\ t.flags = s.flags /\ t.baggage = b
<1>1. b \in Baggage
  BY DEF Baggage, IsBaggage
<1> QED
  BY <1>1 DEF SpanContext

\* With no carrier, there is little to say of one.
LEMMA NoCarrierOK ==
  ASSUME carrier' = NoCarrier
  PROVE  CarrierOK' /\ carrier'.codec \in Codec
<1>1. /\ carrier'.codec = "binary" /\ carrier'.headers = <<>> /\ carrier'.items = <<>>
      /\ carrier'.pairs = <<>> /\ carrier'.debugId = FALSE
  BY DEF NoCarrier, Carrier
<1>2. carrier' = Carrier(carrier'.codec, carrier'.headers, carrier'.items,
                         carrier'.pairs, carrier'.debugId)
  BY DEF NoCarrier, Carrier
<1>3. /\ DOMAIN carrier'.headers = {} /\ DOMAIN carrier'.items = {}
      /\ DOMAIN carrier'.pairs = {} /\ DOMAIN carrier'.pairs = 1..0 /\ 0 \in Nat
  BY <1>1
<1>4. \E n \in Nat : DOMAIN carrier'.pairs = 1..n
  BY <1>3
<1>5. carrier'.codec \in Codec /\ carrier'.debugId \in BOOLEAN
  BY <1>1 DEF Codec
<1> QED
  BY <1>2, <1>3, <1>4, <1>5 DEF CarrierOK

-------------------------------------------------------------------------------
(* The steps                                                               *)

LEMMA InitIInv == Init => IInv
<1> SUFFICES ASSUME Init PROVE IInv
  OBVIOUS
<1>1. PICK f \in Foreign :
        /\ carrier = f.carrier /\ span = f.context /\ intact = IsValid(f.context)
        /\ trace = f.context.trace /\ chain = <<f.context.span>>
        /\ decided = f.context.flags
  BY DEF Init
<1>2. spans = 0 /\ onItsWay = TRUE /\ counted = {} /\ items = <<>>
  BY DEF Init
<1>3. /\ span = Context(span.trace, span.span, None, span.flags, <<>>)
      /\ span.trace \in Nat /\ span.span \in Nat /\ span.flags \subseteq Flag
  BY <1>1, ForeignAssumption
<1>4. span.parent = None /\ span.baggage = <<>>
  BY <1>3 DEF Context
<1>5. TypeOK
  <2>1. span.trace \in Id /\ span.span \in Id /\ span.parent \in Id
    BY <1>1, <1>4, Types
  <2>2. IsBaggage(span.baggage) /\ IsBaggage(items)
    BY <1>2, <1>4, EmptyBaggage
  <2>3. spans \in 0..MaxSpans
    BY <1>2, PropagationAssumption
  <2>4. carrier.codec \in Codec
    BY <1>1, ForeignAssumption
  <2>5. trace \in Id /\ chain \in Seq(Id) /\ decided \subseteq Flag
    BY <1>1, <1>3, <2>1
  <2>6. intact \in BOOLEAN
    BY <1>1 DEF IsValid
  <2> QED
    BY <1>2, <1>3, <2>1, <2>2, <2>3, <2>4, <2>5, <2>6 DEF TypeOK, IsBaggage
<1>6. CarrierOK
  <2>1. /\ carrier = Carrier(carrier.codec, carrier.headers, carrier.items,
                             carrier.pairs, carrier.debugId)
        /\ carrier.debugId \in BOOLEAN
        /\ DOMAIN carrier.headers \subseteq HeaderNames(carrier.codec)
        /\ DOMAIN carrier.items \subseteq Key
        /\ carrier.items \in [DOMAIN carrier.items -> Value]
        /\ carrier.pairs \in Seq(Seq(Key \cup Value))
        /\ \A i \in DOMAIN carrier.pairs :
             Len(carrier.pairs[i]) = 2 => carrier.pairs[i][2] \in Value
    BY <1>1, ForeignAssumption
  <2>2. \A v \in Value : Decoded(carrier.codec, v) \in Value
    BY PropagationAssumption DEF Decoded
  <2>3. \A k \in DOMAIN carrier.items : Decoded(carrier.codec, carrier.items[k]) \in Value
    BY <2>1, <2>2
  <2>4. \E n \in Nat : DOMAIN carrier.pairs = 1..n
    BY <2>1
  <2> QED
    BY <2>1, <2>2, <2>3, <2>4 DEF CarrierOK
<1>7. IdsArrive
  <2>1. \A x \in Extracted(carrier) :
          IF intact THEN x.trace = span.trace /\ x.span = span.span /\ x.flags = span.flags
          ELSE ~IsValid(x)
    BY <1>1, ForeignAssumption
  <2>2. PICK x : x \in Extracted(carrier)
    BY SomethingExtracted
  <2>3. carrier.codec = "binary" => x = Empty /\ ~IsValid(x)
    BY <2>2, ExtractedIds DEF Empty, Context, IsValid
  <2>4. CASE intact
    <3>1. x.trace = span.trace /\ x.span = span.span /\ x.flags = span.flags
      BY <2>1, <2>2, <2>4
    <3>2. IsValid(x)
      BY <1>1, <2>4, <3>1 DEF IsValid
    <3> QED
      BY <2>2, <2>3, <2>4, <3>1, <3>2, ExtractedIds DEF IdsArrive, FlagsArrive
  <2>5. CASE ~intact
    <3>1. ~IsValid(x)
      BY <2>1, <2>2, <2>5
    <3> QED
      BY <2>2, <2>5, <3>1, ExtractedIds DEF IdsArrive, IsValid
  <2> QED
    BY <2>4, <2>5
<1>8. SpanOK
  <2>1. /\ span.trace \in Id /\ span.span \in Id /\ None \in Id /\ span.flags \in SUBSET Flag
    BY <1>1, <1>3, Types
  <2>2. Context(span.trace, span.span, None, span.flags, <<>>) \in SpanContext
    BY <2>1, EmptyBaggage, ContextIsOne
  <2> QED
    BY <1>3, <2>2 DEF SpanOK
<1>9. AtHand /\ OneTrace /\ DecisionTravels
  BY <1>1, <1>2, <1>3 DEF AtHand, OneTrace, DecisionTravels, Flag
<1>10. ItemsArrive /\ BaggageReaches
  <2>1. DOMAIN items = {}
    BY <1>2
  <2> QED
    BY <2>1 DEF ItemsArrive, BaggageReaches
<1> QED
  BY <1>5, <1>6, <1>7, <1>8, <1>9, <1>10 DEF IInv

\* The request arrives: what was extracted is the parent of the span.
LEMMA ReceiveKeeps ==
  ASSUME IInv, Receive
  PROVE  IInv'
<1> USE DEF IInv
<1>1. PICK x \in Extracted(carrier) :
        \E references \in References(x) : span' \in Started(ParentOf(references), spans + 1)
  BY DEF Receive
<1>2. span' \in Started(x, spans + 1)
  BY <1>1, ExtractedIsParent
<1>3. /\ onItsWay /\ spans < MaxSpans /\ spans' = spans + 1 /\ onItsWay' = FALSE
      /\ carrier' = NoCarrier /\ intact' = intact /\ items' = items
      /\ counted' \subseteq {"decodingErrors"}
      /\ IF intact THEN chain' = Append(chain, spans') /\ trace' = trace /\ decided' = decided
                   ELSE chain' = <<spans'>> /\ trace' = spans' /\ decided' = span'.flags
  BY DEF Receive
<1>4. spans + 1 \in Nat \ {0} /\ spans' \in 0..MaxSpans /\ spans' \in Id /\ spans' > 0
  BY <1>3, PropagationAssumption, Types DEF TypeOK
<1>5. /\ span' = Context(span'.trace, span'.span, span'.parent, span'.flags, span'.baggage)
      /\ span'.span = spans' /\ span'.baggage = x.baggage
      /\ IF IsValid(x)
         THEN span'.trace = x.trace /\ span'.parent = x.span /\ span'.flags = x.flags
         ELSE span'.trace = spans' /\ span'.parent = None /\ span'.flags \subseteq Flag
      /\ IsValid(span')
  BY <1>2, <1>3, <1>4, StartedSpan
<1>6. IF intact
      THEN /\ IsValid(x) /\ x.trace = span.trace /\ x.span = span.span
           /\ FlagsArrive(x.flags, span.flags)
      ELSE ~IsValid(x)
  <2>1. carrier.codec = "binary" => ~IsValid(x)
    BY ExtractedIds DEF Empty, Context, IsValid
  <2>2. CASE intact
    BY <1>3, <2>2, ExtractedIds DEF IdsArrive, AtHand, IsValid
  <2>3. CASE ~intact
    BY <1>3, <2>1, <2>3, ExtractedIds DEF IdsArrive, IsValid
  <2> QED
    BY <2>2, <2>3
<1>7. IsBaggage(x.baggage)
  <2>1. CASE carrier.codec = "binary"
    <3>1. x.baggage = <<>>
      BY <2>1, ExtractedIds DEF Empty, Context
    <3> QED
      BY <3>1, EmptyBaggage
  <2>2. CASE carrier.codec # "binary"
    BY <2>2, ExtractedBaggage
  <2> QED
    BY <2>1, <2>2
<1>8. \A k \in DOMAIN items : k \in DOMAIN x.baggage /\ x.baggage[k] = items[k]
  <2> SUFFICES ASSUME NEW k \in DOMAIN items
               PROVE  k \in DOMAIN x.baggage /\ x.baggage[k] = items[k]
    OBVIOUS
  <2>1. /\ k \in DOMAIN carrier.items
        /\ Decoded(carrier.codec, carrier.items[k]) = items[k]
        /\ carrier.pairs = <<>> /\ carrier.codec # "binary"
    BY <1>3 DEF ItemsArrive
  <2> QED
    BY <2>1, ExtractedBaggage
<1>9. Len(chain) \in Nat /\ Len(chain) > 0
  BY DEF TypeOK, AtHand
<1>10. TypeOK'
  <2>1. span'.trace \in Id /\ span'.span \in Id /\ span'.parent \in Id
    BY <1>4, <1>5, <1>6, Types DEF TypeOK
  <2>2. span'.flags \subseteq Flag
    BY <1>5, <1>6 DEF TypeOK, FlagsArrive, Flag
  <2>3. IsBaggage(span'.baggage)
    BY <1>5, <1>7
  <2>4. carrier'.codec \in Codec
    BY <1>3, NoCarrierOK
  <2>5. trace' \in Id /\ decided' \subseteq Flag
    BY <1>3, <1>4, <2>2 DEF TypeOK
  <2>6. chain' \in Seq(Id)
    <3>1. Append(chain, spans') \in Seq(Id) /\ <<spans'>> \in Seq(Id)
      BY <1>4 DEF TypeOK
    <3> QED
      BY <1>3, <3>1
  <2> QED
    BY <1>3, <1>4, <2>1, <2>2, <2>3, <2>4, <2>5, <2>6 DEF TypeOK, IsBaggage
<1>11. CarrierOK' /\ SpanOK' /\ IdsArrive'
  <2>1. /\ span'.trace \in Id /\ span'.span \in Id /\ span'.parent \in Id
        /\ span'.flags \in SUBSET Flag /\ IsBaggage(span'.baggage)
    BY <1>10 DEF TypeOK, IsBaggage
  <2>2. Context(span'.trace, span'.span, span'.parent, span'.flags, span'.baggage)
          \in SpanContext
    BY ONLY <2>1, ContextIsOne, Zenon
  <2>3. span' \in SpanContext
    BY <1>5, <2>2, Zenon
  <2> QED
    BY <1>3, <2>3, NoCarrierOK DEF SpanOK, IdsArrive
<1>12. AtHand' /\ OneTrace'
  <2>1. CASE intact
    <3>1. Len(chain') = Len(chain) + 1 /\ chain' # <<>> /\ chain'[Len(chain')] = spans'
          /\ chain'[Len(chain') - 1] = chain[Len(chain)]
      BY <1>3, <1>4, <1>9, <2>1 DEF TypeOK
    <3>2. span'.trace = trace /\ span'.parent = chain[Len(chain)]
      BY <1>5, <1>6, <2>1 DEF AtHand
    <3> QED
      BY <1>3, <1>4, <1>5, <1>9, <2>1, <3>1, <3>2 DEF AtHand, OneTrace
  <2>2. CASE ~intact
    <3>1. Len(chain') = 1 /\ chain' # <<>> /\ chain'[1] = spans'
      BY <1>3, <2>2
    <3> QED
      BY <1>3, <1>4, <1>5, <1>6, <2>2, <3>1 DEF AtHand, OneTrace
  <2> QED
    BY <2>1, <2>2
<1>13. DecisionTravels'
  <2>1. CASE intact
    BY <1>3, <1>5, <1>6, <2>1 DEF DecisionTravels, FlagsArrive, Flag
  <2>2. CASE ~intact
    BY <1>3, <2>2 DEF DecisionTravels
  <2> QED
    BY <2>1, <2>2
<1>14. ItemsArrive' /\ BaggageReaches'
  BY <1>3, <1>5, <1>8 DEF ItemsArrive, BaggageReaches
<1> QED
  BY <1>10, <1>11, <1>12, <1>13, <1>14

LEMMA StartChildKeeps ==
  ASSUME IInv, StartChild
  PROVE  IInv'
<1> USE DEF IInv
<1>1. /\ ~onItsWay /\ spans < MaxSpans /\ spans' = spans + 1 /\ onItsWay' = onItsWay
      /\ span' \in Started(span, spans + 1)
      /\ carrier' = carrier /\ intact' = intact /\ items' = items /\ counted' = {}
      /\ chain' = Append(chain, spans') /\ trace' = trace /\ decided' = decided
  BY DEF StartChild
<1>2. spans + 1 \in Nat \ {0} /\ spans' \in 0..MaxSpans /\ spans' \in Id /\ spans' > 0
  BY <1>1, PropagationAssumption, Types DEF TypeOK
<1>3. IsValid(span) /\ span.trace = trace /\ span.span = chain[Len(chain)]
  BY <1>1 DEF AtHand
<1>4. /\ span' = Context(span'.trace, span'.span, span'.parent, span'.flags, span'.baggage)
      /\ span'.span = spans' /\ span'.baggage = span.baggage /\ span'.trace = trace
      /\ span'.parent = chain[Len(chain)] /\ span'.flags = span.flags /\ IsValid(span')
  BY <1>1, <1>2, <1>3, StartedSpan
<1>5. Len(chain) \in Nat /\ Len(chain) > 0
  BY DEF TypeOK, AtHand
<1>6. /\ Len(chain') = Len(chain) + 1 /\ chain' # <<>> /\ chain'[Len(chain')] = spans'
      /\ chain'[Len(chain') - 1] = chain[Len(chain)] /\ chain' \in Seq(Id)
  BY <1>1, <1>2, <1>5 DEF TypeOK
<1>7. TypeOK'
  <2>1. span'.trace \in Id /\ span'.span \in Id /\ span'.parent \in Id
    BY <1>2, <1>3, <1>4 DEF TypeOK
  <2> QED
    BY <1>1, <1>2, <1>4, <1>6, <2>1 DEF TypeOK
<1>8. CarrierOK' /\ SpanOK' /\ IdsArrive'
  <2>1. span' \in SpanContext
    BY <1>4, <1>7, ContextIsOne DEF TypeOK, IsBaggage
  <2> QED
    BY <1>1, <2>1 DEF CarrierOK, SpanOK, IdsArrive
<1>9. AtHand' /\ OneTrace'
  BY <1>1, <1>2, <1>4, <1>5, <1>6 DEF AtHand, OneTrace
<1>10. DecisionTravels' /\ ItemsArrive' /\ BaggageReaches'
  BY <1>1, <1>4 DEF DecisionTravels, ItemsArrive, BaggageReaches
<1> QED
  BY <1>7, <1>8, <1>9, <1>10

LEMMA SetPriorityKeeps ==
  ASSUME IInv, SetPriority
  PROVE  IInv'
<1> USE DEF IInv
<1>1. PICK flags \in {span.flags \cup Flag, span.flags \ {"sampled"}} :
        /\ flags = span.flags \cup Flag => "debug" \notin span.flags
        /\ span' = [span EXCEPT !.flags = flags]
        /\ decided' = flags
  BY DEF SetPriority
<1>2. /\ ~onItsWay /\ onItsWay' = onItsWay /\ spans' = spans /\ carrier' = carrier
      /\ intact' = intact /\ items' = items /\ counted' = {} /\ chain' = chain
      /\ trace' = trace
  BY DEF SetPriority
<1>3. flags \in SUBSET Flag
  BY <1>1 DEF TypeOK, Flag
<1>4. /\ span'.trace = span.trace /\ span'.span = span.span /\ span'.parent = span.parent
      /\ span'.flags = flags /\ span'.baggage = span.baggage /\ span' \in SpanContext
  BY <1>1, <1>3, ChangedContext, EmptyBaggage DEF SpanOK
<1>5. TypeOK'
  BY <1>1, <1>2, <1>3, <1>4 DEF TypeOK
<1>6. CarrierOK' /\ SpanOK' /\ IdsArrive'
  BY <1>2, <1>3, <1>4 DEF CarrierOK, SpanOK, IdsArrive
<1>7. AtHand' /\ OneTrace' /\ ItemsArrive' /\ BaggageReaches'
  BY <1>2, <1>4 DEF AtHand, IsValid, OneTrace, ItemsArrive, BaggageReaches
<1>8. DecisionTravels'
  BY <1>1, <1>4 DEF DecisionTravels
<1> QED
  BY <1>5, <1>6, <1>7, <1>8

LEMMA SetBaggageItemKeeps ==
  ASSUME IInv, NEW key \in Key, NEW value \in Value, NEW maxed \in BOOLEAN,
         SetBaggageItem(key, value, maxed)
  PROVE  IInv'
<1> USE DEF IInv
<1> DEFINE v == Cut(value, maxed)
           k == Normalized[key]
<1>1. v \in Value /\ k \in Key /\ Lowered[k] = k
  BY PropagationAssumption DEF SetBaggageItem, Cut
<1>2. /\ ~onItsWay /\ onItsWay' = onItsWay /\ spans' = spans /\ carrier' = carrier
      /\ intact' = intact /\ chain' = chain /\ trace' = trace /\ decided' = decided
      /\ span' = [span EXCEPT !.baggage = WithItem(span.baggage, k, v)]
      /\ items' = WithItem(items, k, v)
      /\ counted' \subseteq {"baggageUpdateSuccess", "log", "baggageTruncate"}
  BY DEF SetBaggageItem, Logged, Truncation
<1> HIDE DEF v, k
<1>3. IsBaggage(span.baggage) /\ IsBaggage(items)
  BY DEF TypeOK, IsBaggage
<1>4. IsBaggage(WithItem(span.baggage, k, v))
  BY <1>1, <1>3, OneMoreItem
<1>5. /\ span'.trace = span.trace /\ span'.span = span.span /\ span'.parent = span.parent
      /\ span'.flags = span.flags /\ span'.baggage = WithItem(span.baggage, k, v)
      /\ span' \in SpanContext
  BY <1>2, <1>4, ChangedContext DEF SpanOK
<1>6. /\ IsBaggage(span'.baggage)
      /\ DOMAIN span'.baggage = DOMAIN span.baggage \cup {k}
      /\ span'.baggage[k] = v
      /\ \A x \in DOMAIN span.baggage : x # k => span'.baggage[x] = span.baggage[x]
  <2>1. /\ IsBaggage(WithItem(span.baggage, k, v))
        /\ DOMAIN WithItem(span.baggage, k, v) = DOMAIN span.baggage \cup {k}
        /\ WithItem(span.baggage, k, v)[k] = v
        /\ \A x \in DOMAIN span.baggage :
             x # k => WithItem(span.baggage, k, v)[x] = span.baggage[x]
    BY <1>1, <1>3, OneMoreItem, Zenon
  <2> QED
    BY <1>5, <2>1
<1>7. /\ IsBaggage(items')
      /\ DOMAIN items' = DOMAIN items \cup {k}
      /\ items'[k] = v
      /\ \A x \in DOMAIN items : x # k => items'[x] = items[x]
  BY <1>1, <1>2, <1>3, OneMoreItem
<1>8. TypeOK'
  BY <1>2, <1>5, <1>6, <1>7 DEF TypeOK, IsBaggage
<1>9. CarrierOK' /\ SpanOK' /\ IdsArrive'
  BY <1>2, <1>5 DEF CarrierOK, SpanOK, IdsArrive
<1>10. AtHand' /\ OneTrace' /\ DecisionTravels'
  BY <1>2, <1>5 DEF AtHand, IsValid, OneTrace, DecisionTravels
<1>11. ItemsArrive'
  BY <1>1, <1>2, <1>7 DEF ItemsArrive
<1>12. BaggageReaches'
  BY <1>6, <1>7 DEF BaggageReaches
<1> QED
  BY <1>8, <1>9, <1>10, <1>11, <1>12

LEMMA InjectedKeeps ==
  ASSUME IInv, NEW codec \in Codec, NEW b, IsBaggage(b),
         \A k \in DOMAIN b : k \in DOMAIN span.baggage /\ b[k] = span.baggage[k],
         ~onItsWay, onItsWay' = TRUE, counted' \subseteq {"exception"},
         UNCHANGED <<span, spans, trace, chain, decided>>,
         carrier' = Carrier(codec, InjectedHeaders(codec, span),
                            InjectedItems(codec, b), <<>>, FALSE),
         intact' = (codec # "binary"),
         codec = "binary" => items' = <<>>,
         codec # "binary" =>
           /\ IsBaggage(items')
           /\ \A k \in DOMAIN items' :
                k \in DOMAIN items /\ k \in DOMAIN b /\ items'[k] = items[k]
  PROVE  IInv'
<1> USE DEF IInv
<1>1. /\ spans' = spans /\ span' = span /\ chain' = chain
      /\ trace' = trace /\ decided' = decided
  OBVIOUS
<1>2. /\ carrier'.codec = codec /\ carrier'.headers = InjectedHeaders(codec, span)
      /\ carrier'.items = InjectedItems(codec, b)
      /\ carrier'.pairs = <<>> /\ carrier'.debugId = FALSE
  BY DEF Carrier
<1>3. /\ span.trace \in Nat /\ span.span \in Nat /\ span.parent \in Nat
      /\ span.flags \subseteq Flag
  BY Types DEF TypeOK
<1>4. IF codec = "binary" THEN carrier'.headers = <<>>
      ELSE /\ DOMAIN carrier'.headers \subseteq HeaderNames(codec)
           /\ IdsOf(carrier').trace = span.trace
           /\ IdsOf(carrier').span = span.span
           /\ FlagsArrive(IdsOf(carrier').flags, span.flags)
  <2>1. CASE codec = "binary"
    BY <1>2, <2>1 DEF InjectedHeaders
  <2>2. CASE codec # "binary"
    BY <1>2, <1>3, <2>2, InjectedIds
  <2> QED
    BY <2>1, <2>2
<1>5. codec # "binary" =>
        /\ DOMAIN carrier'.items = DOMAIN b
        /\ \A k \in DOMAIN b :
             Decoded(codec, carrier'.items[k]) = b[k] /\ b[k] \in Value
  <2> SUFFICES ASSUME codec # "binary"
               PROVE  /\ DOMAIN carrier'.items = DOMAIN b
                      /\ \A k \in DOMAIN b :
                           Decoded(codec, carrier'.items[k]) = b[k] /\ b[k] \in Value
    OBVIOUS
  <2>1. carrier'.items = [k \in DOMAIN b |-> Encoded(codec, b[k])]
    BY <1>2 DEF InjectedItems
  <2>2. \A k \in DOMAIN b : b[k] \in Value
    BY BaggageDomain
  <2> QED
    BY <2>1, <2>2, DecodedIsEncoded
<1>6. DOMAIN b \subseteq Key
  BY BaggageDomain
<1>7. TypeOK'
  <2>1. IsBaggage(items')
    BY EmptyBaggage
  <2> QED
    BY <1>1, <1>2, <2>1 DEF TypeOK, IsBaggage
<1>8. CarrierOK'
  <2>1. carrier' = Carrier(carrier'.codec, carrier'.headers, carrier'.items,
                           carrier'.pairs, carrier'.debugId)
    BY <1>1, <1>2
  <2>2. DOMAIN carrier'.pairs = {}
    BY ONLY <1>2, EmptyBaggage, Zenon
  <2>3. \E n \in Nat : DOMAIN carrier'.pairs = 1..n
    <3>1. 1..0 = {} /\ 0 \in Nat
      BY ONLY SMT
    <3> QED
      BY ONLY <2>2, <3>1, Zenon
  <2>4. CASE codec = "binary"
    <3>1. carrier'.items = <<>> /\ carrier'.headers = <<>>
      BY ONLY <1>2, <1>4, <2>4, Zenon DEF InjectedItems
    <3>2. DOMAIN carrier'.headers = {} /\ DOMAIN carrier'.items = {}
      BY ONLY <3>1, EmptyBaggage, Zenon
    <3> QED
      BY <1>2, <2>1, <2>2, <2>3, <3>2 DEF CarrierOK
  <2>5. CASE codec # "binary"
    BY <1>2, <1>4, <1>5, <1>6, <2>1, <2>2, <2>3, <2>5 DEF CarrierOK
  <2> QED
    BY <2>4, <2>5
<1>9. SpanOK' /\ IdsArrive'
  BY <1>1, <1>2, <1>4 DEF SpanOK, IdsArrive
<1>10. AtHand' /\ OneTrace' /\ DecisionTravels'
  BY <1>1 DEF AtHand, OneTrace, DecisionTravels
<1>11. ItemsArrive' /\ BaggageReaches'
  <2>1. CASE codec = "binary"
    <3>1. DOMAIN items' = {}
      BY <2>1, EmptyBaggage, Zenon
    <3> QED
      BY <3>1 DEF ItemsArrive, BaggageReaches
  <2>2. CASE codec # "binary"
    <3>1. ASSUME NEW k \in DOMAIN items'
          PROVE  /\ k \in DOMAIN items /\ k \in DOMAIN b
                 /\ items'[k] = b[k] /\ span'.baggage[k] = b[k]
                 /\ k \in DOMAIN span'.baggage
      BY <1>1, <2>2 DEF BaggageReaches
    <3>2. BaggageReaches'
      BY <3>1 DEF BaggageReaches
    <3>3. \A k \in DOMAIN items' : Lowered[k] = k
      BY <3>1 DEF ItemsArrive
    <3>4. ASSUME NEW k \in DOMAIN items'
          PROVE  /\ k \in DOMAIN carrier'.items
                 /\ Decoded(carrier'.codec, carrier'.items[k]) = items'[k]
                 /\ carrier'.pairs = <<>> /\ carrier'.codec # "binary"
      <4>1. k \in DOMAIN b /\ items'[k] = b[k]
        BY ONLY <3>1
      <4>2. /\ DOMAIN carrier'.items = DOMAIN b
            /\ Decoded(codec, carrier'.items[k]) = b[k]
        BY ONLY <1>5, <2>2, <4>1
      <4> QED
        BY ONLY <1>2, <2>2, <4>1, <4>2
    <3> QED
      BY <3>2, <3>3, <3>4, Zenon DEF ItemsArrive
  <2> QED
    BY <2>1, <2>2
<1> QED
  BY <1>7, <1>8, <1>9, <1>10, <1>11

LEMMA InjectKeeps ==
  ASSUME IInv, NEW codec \in Codec, Inject(codec)
  PROVE  IInv'
<1>1. IsBaggage(span.baggage) /\ IsBaggage(items)
  BY DEF IInv, TypeOK, IsBaggage
<1>2. \A k \in DOMAIN items : k \in DOMAIN span.baggage
  BY DEF IInv, BaggageReaches
<1>3. /\ ~onItsWay /\ onItsWay' = TRUE /\ counted' \subseteq {"exception"}
      /\ UNCHANGED <<span, spans, trace, chain, decided>>
      /\ carrier' = Carrier(codec, InjectedHeaders(codec, span),
                            InjectedItems(codec, span.baggage), <<>>, FALSE)
      /\ intact' = (codec # "binary")
      /\ items' = IF codec = "binary" THEN <<>> ELSE items
  BY DEF Inject
<1> DEFINE b == span.baggage
<1>4. /\ IsBaggage(b)
      /\ \A k \in DOMAIN b : k \in DOMAIN span.baggage /\ b[k] = span.baggage[k]
      /\ \A k \in DOMAIN items : k \in DOMAIN b
      /\ carrier' = Carrier(codec, InjectedHeaders(codec, span),
                            InjectedItems(codec, b), <<>>, FALSE)
  BY <1>1, <1>2, <1>3
<1> HIDE DEF b
<1>5. /\ codec = "binary" => items' = <<>>
      /\ codec # "binary" =>
           /\ IsBaggage(items')
           /\ \A k \in DOMAIN items' :
                k \in DOMAIN items /\ k \in DOMAIN b /\ items'[k] = items[k]
  BY <1>1, <1>3, <1>4
<1> QED
  BY <1>3, <1>4, <1>5, InjectedKeeps, Zenon

\* Where inject() throws, only what came before is claimed to arrive.
LEMMA InjectThrowsKeeps ==
  ASSUME IInv, NEW codec \in Codec, InjectThrows(codec)
  PROVE  IInv'
<1>1. IsBaggage(span.baggage) /\ IsBaggage(items)
  BY DEF IInv, TypeOK, IsBaggage
<1>2. PICK done \in SUBSET {k \in DOMAIN span.baggage : span.baggage[k] \notin Unencodable} :
        /\ carrier' = Carrier(codec, InjectedHeaders(codec, span),
                              InjectedItems(codec, Restricted(span.baggage, done)),
                              <<>>, FALSE)
        /\ items' = Restricted(items, done)
  BY DEF InjectThrows
<1>3. /\ ~onItsWay /\ onItsWay' = TRUE /\ counted' \subseteq {"exception"}
      /\ UNCHANGED <<span, spans, trace, chain, decided>> /\ intact' = TRUE
  BY DEF InjectThrows
<1>4. codec # "binary"
  BY DEF InjectThrows, Encodable, UrlEncoding
<1>5. /\ IsBaggage(Restricted(span.baggage, done))
      /\ DOMAIN Restricted(span.baggage, done) = DOMAIN span.baggage \cap done
      /\ \A k \in DOMAIN Restricted(span.baggage, done) :
           Restricted(span.baggage, done)[k] = span.baggage[k]
  BY <1>1, RestrictedBaggage
<1>6. /\ IsBaggage(items') /\ DOMAIN items' = DOMAIN items \cap done
      /\ \A k \in DOMAIN items' : items'[k] = items[k]
  <2> DEFINE r == Restricted(items, done)
  <2>1. /\ IsBaggage(r) /\ DOMAIN r = DOMAIN items \cap done
        /\ \A k \in DOMAIN r : r[k] = items[k]
    BY <1>1, RestrictedBaggage, Zenon
  <2>2. items' = r
    BY <1>2
  <2> QED
    BY <2>1, <2>2, Zenon
<1>7. \A k \in DOMAIN items : k \in DOMAIN span.baggage
  BY DEF IInv, BaggageReaches
<1> DEFINE b == Restricted(span.baggage, done)
<1>8. /\ IsBaggage(b)
      /\ \A k \in DOMAIN b : k \in DOMAIN span.baggage /\ b[k] = span.baggage[k]
      /\ \A k \in DOMAIN items' :
           k \in DOMAIN items /\ k \in DOMAIN b /\ items'[k] = items[k]
  BY <1>5, <1>6, <1>7
<1>9. carrier' = Carrier(codec, InjectedHeaders(codec, span),
                         InjectedItems(codec, b), <<>>, FALSE)
  BY <1>2
<1> HIDE DEF b
<1> QED
  BY <1>3, <1>4, <1>6, <1>8, <1>9, InjectedKeeps

LEMMA OtherItems ==
  ASSUME CarrierOK, NEW b, carrier' = [carrier EXCEPT !.items = b],
         DOMAIN b \subseteq Key,
         \A k \in DOMAIN b : Decoded(carrier.codec, b[k]) \in Value
  PROVE  CarrierOK' /\ carrier'.items = b /\ carrier'.codec = carrier.codec
                    /\ carrier'.headers = carrier.headers /\ carrier'.pairs = carrier.pairs
<1>1. carrier' = Carrier(carrier.codec, carrier.headers, b, carrier.pairs, carrier.debugId)
  BY DEF CarrierOK, Carrier
<1>2. /\ carrier'.codec = carrier.codec /\ carrier'.headers = carrier.headers
      /\ carrier'.items = b /\ carrier'.pairs = carrier.pairs
      /\ carrier'.debugId = carrier.debugId
  BY <1>1 DEF Carrier
<1> QED
  BY <1>1, <1>2 DEF CarrierOK

\* An item whose key HTTP keeps is the one that arrives under it.
LEMMA LowerCasedKeeps ==
  ASSUME IInv, LowerCased
  PROVE  IInv'
<1> USE DEF IInv
<1> DEFINE names == DOMAIN carrier.items
           lowered == {Lowered[k] : k \in names}
           kept == {k \in DOMAIN items :
                      \A other \in names : Lowered[other] = k => other = k}
<1>1. PICK pick \in [lowered -> names] :
        /\ \A k \in lowered : Lowered[pick[k]] = k
        /\ carrier' = [carrier EXCEPT !.items = [k \in lowered |-> carrier.items[pick[k]]]]
        /\ items' = [k \in kept |-> items[k]]
  BY DEF LowerCased
<1>2. /\ onItsWay /\ onItsWay' = onItsWay /\ spans' = spans /\ span' = span
      /\ intact' = intact /\ chain' = chain /\ trace' = trace /\ decided' = decided
      /\ counted' = {}
  BY DEF LowerCased
<1>3. names \subseteq Key /\ \A k \in names : Decoded(carrier.codec, carrier.items[k]) \in Value
  BY DEF CarrierOK
<1>4. lowered \subseteq Key
  BY <1>3, PropagationAssumption
<1> DEFINE arrived == [k \in lowered |-> carrier.items[pick[k]]]
<1>5. DOMAIN arrived = lowered /\ \A k \in lowered : arrived[k] = carrier.items[pick[k]]
  OBVIOUS
<1>6. \A k \in lowered : pick[k] \in names
  BY <1>1
<1>7. carrier' = [carrier EXCEPT !.items = arrived]
  BY <1>1
<1>8. DOMAIN items' = kept /\ \A k \in kept : items'[k] = items[k]
  BY <1>1
<1>9. \A k \in names : Lowered[k] \in lowered
  OBVIOUS
<1>10. /\ kept \subseteq DOMAIN items
       /\ \A k \in kept : \A other \in names : Lowered[other] = k => other = k
  OBVIOUS
<1> HIDE DEF arrived, lowered, kept, names
<1>11. /\ CarrierOK' /\ carrier'.items = arrived /\ carrier'.codec = carrier.codec
       /\ carrier'.headers = carrier.headers /\ carrier'.pairs = carrier.pairs
  <2>1. DOMAIN arrived \subseteq Key
    BY <1>4, <1>5
  <2>2. \A k \in DOMAIN arrived : Decoded(carrier.codec, arrived[k]) \in Value
    BY <1>3, <1>5, <1>6
  <2> QED
    BY <1>7, <2>1, <2>2, OtherItems
<1>12. TypeOK'
  <2>1. IsBaggage(items)
    BY DEF TypeOK, IsBaggage
  <2>2. kept \subseteq Key /\ \A k \in kept : items[k] \in Value
    BY <1>10, <2>1, BaggageDomain
  <2>3. items' \in [kept -> Value]
    BY <1>1, <2>2
  <2>4. \E keys \in SUBSET Key : items' \in [keys -> Value]
    BY <2>2, <2>3
  <2> QED
    BY <1>2, <1>11, <2>4 DEF TypeOK
<1>13. IdsArrive'
  <2>1. IdsOf(carrier') = IdsOf(carrier)
    BY <1>11, SameIds
  <2> QED
    BY <1>2, <1>11, <2>1 DEF IdsArrive, IsValid
<1>14. ItemsArrive'
  <2>1. \A k \in DOMAIN items' : Lowered[k] = k
    BY <1>8, <1>10 DEF ItemsArrive
  <2>2. ASSUME NEW k \in DOMAIN items'
        PROVE  /\ k \in DOMAIN carrier'.items
               /\ Decoded(carrier'.codec, carrier'.items[k]) = items'[k]
               /\ carrier'.pairs = <<>> /\ carrier'.codec # "binary"
    <3>1. k \in kept /\ k \in DOMAIN items /\ items'[k] = items[k] /\ Lowered[k] = k
      BY <1>8, <1>10, <2>1
    <3>2. /\ k \in names /\ Decoded(carrier.codec, carrier.items[k]) = items[k]
          /\ carrier.pairs = <<>> /\ carrier.codec # "binary"
      BY <1>2, <3>1 DEF ItemsArrive, names
    <3>3. k \in lowered
      BY <1>9, <3>1, <3>2
    <3>4. pick[k] = k
      BY <1>1, <1>6, <1>10, <3>1, <3>3
    <3> QED
      BY <1>5, <1>11, <3>1, <3>2, <3>3, <3>4
  <2> QED
    BY <2>1, <2>2 DEF ItemsArrive
<1>15. BaggageReaches'
  BY <1>2, <1>8, <1>10 DEF BaggageReaches
<1>16. SpanOK' /\ AtHand' /\ OneTrace' /\ DecisionTravels'
  BY <1>2 DEF SpanOK, AtHand, OneTrace, DecisionTravels
<1> QED
  BY <1>11, <1>12, <1>13, <1>14, <1>15, <1>16

LEMMA DamagedKeeps ==
  ASSUME IInv, Damaged
  PROVE  IInv'
<1> USE DEF IInv
<1>1. /\ onItsWay /\ onItsWay' = onItsWay /\ spans' = spans /\ span' = span
      /\ intact' = FALSE /\ chain' = chain /\ trace' = trace /\ decided' = decided
      /\ counted' = {} /\ items' = items
  BY DEF Damaged
<1>2. /\ CarrierOK' /\ carrier'.codec = carrier.codec
      /\ carrier'.items = carrier.items /\ carrier'.pairs = carrier.pairs
      /\ carrier'.codec # "binary" /\ ~IsValid(IdsOf(carrier'))
  BY DamagedIds DEF TypeOK
<1>3. TypeOK' /\ SpanOK' /\ IdsArrive'
  BY <1>1, <1>2 DEF TypeOK, SpanOK, IdsArrive
<1>4. AtHand' /\ OneTrace' /\ DecisionTravels'
  BY <1>1 DEF AtHand, OneTrace, DecisionTravels
<1>5. ItemsArrive' /\ BaggageReaches'
  BY <1>1, <1>2 DEF ItemsArrive, BaggageReaches
<1> QED
  BY <1>2, <1>3, <1>4, <1>5

LEMMA LostKeeps ==
  ASSUME IInv, Lost
  PROVE  IInv'
<1> USE DEF IInv
<1>1. /\ spans > 0 /\ onItsWay' = FALSE /\ spans' = spans /\ span' = span
      /\ carrier' = NoCarrier /\ intact' = TRUE /\ chain' = chain /\ trace' = trace
      /\ decided' = decided /\ counted' = {} /\ items' = items
  BY DEF Lost
<1>2. CarrierOK' /\ carrier'.codec \in Codec
  BY <1>1, NoCarrierOK
<1>3. TypeOK' /\ SpanOK' /\ IdsArrive'
  BY <1>1, <1>2 DEF TypeOK, SpanOK, IdsArrive
<1>4. AtHand' /\ OneTrace' /\ DecisionTravels' /\ ItemsArrive' /\ BaggageReaches'
  BY <1>1 DEF AtHand, OneTrace, DecisionTravels, ItemsArrive, BaggageReaches
<1> QED
  BY <1>2, <1>3, <1>4

\* A refused item, one whose key throws, and a step that changes nothing.
LEMMA UnchangedKeeps ==
  ASSUME IInv,
         \/ counted' = counted \/ RefuseBaggageItem
         \/ counted' \subseteq {"exception", "baggageTruncate"},
         UNCHANGED <<span, spans, onItsWay, carrier, intact, trace, chain, decided, items>>
  PROVE  IInv'
<1> USE DEF IInv
<1>1. counted' \subseteq {"decodingErrors", "baggageUpdateSuccess", "log",
                          "baggageUpdateFailure", "baggageTruncate", "exception"}
  BY DEF RefuseBaggageItem, Logged, TypeOK
<1>2. TypeOK' /\ CarrierOK' /\ SpanOK' /\ IdsArrive'
  BY <1>1 DEF TypeOK, CarrierOK, SpanOK, IdsArrive
<1>3. AtHand' /\ OneTrace' /\ DecisionTravels' /\ ItemsArrive' /\ BaggageReaches'
  BY DEF AtHand, OneTrace, DecisionTravels, ItemsArrive, BaggageReaches
<1> QED
  BY <1>2, <1>3

LEMMA NextKeeps == IInv /\ [Next]_vars => IInv'
<1> SUFFICES ASSUME IInv, [Next]_vars PROVE IInv'
  OBVIOUS
<1>1. CASE Receive
  BY <1>1, ReceiveKeeps
<1>2. CASE StartChild
  BY <1>2, StartChildKeeps
<1>3. CASE SetPriority
  BY <1>3, SetPriorityKeeps
<1>4. CASE RefuseBaggageItem
  BY <1>4, UnchangedKeeps DEF RefuseBaggageItem
<1>5. ASSUME NEW key \in Key, NEW value \in Value, NEW maxed \in BOOLEAN,
             SetBaggageItem(key, value, maxed)
      PROVE  IInv'
  BY <1>5, SetBaggageItemKeeps
<1>6. ASSUME NEW codec \in Codec, Inject(codec)
      PROVE  IInv'
  BY <1>6, InjectKeeps
<1>11. ASSUME NEW key \in Key, NEW value \in Value, NEW maxed \in BOOLEAN,
              SetBaggageThrows(key, value, maxed)
       PROVE  IInv'
  <2>1. counted' \subseteq {"exception", "baggageTruncate"}
    BY <1>11 DEF SetBaggageThrows, Truncation
  <2> QED
    BY <1>11, <2>1, UnchangedKeeps DEF SetBaggageThrows
<1>12. ASSUME NEW codec \in Codec, InjectThrows(codec)
       PROVE  IInv'
  BY <1>12, InjectThrowsKeeps
<1>7. CASE LowerCased
  BY <1>7, LowerCasedKeeps
<1>8. CASE Damaged
  BY <1>8, DamagedKeeps
<1>9. CASE Lost
  BY <1>9, LostKeeps
<1>10. CASE UNCHANGED vars
  BY <1>10, UnchangedKeeps DEF vars
<1> QED
  BY <1>1, <1>2, <1>3, <1>4, <1>5, <1>6, <1>7, <1>8, <1>9, <1>10, <1>11, <1>12 DEF Next

LEMMA Invariant == Spec => []IInv
BY InitIInv, NextKeeps, PTL DEF Spec

-------------------------------------------------------------------------------

\* The variables keep their types; in particular every baggage value of a span
\* is a plain value, none left encoded, whatever codecs it went through.  Which
\* value it is says BaggageArrives (_encodeValue and _decodeValue of the codecs).
THEOREM TypeCorrect == Spec => []TypeOK
<1>1. IInv => TypeOK
  BY DEF IInv
<1> QED
  BY <1>1, Invariant, PTL

\* A request stays in its trace, each span below the one that sent it, over any
\* number of processes, codecs, damaged and lost requests (startSpan of
\* tracer.js, extract and inject of the codecs).
THEOREM SameTrace == Spec => []OneTrace
<1>1. IInv => OneTrace
  BY DEF IInv
<1> QED
  BY <1>1, Invariant, PTL

\* The sampling decision goes with it: the text codecs bring both flags, B3 all
\* that matters of them (fromString and toString of span_context.js, inject and
\* extract of zipkin_b3_text_map_codec.js).
THEOREM SameDecision == Spec => []DecisionTravels
<1>1. IInv => DecisionTravels
  BY DEF IInv
<1> QED
  BY <1>1, Invariant, PTL

\* And so does each baggage item that setBaggageItem set: it did not for a key
\* that every object has, where it throws.  Not claimed is an item that met
\* another spelling of its key in HTTP headers, that a binary inject() dropped,
\* or that inject() had not yet come to when it threw at a value that cannot be
\* encoded for an URL (setBaggageItem and _normalizeBaggageKey of span.js,
\* inject and extract of the codecs).
THEOREM BaggageArrives == Spec => []BaggageReaches
<1>1. IInv => BaggageReaches
  BY DEF IInv
<1> QED
  BY <1>1, Invariant, PTL

===============================================================================
