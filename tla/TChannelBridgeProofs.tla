------------------------- MODULE TChannelBridgeProofs --------------------------
(***************************************************************************)
(* Proofs about TChannelBridge, for any number of calls, in any nesting.   *)
(*                                                                         *)
(* OwnCaller speaks of spans only; it is kept because contexts hold spans  *)
(* of their own trace (Contexts), and what is on the wire names the client *)
(* span of its call (Sides), whatever headers object it was written to.    *)
(* Traces and parents of spans never change (SpansKept). For the baggage,   *)
(* Items says what the wire holds of the items of the client span, which   *)
(* do not change when it has been sent.                                    *)
(***************************************************************************)
EXTENDS TChannelBridge, TLAPS

\* A span that was started, and headers that were sent.
SpanRecord ==
  [state : {"open", "finished"}, parent : SpanId \cup {NoSpan}, trace : SpanId,
   items : SUBSET Key, error : BOOLEAN]
Header ==
  [trace : SpanId \cup {NoSpan}, items : SUBSET Key, list : SUBSET Key]

\* The types of the state.
TypeOK ==
  /\ client \in [Call -> {"idle", "made", "sent", "returned", "foreign"}]
  /\ server \in [Call -> {"none", "running", "answered"}]
  /\ given \in [Call -> Context \cup {"none"}]
  /\ span \in [SpanId -> SpanRecord \cup {NotStarted}]
  /\ inContext \in [Context -> SpanId \cup {NoSpan}]
  /\ headers \in [Object -> Header]
  /\ wire \in [Call -> Header \cup {Unsent}]

\* A span is started once, and what is on the wire was sent.
Started(x) == span[x] \in SpanRecord
Sides ==
  \A c \in Call :
    /\ client[c] \in {"idle", "made"} => wire[c] = Unsent
    /\ client[c] \in {"idle", "made", "foreign"} => span[ClientSpan(c)] = NotStarted
    /\ c \in Sent => Started(ClientSpan(c)) /\ wire[c].trace = ClientSpan(c)
    /\ client[c] = "foreign" => wire[c] \in Header /\ wire[c].trace = NoSpan
    /\ client[c] = "idle" => given[c] = "none"
    /\ given[c] \in Call => server[given[c]] # "none"
    /\ server[c] = "none" => span[ServerSpan(c)] = NotStarted
    /\ server[c] # "none" => Started(ServerSpan(c)) /\ client[c] \notin {"idle", "made"}

\* A context holds a span of its own trace.
Contexts ==
  /\ \A c \in Call :
       IF server[c] = "none" THEN inContext[c] = NoSpan
       ELSE /\ inContext[c] \in SpanId
            /\ Started(inContext[c])
            /\ span[inContext[c]].trace = span[ServerSpan(c)].trace
  /\ inContext[Main] # NoSpan =>
       /\ inContext[Main] = LocalSpan(Main)
       /\ Started(LocalSpan(Main))
       /\ span[LocalSpan(Main)].trace = LocalSpan(Main)

\* The items on the wire are those of the client span, or more if the headers
\* object had carried another call; no context holds a client span.
Items ==
  /\ \A c \in Sent : /\ span[ClientSpan(c)].items \subseteq wire[c].items
                     /\ c \notin reused => wire[c].items = span[ClientSpan(c)].items
  /\ \A c \in Call : client[c] = "foreign" => wire[c].items = {}
  /\ \A o \in Object \ carried : headers[o].items = {}
  /\ \A x \in Context, c \in Call : inContext[x] # ClientSpan(c)

IInv == TypeOK /\ Sides /\ Contexts /\ OwnCaller

-------------------------------------------------------------------------------
(* Spans                                                                   *)

LEMMA Distinct ==
  /\ \A c \in Call : ClientSpan(c) \in SpanId /\ ServerSpan(c) \in SpanId
  /\ \A x \in Context : LocalSpan(x) \in SpanId
  /\ \A c, d : /\ ClientSpan(c) # ServerSpan(d)
               /\ ClientSpan(c) # LocalSpan(d)
               /\ ServerSpan(c) # LocalSpan(d)
               /\ ClientSpan(c) = ClientSpan(d) => c = d
               /\ ServerSpan(c) = ServerSpan(d) => c = d
  /\ NoSpan \notin SpanId
  /\ Main \notin Call /\ Main \in Context /\ "none" \notin Context
BY CallAssumption DEF SpanId, ClientSpan, ServerSpan, LocalSpan, NoSpan, Main, Context

LEMMA NotYet == NotStarted \notin SpanRecord
BY DEF NotStarted, SpanRecord

LEMMA UnsentIsNoHeader == Unsent \notin Header
<1>1. Unsent.trace \notin SpanId \cup {NoSpan}
  BY DEF Unsent, NoHeaders, SpanId, NoSpan, ClientSpan, ServerSpan, LocalSpan, Main
<1> QED
  BY <1>1 DEF Header

\* A root of a trace, and a span below another.
LEMMA RootType ==
  ASSUME NEW s \in SpanId, NEW items \in SUBSET Key
  PROVE  /\ Root(s, items) \in SpanRecord
         /\ Root(s, items).parent = NoSpan
         /\ Root(s, items).trace = s
BY DEF Root, SpanRecord

LEMMA BelowType ==
  ASSUME NEW p \in SpanId, Started(p)
  PROVE  /\ Below(p) \in SpanRecord
         /\ Below(p).parent = p
         /\ Below(p).trace = span[p].trace
BY DEF Below, Started, SpanRecord

\* Spans that were started stay so, with their parent and trace.
SpansKept ==
  \A s \in SpanId : Started(s) =>
    /\ Started(s)'
    /\ span'[s].trace = span[s].trace
    /\ span'[s].parent = span[s].parent

LEMMA SameSpans ==
  ASSUME TypeOK, span' = span
  PROVE  SpansKept
BY DEF SpansKept, Started

\* A span that is started now, or changes in other fields.
LEMMA OneSpan ==
  ASSUME TypeOK, NEW x \in SpanId, NEW r \in SpanRecord,
         span' = [span EXCEPT ![x] = r],
         Started(x) => r.trace = span[x].trace /\ r.parent = span[x].parent
  PROVE  /\ SpansKept
         /\ span' \in [SpanId -> SpanRecord \cup {NotStarted}]
         /\ span'[x] = r /\ Started(x)'
         /\ \A y \in SpanId : y # x => span'[y] = span[y]
BY DEF TypeOK, SpansKept, Started

-------------------------------------------------------------------------------
(* OwnCaller, by its calls                                                 *)

ClientOwn(c) ==
  LET s == span[ClientSpan(c)]
  IN  s.trace = CASE given[c] \in Call -> span[ServerSpan(given[c])].trace
                  [] given[c] = "none" -> ClientSpan(c)
                  [] OTHER -> IF s.parent = NoSpan THEN ClientSpan(c)
                              ELSE LocalSpan(Main)
ServerOwn(c) ==
  /\ span[ServerSpan(c)].parent = ClientSpan(c)
  /\ span[ServerSpan(c)].trace = span[ClientSpan(c)].trace

LEMMA ByCall ==
  OwnCaller <=> \A c \in Sent : ClientOwn(c) /\ (server[c] # "none" => ServerOwn(c))
BY DEF OwnCaller, ClientOwn, ServerOwn

LEMMA ClientOwnKept ==
  ASSUME IInv, SpansKept, NEW c \in Sent, given'[c] = given[c]
  PROVE  ClientOwn(c)'
<1>1. c \in Call /\ ClientOwn(c)
  BY ByCall DEF IInv, Sent
<1>2. Started(ClientSpan(c)) /\ ClientSpan(c) \in SpanId
  BY <1>1, Distinct DEF IInv, Sides
<1>3. given[c] \in Call => Started(ServerSpan(given[c])) /\ ServerSpan(given[c]) \in SpanId
  BY <1>1, Distinct DEF IInv, Sides
<1> QED
  BY <1>1, <1>2, <1>3 DEF ClientOwn, SpansKept

LEMMA ServerOwnKept ==
  ASSUME IInv, SpansKept, NEW c \in Sent, server[c] # "none"
  PROVE  ServerOwn(c)'
<1>1. c \in Call /\ ServerOwn(c)
  BY ByCall DEF IInv, Sent
<1>2. /\ Started(ClientSpan(c)) /\ ClientSpan(c) \in SpanId
      /\ Started(ServerSpan(c)) /\ ServerSpan(c) \in SpanId
  BY <1>1, Distinct DEF IInv, Sides
<1> QED
  BY <1>1, <1>2 DEF ServerOwn, SpansKept

\* No call is sent or handled in this step.
LEMMA OwnCallerKept ==
  ASSUME IInv, SpansKept, Sent' \subseteq Sent,
         \A c \in Sent : given'[c] = given[c],
         \A c \in Call : server'[c] # "none" => server[c] # "none"
  PROVE  OwnCaller'
<1>1. ASSUME NEW c \in Sent'
      PROVE  ClientOwn(c)' /\ (server'[c] # "none" => ServerOwn(c)')
  <2>1. c \in Sent /\ c \in Call
    BY DEF Sent
  <2> QED
    BY <2>1, ClientOwnKept, ServerOwnKept
<1> QED
  BY <1>1 DEF OwnCaller, ClientOwn, ServerOwn

\* The contexts hold what they held, and no handler is called.
LEMMA ContextsKept ==
  ASSUME IInv, SpansKept, inContext' = inContext,
         \A c \in Call : server'[c] = "none" <=> server[c] = "none"
  PROVE  Contexts'
<1>1. ASSUME NEW c \in Call
      PROVE  IF server'[c] = "none" THEN inContext'[c] = NoSpan
             ELSE /\ inContext'[c] \in SpanId
                  /\ Started(inContext[c])'
                  /\ span'[inContext'[c]].trace = span'[ServerSpan(c)].trace
  BY Distinct DEF IInv, Contexts, Sides, SpansKept
<1>2. inContext'[Main] # NoSpan =>
       /\ inContext'[Main] = LocalSpan(Main)
       /\ Started(LocalSpan(Main))'
       /\ span'[LocalSpan(Main)].trace = LocalSpan(Main)
  BY Distinct DEF IInv, Contexts, SpansKept
<1> QED
  BY <1>1, <1>2 DEF Contexts

-------------------------------------------------------------------------------
(* One lemma for each action                                               *)

LEMMA InitIInv == Init => IInv
<1> SUFFICES ASSUME Init PROVE IInv
  OBVIOUS
<1>1. NoHeaders \in Header
  BY DEF NoHeaders, Header
<1>2. TypeOK
  BY <1>1 DEF Init, TypeOK
<1>3. Sides
  <2>1. "none" \notin Call
    BY CallAssumption
  <2> QED
    BY <2>1, Distinct DEF Init, Sides, Sent
<1>4. Contexts
  BY Distinct DEF Init, Contexts, Context
<1>5. OwnCaller
  BY DEF Init, OwnCaller, Sent
<1> QED
  BY <1>2, <1>3, <1>4, <1>5 DEF IInv

LEMMA RequestKeeps ==
  ASSUME IInv, NEW c \in Call, NEW x \in Context \cup {"none"}, Request(c, x)
  PROVE  IInv'
<1> USE DEF IInv
<1>1. TypeOK'
  BY DEF Request, TypeOK
<1>2. SpansKept
  BY SameSpans DEF Request
<1>3. Sent' = Sent /\ \A d \in Sent : given'[d] = given[d]
  BY DEF Request, Sent, TypeOK
<1>4. Sides'
  BY <1>2, <1>3, Distinct DEF Request, Sides, TypeOK, SpansKept, Started
<1>5. Contexts'
  BY <1>2, ContextsKept DEF Request
<1>6. OwnCaller'
  BY <1>2, <1>3, OwnCallerKept DEF Request
<1> QED
  BY <1>1, <1>4, <1>5, <1>6

\* The span that a request is sent below, if any, has the trace that
\* OwnCaller says.
LEMMA HeldForType ==
  ASSUME IInv, NEW c \in Call
  PROVE  \/ /\ HeldFor(c) = NoSpan
            /\ given[c] \in {"none", Main}
         \/ /\ HeldFor(c) \in SpanId /\ Started(HeldFor(c))
            /\ \/ given[c] \in Call /\ span[HeldFor(c)].trace = span[ServerSpan(given[c])].trace
               \/ given[c] = Main /\ span[HeldFor(c)].trace = LocalSpan(Main)
<1>1. given[c] \in Call \cup {Main, "none"}
  BY DEF IInv, TypeOK, Context
<1>2. CASE given[c] \in Call
  BY <1>2, Distinct DEF IInv, Sides, Contexts, HeldFor, Context
<1>3. CASE given[c] = Main
  BY <1>3, Distinct DEF IInv, Contexts, HeldFor
<1>4. CASE given[c] = "none"
  BY <1>4 DEF HeldFor
<1> QED
  BY <1>1, <1>2, <1>3, <1>4

LEMMA SendKeeps ==
  ASSUME IInv, NEW c \in Call, NEW o \in Object, Send(c, o)
  PROVE  IInv'
<1> USE DEF IInv
<1> DEFINE s == StartClient(c)
           h == Injected(headers[o], c, s)
<1>1. /\ client[c] = "made" /\ client' = [client EXCEPT ![c] = "sent"]
      /\ span' = [span EXCEPT ![ClientSpan(c)] = s]
      /\ headers' = [headers EXCEPT ![o] = h]
      /\ wire' = [wire EXCEPT ![c] = h]
      /\ UNCHANGED <<server, given, inContext>>
  BY DEF Send
<1>2. /\ s \in SpanRecord
      /\ IF HeldFor(c) = NoSpan THEN s.parent = NoSpan /\ s.trace = ClientSpan(c)
         ELSE s.parent = HeldFor(c) /\ s.trace = span[HeldFor(c)].trace
  BY HeldForType, RootType, BelowType, Distinct DEF StartClient
<1> HIDE DEF s
<1>3. h \in Header /\ h.trace = ClientSpan(c)
  <2>1. headers[o] \in Header /\ s.items \in SUBSET Key
    BY <1>2 DEF TypeOK, SpanRecord
  <2>2. headers[o].items \cup s.items \in SUBSET Key
    BY <2>1 DEF Header
  <2> QED
    BY <2>1, <2>2, Distinct DEF Injected, Header
<1> HIDE DEF h
<1>4. span[ClientSpan(c)] = NotStarted
  BY <1>1 DEF Sides
<1>5. /\ SpansKept /\ span' \in [SpanId -> SpanRecord \cup {NotStarted}]
      /\ span'[ClientSpan(c)] = s /\ Started(ClientSpan(c))'
      /\ \A y \in SpanId : y # ClientSpan(c) => span'[y] = span[y]
  BY <1>1, <1>2, <1>4, OneSpan, NotYet, Distinct DEF Started
<1>6. TypeOK'
  BY <1>1, <1>3, <1>5 DEF TypeOK
<1>7. \A d \in Call : d # c => client'[d] = client[d] /\ wire'[d] = wire[d]
  BY <1>1 DEF TypeOK
<1>8. client'[c] = "sent" /\ wire'[c] = h
  BY <1>1 DEF TypeOK
<1>9. Sent' = Sent \cup {c} /\ c \notin Sent
  BY <1>1, <1>7, <1>8 DEF Sent
<1>10. Sides'
  <2>1. ASSUME NEW d \in Call, d # c
        PROVE  /\ d \in Sent' <=> d \in Sent
               /\ span'[ClientSpan(d)] = span[ClientSpan(d)]
    BY <1>5, <1>9, <2>1, Distinct
  <2>2. \A d \in Call : span'[ServerSpan(d)] = span[ServerSpan(d)]
    BY <1>5, Distinct
  <2>3. server[c] = "none"
    BY <1>1 DEF Sides
  <2> QED
    BY <1>1, <1>3, <1>5, <1>7, <1>8, <2>1, <2>2, <2>3 DEF Sides, Started
<1>11. Contexts'
  BY <1>1, <1>5, ContextsKept
<1>12. ClientOwn(c)'
  <2>1. /\ span'[ClientSpan(c)] = s
        /\ given'[c] = given[c]
        /\ given[c] \in Call => span'[ServerSpan(given[c])] = span[ServerSpan(given[c])]
    BY <1>1, <1>5, Distinct
  <2>2. CASE given[c] \in Call
    <3>1. given[c] # Main /\ given[c] # "none"
      BY <2>2, CallAssumption DEF Main
    <3>2. HeldFor(c) # NoSpan /\ span[HeldFor(c)].trace = span[ServerSpan(given[c])].trace
      BY <3>1, HeldForType, Distinct
    <3> QED
      BY <1>2, <2>1, <2>2, <3>1, <3>2 DEF ClientOwn
  <2>3. CASE given[c] = "none"
    <3>1. HeldFor(c) = NoSpan /\ given[c] \notin Call
      BY <2>3, CallAssumption DEF HeldFor
    <3> QED
      BY <1>2, <2>1, <2>3, <3>1 DEF ClientOwn
  <2>4. CASE given[c] = Main
    <3>1. given[c] \notin Call /\ given[c] # "none"
      BY <2>4, Distinct DEF Main
    <3>2. \/ s.parent = NoSpan /\ s.trace = ClientSpan(c)
          \/ s.parent # NoSpan /\ s.trace = LocalSpan(Main)
      BY <1>2, <3>1, HeldForType, Distinct
    <3> QED
      BY <2>1, <3>1, <3>2 DEF ClientOwn
  <2> QED
    BY <2>2, <2>3, <2>4 DEF TypeOK, Context
<1>13. ASSUME NEW d \in Sent'
       PROVE  ClientOwn(d)' /\ (server'[d] # "none" => ServerOwn(d)')
  <2>1. CASE d = c
    <3>1. server'[c] = "none"
      BY <1>1 DEF Sides
    <3> QED
      BY <1>12, <2>1, <3>1
  <2>2. CASE d # c
    BY <1>1, <1>5, <1>9, <2>2, ClientOwnKept, ServerOwnKept
  <2> QED
    BY <2>1, <2>2
<1>14. OwnCaller'
  BY <1>13 DEF OwnCaller, ClientOwn, ServerOwn
<1> QED
  BY <1>6, <1>10, <1>11, <1>14

LEMMA SendForeignKeeps ==
  ASSUME IInv, NEW c \in Call, NEW items \in SUBSET Key, SendForeign(c, items)
  PROVE  IInv'
<1> USE DEF IInv
<1> DEFINE h == [NoHeaders EXCEPT !.list = items]
<1>1. /\ client[c] = "idle" /\ client' = [client EXCEPT ![c] = "foreign"]
      /\ wire' = [wire EXCEPT ![c] = h]
      /\ UNCHANGED <<server, given, span, inContext, headers>>
  BY DEF SendForeign
<1>2. h \in Header /\ h.trace = NoSpan
  BY DEF NoHeaders, Header
<1> HIDE DEF h
<1>3. TypeOK'
  BY <1>1, <1>2 DEF TypeOK
<1>4. SpansKept
  BY <1>1, SameSpans
<1>5. Sent' = Sent
  BY <1>1 DEF Sent, TypeOK
<1>6. Sides'
  <2>1. client'[c] = "foreign" /\ wire'[c] = h /\ c \notin Sent
    BY <1>1 DEF TypeOK, Sent
  <2>2. \A d \in Call : d # c => client'[d] = client[d] /\ wire'[d] = wire[d]
    BY <1>1 DEF TypeOK
  <2>3. given[c] = "none" /\ "none" \notin Call /\ server[c] = "none"
    BY <1>1, CallAssumption DEF Sides
  <2> QED
    BY <1>1, <1>2, <1>5, <2>1, <2>2, <2>3 DEF Sides, Started
<1>7. Contexts' /\ OwnCaller'
  BY <1>1, <1>4, <1>5, ContextsKept, OwnCallerKept
<1> QED
  BY <1>3, <1>6, <1>7

LEMMA HandleKeeps ==
  ASSUME IInv, NEW c \in Call, Handle(c)
  PROVE  IInv'
<1> USE DEF IInv
<1> DEFINE s == StartServer(c)
<1>1. /\ wire[c] # Unsent /\ server[c] = "none"
      /\ server' = [server EXCEPT ![c] = "running"]
      /\ span' = [span EXCEPT ![ServerSpan(c)] = s]
      /\ inContext' = [inContext EXCEPT ![c] = ServerSpan(c)]
      /\ headers' = [headers EXCEPT ![Received(c)] = Cleaned(wire[c])]
      /\ UNCHANGED <<client, given, wire>>
  BY DEF Handle
<1>2. /\ wire[c] \in Header
      /\ client[c] \in {"sent", "returned", "foreign"}
  BY <1>1 DEF TypeOK, Sides
<1>3. wire[c].items \cup wire[c].list \in SUBSET Key
  BY <1>2 DEF Header
<1>4. s \in SpanRecord /\ (c \in Sent => s.parent = ClientSpan(c)
                                      /\ s.trace = span[ClientSpan(c)].trace)
  <2>1. CASE wire[c].trace = NoSpan
    <3>1. c \notin Sent
      BY <2>1, Distinct DEF Sides
    <3> QED
      BY <1>3, <2>1, <3>1, RootType, Distinct DEF StartServer
  <2>2. CASE wire[c].trace # NoSpan
    <3>1. wire[c].trace = ClientSpan(c) /\ Started(ClientSpan(c))
      BY <1>2, <2>2 DEF Sides, Sent
    <3>2. /\ Below(ClientSpan(c)) \in SpanRecord
          /\ Below(ClientSpan(c)).parent = ClientSpan(c)
          /\ Below(ClientSpan(c)).trace = span[ClientSpan(c)].trace
      BY <3>1, BelowType, Distinct
    <3>3. s = [Below(ClientSpan(c)) EXCEPT !.items = wire[c].items \cup wire[c].list]
      BY <2>2, <3>1 DEF StartServer
    <3> HIDE DEF s
    <3> QED
      BY <1>3, <3>2, <3>3 DEF SpanRecord
  <2> QED
    BY <2>1, <2>2
<1> HIDE DEF s
<1>5. span[ServerSpan(c)] = NotStarted
  BY <1>1 DEF Sides
<1>6. /\ SpansKept /\ span' \in [SpanId -> SpanRecord \cup {NotStarted}]
      /\ span'[ServerSpan(c)] = s /\ Started(ServerSpan(c))'
      /\ \A y \in SpanId : y # ServerSpan(c) => span'[y] = span[y]
  BY <1>1, <1>4, <1>5, OneSpan, NotYet, Distinct DEF Started
<1>7. Cleaned(wire[c]) \in Header
  BY <1>2 DEF Cleaned, Header
<1>8. TypeOK'
  <2>1. inContext' \in [Context -> SpanId \cup {NoSpan}]
    BY <1>1, Distinct DEF TypeOK
  <2>2. headers' \in [Object -> Header]
    BY <1>1, <1>7 DEF TypeOK
  <2> QED
    BY <1>1, <1>6, <2>1, <2>2 DEF TypeOK
<1>9. /\ server'[c] = "running"
      /\ \A d \in Call : d # c => server'[d] = server[d]
      /\ inContext'[c] = ServerSpan(c)
      /\ \A x \in Context : x # c => inContext'[x] = inContext[x]
  BY <1>1 DEF TypeOK, Context
<1>10. Sent' = Sent
  BY <1>1 DEF Sent
<1>11. Sides'
  <2>1. \A d \in Call : /\ span'[ClientSpan(d)] = span[ClientSpan(d)]
                        /\ d # c => span'[ServerSpan(d)] = span[ServerSpan(d)]
    BY <1>6, Distinct
  <2> QED
    BY <1>1, <1>2, <1>6, <1>9, <1>10, <2>1 DEF Sides, Started
<1>12. Contexts'
  <2>1. ASSUME NEW d \in Call, d # c, server[d] # "none"
        PROVE  /\ inContext'[d] \in SpanId
               /\ Started(inContext[d])'
               /\ span'[inContext'[d]].trace = span'[ServerSpan(d)].trace
    <3>1. inContext'[d] = inContext[d] /\ inContext[d] \in SpanId /\ Started(inContext[d])
          /\ span[inContext[d]].trace = span[ServerSpan(d)].trace
          /\ Started(ServerSpan(d)) /\ ServerSpan(d) \in SpanId
      BY <1>9, <2>1, Distinct DEF Contexts, Sides, Context
    <3> QED
      BY <1>6, <3>1 DEF SpansKept, Started
  <2>2. inContext'[Main] = inContext[Main]
    BY <1>9, Distinct
  <2>3. inContext'[Main] # NoSpan =>
         /\ inContext'[Main] = LocalSpan(Main)
         /\ Started(LocalSpan(Main))'
         /\ span'[LocalSpan(Main)].trace = LocalSpan(Main)
    BY <1>6, <2>2, Distinct DEF Contexts, SpansKept
  <2>4. \A d \in Call : d # c /\ server[d] = "none" => inContext'[d] = NoSpan
    BY <1>9 DEF Contexts, Context
  <2>5. inContext'[c] \in SpanId /\ Started(inContext[c])'
    BY <1>6, <1>9, Distinct DEF Started
  <2> QED
    BY <1>9, <2>1, <2>3, <2>4, <2>5 DEF Contexts
<1>13. ASSUME NEW d \in Sent'
       PROVE  ClientOwn(d)' /\ (server'[d] # "none" => ServerOwn(d)')
  <2>1. d \in Sent /\ d \in Call /\ ClientOwn(d)'
    BY <1>1, <1>6, <1>10, ClientOwnKept DEF Sent
  <2>2. CASE d = c
    BY <1>4, <1>6, <2>1, <2>2, Distinct DEF ServerOwn
  <2>3. CASE d # c
    BY <1>6, <1>9, <2>1, <2>3, ServerOwnKept
  <2> QED
    BY <2>1, <2>2, <2>3
<1>14. OwnCaller'
  BY <1>13 DEF OwnCaller, ClientOwn, ServerOwn
<1> QED
  BY <1>8, <1>11, <1>12, <1>14

\* A span that was started gets an error, is finished or gets an item.
LEMMA SpanChanges ==
  ASSUME IInv, NEW x \in SpanId, Started(x), NEW r \in SpanRecord,
         span' = [span EXCEPT ![x] = r],
         r.trace = span[x].trace, r.parent = span[x].parent
  PROVE  /\ SpansKept /\ span' \in [SpanId -> SpanRecord \cup {NotStarted}]
         /\ \A y \in SpanId : span[y] = NotStarted => span'[y] = NotStarted
<1>1. span[x] # NotStarted
  BY NotYet DEF Started
<1>2. /\ SpansKept /\ span' \in [SpanId -> SpanRecord \cup {NotStarted}]
      /\ \A y \in SpanId : y # x => span'[y] = span[y]
  BY OneSpan DEF IInv
<1> QED
  BY <1>1, <1>2

\* What is left to say for actions that start no span.
LEMMA SidesKept ==
  ASSUME IInv, SpansKept, UNCHANGED <<given, wire>>, Sent' = Sent,
         \A y \in SpanId : span[y] = NotStarted => span'[y] = NotStarted,
         \A c \in Call : client'[c] = client[c] \/ {client[c], client'[c]} \subseteq {"sent", "returned"},
         \A c \in Call : server'[c] = "none" <=> server[c] = "none"
  PROVE  Sides'
<1>1. ASSUME NEW c \in Call
      PROVE  /\ client'[c] \in {"idle", "made"} <=> client[c] \in {"idle", "made"}
             /\ client'[c] = "foreign" <=> client[c] = "foreign"
             /\ client'[c] = "idle" <=> client[c] = "idle"
  OBVIOUS
<1>2. ASSUME NEW c \in Call
      PROVE  /\ Started(ClientSpan(c)) => Started(ClientSpan(c))'
             /\ Started(ServerSpan(c)) => Started(ServerSpan(c))'
             /\ span[ClientSpan(c)] = NotStarted => span'[ClientSpan(c)] = NotStarted
             /\ span[ServerSpan(c)] = NotStarted => span'[ServerSpan(c)] = NotStarted
  BY Distinct DEF SpansKept
<1> QED
  BY <1>1, <1>2 DEF IInv, Sides

\* A callback keeps the span's parent and trace.
LEMMA CalledBackType ==
  ASSUME NEW s \in SpanId, Started(s), NEW err \in BOOLEAN
  PROVE  /\ CalledBack(s, err) \in SpanRecord
         /\ CalledBack(s, err).trace = span[s].trace
         /\ CalledBack(s, err).parent = span[s].parent
<1>1. span[s].error \/ err \in BOOLEAN
  BY DEF Started, SpanRecord
<1> QED
  BY <1>1 DEF CalledBack, Started, SpanRecord

LEMMA AnswerKeeps ==
  ASSUME IInv, NEW c \in Call, NEW err \in BOOLEAN, Answer(c, err)
  PROVE  IInv'
<1> USE DEF IInv
<1>1. /\ server[c] = "running" /\ server' = [server EXCEPT ![c] = "answered"]
      /\ span' = [span EXCEPT ![ServerSpan(c)] = CalledBack(ServerSpan(c), err)]
      /\ UNCHANGED <<client, given, inContext, headers, wire>>
  BY DEF Answer, WrappedCallback
<1>2. ServerSpan(c) \in SpanId /\ Started(ServerSpan(c))
  BY <1>1, Distinct DEF Sides
<1>3. /\ SpansKept /\ span' \in [SpanId -> SpanRecord \cup {NotStarted}]
      /\ \A y \in SpanId : span[y] = NotStarted => span'[y] = NotStarted
  BY <1>1, <1>2, CalledBackType, SpanChanges
<1>4. \A d \in Call : server'[d] = "none" <=> server[d] = "none"
  BY <1>1 DEF TypeOK
<1>5. TypeOK'
  BY <1>1, <1>3 DEF TypeOK
<1>6. Sent' = Sent
  BY <1>1 DEF Sent
<1> QED
  BY <1>1, <1>3, <1>4, <1>5, <1>6, SidesKept, ContextsKept, OwnCallerKept

LEMMA ReturnKeeps ==
  ASSUME IInv, NEW c \in Call, NEW err \in BOOLEAN, Return(c, err)
  PROVE  IInv'
<1> USE DEF IInv
<1>1. /\ client[c] = "sent" /\ client' = [client EXCEPT ![c] = "returned"]
      /\ span' = [span EXCEPT ![ClientSpan(c)] = CalledBack(ClientSpan(c), err)]
      /\ UNCHANGED <<server, given, inContext, headers, wire>>
  BY DEF Return, WrappedCallback
<1>2. ClientSpan(c) \in SpanId /\ Started(ClientSpan(c))
  BY <1>1, Distinct DEF Sides, Sent
<1>3. /\ SpansKept /\ span' \in [SpanId -> SpanRecord \cup {NotStarted}]
      /\ \A y \in SpanId : span[y] = NotStarted => span'[y] = NotStarted
  BY <1>1, <1>2, CalledBackType, SpanChanges
<1>4. \A d \in Call : client'[d] = client[d] \/ {client[d], client'[d]} \subseteq {"sent", "returned"}
  BY <1>1 DEF TypeOK
<1>5. TypeOK'
  BY <1>1, <1>3 DEF TypeOK
<1>6. Sent' = Sent
  BY <1>4 DEF Sent
<1> QED
  BY <1>1, <1>3, <1>4, <1>5, <1>6, SidesKept, ContextsKept, OwnCallerKept

LEMMA SetBaggageItemKeeps ==
  ASSUME IInv, NEW x \in Context, NEW k \in Key, SetBaggageItem(x, k)
  PROVE  IInv'
<1> USE DEF IInv
<1> DEFINE s == inContext[x]
           r == [span[s] EXCEPT !.items = @ \cup {k}]
<1>1. /\ s # NoSpan
      /\ span' = [span EXCEPT ![s] = r]
      /\ UNCHANGED <<client, server, given, inContext, headers, wire>>
  BY DEF SetBaggageItem
<1>2. s \in SpanId /\ Started(s)
  BY <1>1, Distinct DEF Contexts, Context
<1>3. r \in SpanRecord /\ r.trace = span[s].trace /\ r.parent = span[s].parent
  BY <1>2 DEF Started, SpanRecord
<1> HIDE DEF r, s
<1>4. /\ SpansKept /\ span' \in [SpanId -> SpanRecord \cup {NotStarted}]
      /\ \A y \in SpanId : span[y] = NotStarted => span'[y] = NotStarted
  BY <1>1, <1>2, <1>3, SpanChanges
<1>5. TypeOK'
  BY <1>1, <1>4 DEF TypeOK
<1>6. Sent' = Sent
  BY <1>1 DEF Sent
<1> QED
  BY <1>1, <1>4, <1>5, <1>6, SidesKept, ContextsKept, OwnCallerKept

LEMMA StartLocalKeeps ==
  ASSUME IInv, NEW x \in Context, StartLocal(x)
  PROVE  IInv'
<1> USE DEF IInv
<1> DEFINE s == IF inContext[x] = NoSpan THEN Root(LocalSpan(x), {})
                ELSE Below(inContext[x])
<1>1. /\ span[LocalSpan(x)] = NotStarted
      /\ x \in Call => server[x] # "none"
      /\ span' = [span EXCEPT ![LocalSpan(x)] = s]
      /\ inContext' = [inContext EXCEPT ![x] = LocalSpan(x)]
      /\ UNCHANGED <<client, server, given, headers, wire>>
  BY DEF StartLocal
<1>2. inContext[x] # NoSpan => inContext[x] \in SpanId /\ Started(inContext[x])
  BY Distinct DEF Contexts, Context
<1>3. /\ s \in SpanRecord
      /\ s.trace = IF inContext[x] = NoSpan THEN LocalSpan(x) ELSE span[inContext[x]].trace
  BY <1>2, RootType, BelowType, Distinct
<1> HIDE DEF s
<1>4. /\ SpansKept /\ span' \in [SpanId -> SpanRecord \cup {NotStarted}]
      /\ span'[LocalSpan(x)] = s /\ Started(LocalSpan(x))'
      /\ \A y \in SpanId : y # LocalSpan(x) => span'[y] = span[y]
  BY <1>1, <1>3, OneSpan, NotYet, Distinct DEF Started
<1>5. TypeOK'
  BY <1>1, <1>4, Distinct DEF TypeOK
<1>6. Sent' = Sent
  BY <1>1 DEF Sent
<1>7. Sides'
  <2>1. \A d \in Call : /\ span'[ClientSpan(d)] = span[ClientSpan(d)]
                        /\ span'[ServerSpan(d)] = span[ServerSpan(d)]
    BY <1>4, Distinct
  <2> QED
    BY <1>1, <1>6, <2>1 DEF Sides, Started
<1>8. /\ inContext'[x] = LocalSpan(x)
      /\ \A y \in Context : y # x => inContext'[y] = inContext[y]
  BY <1>1 DEF TypeOK
<1>9. ASSUME NEW d \in Call, server[d] # "none"
      PROVE  /\ inContext'[d] \in SpanId
             /\ Started(inContext[d])'
             /\ span'[inContext'[d]].trace = span'[ServerSpan(d)].trace
  <2>1. /\ inContext[d] \in SpanId /\ Started(inContext[d])
        /\ span[inContext[d]].trace = span[ServerSpan(d)].trace
        /\ Started(ServerSpan(d)) /\ ServerSpan(d) \in SpanId
    BY <1>9, Distinct DEF Contexts, Sides
  <2>2. CASE d = x
    <3>1. inContext[x] # NoSpan
      BY <2>1, <2>2, Distinct
    <3>2. span'[LocalSpan(x)].trace = span[ServerSpan(d)].trace
      BY <1>3, <1>4, <2>1, <2>2, <3>1
    <3>3. span'[ServerSpan(d)].trace = span[ServerSpan(d)].trace
      BY <1>4, <2>1 DEF SpansKept
    <3> QED
      BY <1>4, <1>8, <2>2, <3>2, <3>3, Distinct DEF Started
  <2>3. CASE d # x
    <3>1. inContext'[d] = inContext[d]
      BY <1>8, <2>3 DEF Context
    <3> QED
      BY <1>4, <2>1, <3>1 DEF SpansKept, Started
  <2> QED
    BY <2>2, <2>3
<1>10. \A d \in Call : server[d] = "none" => inContext'[d] = NoSpan
  BY <1>1, <1>8 DEF Contexts, Context
<1>11. inContext'[Main] # NoSpan =>
         /\ inContext'[Main] = LocalSpan(Main)
         /\ Started(LocalSpan(Main))'
         /\ span'[LocalSpan(Main)].trace = LocalSpan(Main)
  <2>1. CASE x = Main
    <3>1. inContext[Main] = NoSpan
      BY <1>1, <2>1, NotYet DEF Contexts, Started
    <3> QED
      BY <1>3, <1>4, <1>8, <2>1, <3>1
  <2>2. CASE x # Main
    BY <1>4, <1>8, <2>2, Distinct DEF Contexts, SpansKept
  <2> QED
    BY <2>1, <2>2
<1>12. Contexts'
  BY <1>1, <1>9, <1>10, <1>11 DEF Contexts
<1>13. OwnCaller'
  BY <1>1, <1>4, <1>6, OwnCallerKept
<1> QED
  BY <1>5, <1>7, <1>12, <1>13

LEMMA NextKeeps == IInv /\ [Next]_vars => IInv'
<1> SUFFICES ASSUME IInv, [Next]_vars PROVE IInv'
  OBVIOUS
<1>1. CASE UNCHANGED vars
  BY <1>1 DEF vars, IInv, TypeOK, Sides, Contexts, OwnCaller, Sent, Started
<1>2. ASSUME NEW c \in Call, NEW x \in Context \cup {"none"}, Request(c, x) PROVE IInv'
  BY <1>2, RequestKeeps
<1>3. ASSUME NEW c \in Call, NEW o \in Objects(c), Send(c, o) PROVE IInv'
  <2>1. o \in Object
    BY DEF Objects, Object
  <2> QED
    BY <1>3, <2>1, SendKeeps
<1>4. ASSUME NEW c \in Call, NEW items \in SUBSET Key, SendForeign(c, items) PROVE IInv'
  BY <1>4, SendForeignKeeps
<1>5. ASSUME NEW c \in Call, Handle(c) PROVE IInv'
  BY <1>5, HandleKeeps
<1>6. ASSUME NEW c \in Call, NEW err \in BOOLEAN, Answer(c, err) \/ Return(c, err) PROVE IInv'
  BY <1>6, AnswerKeeps, ReturnKeeps
<1>7. ASSUME NEW x \in Context, StartLocal(x) PROVE IInv'
  BY <1>7, StartLocalKeeps
<1>8. ASSUME NEW x \in Context, NEW k \in Key, SetBaggageItem(x, k) PROVE IInv'
  BY <1>8, SetBaggageItemKeeps
<1> QED
  BY <1>1, <1>2, <1>3, <1>4, <1>5, <1>6, <1>7, <1>8 DEF Next

-------------------------------------------------------------------------------

LEMMA InitItems == Init => Items
<1> SUFFICES ASSUME Init PROVE Items
  OBVIOUS
<1>1. \A c \in Call : client[c] = "idle"
  BY DEF Init
<1>2. \A o \in Object : headers[o].items = {}
  BY DEF Init, NoHeaders
<1>3. \A x \in Context : inContext[x] = NoSpan
  BY DEF Init
<1> QED
  BY <1>1, <1>2, <1>3, Distinct DEF Items, Sent

\* Nothing is sent, and client spans keep their items.
LEMMA ItemsKept ==
  ASSUME IInv, Items, Sent' = Sent, UNCHANGED <<wire, headers, carried, reused>>,
         \A c \in Sent : span'[ClientSpan(c)].items = span[ClientSpan(c)].items,
         \A c \in Call : client'[c] = "foreign" => client[c] = "foreign",
         \A x \in Context, c \in Call : inContext'[x] # ClientSpan(c)
  PROVE  Items'
BY DEF Items

LEMMA SendItems ==
  ASSUME IInv, Items, NEW c \in Call, NEW o \in Object, Send(c, o)
  PROVE  Items'
<1> USE DEF IInv
<1> DEFINE s == StartClient(c)
           h == Injected(headers[o], c, s)
<1>1. /\ client[c] = "made" /\ client' = [client EXCEPT ![c] = "sent"]
      /\ span' = [span EXCEPT ![ClientSpan(c)] = s]
      /\ headers' = [headers EXCEPT ![o] = h]
      /\ wire' = [wire EXCEPT ![c] = h]
      /\ carried' = carried \cup {o}
      /\ reused' = IF o \in carried THEN reused \cup {c} ELSE reused
      /\ UNCHANGED <<server, given, inContext>>
  BY DEF Send
<1>2. h.items = headers[o].items \cup s.items
  BY DEF Injected, TypeOK, Header
<1> HIDE DEF s, h
<1>3. /\ span'[ClientSpan(c)] = s /\ wire'[c] = h /\ client'[c] = "sent"
      /\ \A d \in Call : d # c => /\ span'[ClientSpan(d)] = span[ClientSpan(d)]
                                /\ wire'[d] = wire[d] /\ client'[d] = client[d]
  BY <1>1, Distinct DEF TypeOK
<1>4. \A p \in Object : p # o => headers'[p] = headers[p]
  BY <1>1 DEF TypeOK
<1>5. o \notin carried => h.items = s.items
  BY <1>2 DEF Items
<1>6. Sent' = Sent \cup {c}
  BY <1>1, <1>3 DEF Sent
<1>7. ASSUME NEW d \in Sent'
      PROVE  /\ span'[ClientSpan(d)].items \subseteq wire'[d].items
             /\ d \notin reused' => wire'[d].items = span'[ClientSpan(d)].items
  <2>1. CASE d = c
    BY <1>1, <1>2, <1>3, <1>5, <2>1
  <2>2. CASE d # c
    <3>1. d \in Sent /\ d \in Call /\ (d \notin reused' => d \notin reused)
      BY <1>1, <1>6, <2>2 DEF Sent
    <3> QED
      BY <1>3, <2>2, <3>1 DEF Items
  <2> QED
    BY <2>1, <2>2
<1>8. \A d \in Call : client'[d] = "foreign" => wire'[d].items = {}
  BY <1>3 DEF Items
<1>9. \A p \in Object \ carried' : headers'[p].items = {}
  BY <1>1, <1>4 DEF Items
<1>10. \A x \in Context, d \in Call : inContext'[x] # ClientSpan(d)
  BY <1>1 DEF Items
<1> QED
  BY <1>7, <1>8, <1>9, <1>10 DEF Items

LEMMA SendForeignItems ==
  ASSUME IInv, Items, NEW c \in Call, NEW items \in SUBSET Key, SendForeign(c, items)
  PROVE  Items'
<1> USE DEF IInv
<1> DEFINE h == [NoHeaders EXCEPT !.list = items]
<1>1. /\ client[c] = "idle" /\ client' = [client EXCEPT ![c] = "foreign"]
      /\ wire' = [wire EXCEPT ![c] = h]
      /\ UNCHANGED <<server, given, span, inContext, headers, carried, reused>>
  BY DEF SendForeign
<1>2. h.items = {}
  BY DEF NoHeaders
<1> HIDE DEF h
<1>3. /\ wire'[c] = h /\ Sent' = Sent /\ c \notin Sent
      /\ \A d \in Call : d # c => wire'[d] = wire[d] /\ client'[d] = client[d]
  BY <1>1 DEF TypeOK, Sent
<1>4. \A d \in Sent : d \in Call /\ d # c
  BY <1>3 DEF Sent
<1>5. \A d \in Call : client'[d] = "foreign" => wire'[d].items = {}
  BY <1>2, <1>3 DEF Items
<1> QED
  BY <1>1, <1>3, <1>4, <1>5 DEF Items

LEMMA HandleItems ==
  ASSUME IInv, Items, NEW c \in Call, Handle(c)
  PROVE  Items'
<1> USE DEF IInv
<1>1. /\ span' = [span EXCEPT ![ServerSpan(c)] = StartServer(c)]
      /\ inContext' = [inContext EXCEPT ![c] = ServerSpan(c)]
      /\ headers' = [headers EXCEPT ![Received(c)] = Cleaned(wire[c])]
      /\ UNCHANGED <<client, given, wire, carried, reused>>
      /\ wire[c] # Unsent
  BY DEF Handle
<1>2. \A d \in Call : span'[ClientSpan(d)] = span[ClientSpan(d)]
  BY <1>1, Distinct DEF TypeOK
<1>3. Cleaned(wire[c]).items = {}
  BY <1>1 DEF Cleaned, TypeOK, Header
<1>4. \A o \in Object \ carried' : headers'[o].items = {}
  BY <1>1, <1>3 DEF TypeOK, Items
<1>5. \A x \in Context, d \in Call : inContext'[x] # ClientSpan(d)
  BY <1>1, Distinct DEF TypeOK, Items
<1>6. Sent' = Sent /\ \A d \in Sent : d \in Call
  BY <1>1 DEF Sent
<1> QED
  BY <1>1, <1>2, <1>4, <1>5, <1>6 DEF Items

LEMMA CallbackItems ==
  ASSUME IInv, Items, NEW c \in Call, NEW err \in BOOLEAN, Answer(c, err) \/ Return(c, err)
  PROVE  Items'
<1> USE DEF IInv
<1>1. PICK s \in SpanId : span' = [span EXCEPT ![s] = CalledBack(s, err)] /\ Started(s)
  BY Distinct DEF Answer, Return, WrappedCallback, Sides, Sent
<1>2. CalledBack(s, err).items = span[s].items
  BY <1>1 DEF CalledBack, Started, SpanRecord
<1>3. \A d \in Call : span'[ClientSpan(d)].items = span[ClientSpan(d)].items
  BY <1>1, <1>2, Distinct DEF TypeOK
<1>4. /\ UNCHANGED <<given, inContext, headers, wire, carried, reused>>
      /\ \A d \in Call : client'[d] = client[d] \/ {client[d], client'[d]} \subseteq {"sent", "returned"}
  BY DEF Answer, Return, TypeOK
<1>5. Sent' = Sent /\ \A d \in Sent : d \in Call
  BY <1>4 DEF Sent
<1>6. \A d \in Call : client'[d] = "foreign" => client[d] = "foreign"
  BY <1>4
<1>7. \A x \in Context, d \in Call : inContext'[x] # ClientSpan(d)
  BY <1>4 DEF Items
<1> QED
  BY <1>3, <1>4, <1>5, <1>6, <1>7, ItemsKept

\* Items are set on spans of contexts, which are no client spans.
LEMMA ContextItems ==
  ASSUME IInv, Items, NEW x \in Context,
         StartLocal(x) \/ \E k \in Key : SetBaggageItem(x, k)
  PROVE  Items'
<1> USE DEF IInv
<1>1. /\ UNCHANGED <<client, server, given, headers, wire, carried, reused>>
      /\ \A d \in Call : span'[ClientSpan(d)] = span[ClientSpan(d)]
      /\ \A y \in Context, d \in Call : inContext'[y] # ClientSpan(d)
  <2>1. CASE StartLocal(x)
    BY <2>1, Distinct DEF StartLocal, TypeOK, Items
  <2>2. ASSUME NEW k \in Key, SetBaggageItem(x, k)
        PROVE  /\ UNCHANGED <<client, server, given, inContext, headers, wire, carried, reused>>
               /\ \A d \in Call : span'[ClientSpan(d)] = span[ClientSpan(d)]
    <3>1. span' = [span EXCEPT ![inContext[x]].items = @ \cup {k}]
      BY <2>2 DEF SetBaggageItem
    <3>2. \A d \in Call : ClientSpan(d) # inContext[x] /\ ClientSpan(d) \in SpanId
      BY Distinct DEF Items
    <3> QED
      BY <2>2, <3>1, <3>2 DEF SetBaggageItem, TypeOK
  <2> QED
    BY <2>1, <2>2 DEF Items
<1>2. Sent' = Sent /\ \A d \in Sent : d \in Call
  BY <1>1 DEF Sent
<1> QED
  BY <1>1, <1>2, ItemsKept

LEMMA NextKeepsItems == IInv /\ Items /\ [Next]_vars => Items'
<1> SUFFICES ASSUME IInv, Items, [Next]_vars PROVE Items'
  OBVIOUS
<1>1. CASE UNCHANGED vars
  BY <1>1 DEF vars, Items, Sent
<1>2. ASSUME NEW c \in Call, NEW x \in Context \cup {"none"}, Request(c, x) PROVE Items'
  <2>1. Sent' = Sent /\ \A d \in Call : client'[d] = "foreign" => client[d] = "foreign"
    BY <1>2 DEF Request, Sent, IInv, TypeOK
  <2>2. UNCHANGED <<span, inContext, headers, wire, carried, reused>>
    BY <1>2 DEF Request
  <2> QED
    BY <2>1, <2>2, ItemsKept DEF Items
<1>3. ASSUME NEW c \in Call, NEW o \in Objects(c), Send(c, o) PROVE Items'
  <2>1. o \in Object
    BY DEF Objects, Object
  <2> QED
    BY <1>3, <2>1, SendItems
<1>4. ASSUME NEW c \in Call, NEW items \in SUBSET Key, SendForeign(c, items) PROVE Items'
  BY <1>4, SendForeignItems
<1>5. ASSUME NEW c \in Call, Handle(c) PROVE Items'
  BY <1>5, HandleItems
<1>6. ASSUME NEW c \in Call, NEW err \in BOOLEAN, Answer(c, err) \/ Return(c, err) PROVE Items'
  BY <1>6, CallbackItems
<1>7. ASSUME NEW x \in Context, StartLocal(x) PROVE Items'
  BY <1>7, ContextItems
<1>8. ASSUME NEW x \in Context, NEW k \in Key, SetBaggageItem(x, k) PROVE Items'
  BY <1>8, ContextItems
<1> QED
  BY <1>1, <1>2, <1>3, <1>4, <1>5, <1>6, <1>7, <1>8 DEF Next

\* The items that a handler reads.
LEMMA HandledItems ==
  ASSUME IInv, Items, NEW c \in Call, Handle(c)
  PROVE  LET own == (IF client[c] = "foreign" THEN {} ELSE span[ClientSpan(c)].items)
                      \cup wire[c].list
         IN  /\ own \subseteq span'[ServerSpan(c)].items
             /\ c \notin reused => span'[ServerSpan(c)].items = own
<1> USE DEF IInv
<1>1. /\ wire[c] # Unsent
      /\ span' = [span EXCEPT ![ServerSpan(c)] = StartServer(c)]
  BY DEF Handle
<1>2. span'[ServerSpan(c)] = StartServer(c)
  BY <1>1, Distinct DEF TypeOK
<1>3. StartServer(c).items = wire[c].items \cup wire[c].list
  BY DEF StartServer, Root, Below
<1>4. CASE client[c] = "foreign"
  BY <1>2, <1>3, <1>4 DEF Items
<1>5. CASE client[c] # "foreign"
  <2>1. c \in Sent
    BY <1>1, <1>5 DEF Sent, Sides, TypeOK
  <2> QED
    BY <1>2, <1>3, <1>5, <2>1 DEF Items
<1> QED
  BY <1>4, <1>5

-------------------------------------------------------------------------------

\* The span of a handler is below that of its very caller, and a call made in
\* a handler's context is in the handler's trace, for any calls in any nesting
\* and any use of the headers objects (_wrapTChannelSend, _extractSpan).
THEOREM CallerIsOwn == Spec => []OwnCaller
<1>1. IInv => OwnCaller
  BY DEF IInv
<1> QED
  BY <1>1, InitIInv, NextKeeps, PTL DEF Spec

\* A handler reads the baggage of its caller, no less, and no more unless the
\* program used the headers object for another call before (tracedHandler,
\* inject).
THEOREM BaggageIsItsCallers == Spec => BaggageOfItsCaller
<1>1. IInv /\ Items /\ [Next]_vars => IInv' /\ Items'
  BY NextKeeps, NextKeepsItems
<1> DEFINE Right ==
      \A c \in Call : server[c] = "none" /\ server'[c] = "running" =>
        LET own == (IF client[c] = "foreign" THEN {} ELSE span[ClientSpan(c)].items)
                     \cup wire[c].list
        IN  /\ own \subseteq span'[ServerSpan(c)].items
            /\ c \notin reused => span'[ServerSpan(c)].items = own
<1>2. IInv /\ Items /\ [Next]_vars => [Right]_vars
  <2> SUFFICES ASSUME IInv, Items, Next, NEW c \in Call,
                      server[c] = "none", server'[c] = "running"
               PROVE  Handle(c)
    BY HandledItems
  <2>1. server \in [Call -> {"none", "running", "answered"}]
    BY DEF IInv, TypeOK
  <2> QED
    BY <2>1 DEF Next, Request, Send, SendForeign, Handle, Answer, Return,
                StartLocal, SetBaggageItem
<1>3. IInv /\ Items /\ [Next]_vars => [Right]_vars
  BY <1>2
<1> QED
  BY <1>1, <1>2, InitIInv, InitItems, PTL DEF Spec, BaggageOfItsCaller

===============================================================================
