----------------------------- MODULE TChannelBridge ----------------------------
(***************************************************************************)
(* TChannelBridge (src/tchannel_bridge.js): client spans of the requests   *)
(* that go through a traced channel, server spans of the handlers that are *)
(* traced, and the contexts and headers that tie them together.            *)
(*                                                                         *)
(* A call has a client side, which makes a request with a context (maybe   *)
(* none) and sends it later with a headers object, and a server side, whose*)
(* handler gets a context of its own and the headers without what belongs  *)
(* to the bridge. A handler may make calls itself, in its own context, in  *)
(* another or in none, and with the very headers object that it was given; *)
(* a program may use one headers object for several calls.                 *)
(*                                                                         *)
(* TChannel, the library, is external: it writes the headers to the wire   *)
(* before send returns, and calls the callback of a request once, with the *)
(* answer, or with an error when it gives up waiting. Handlers answer at   *)
(* most once.                                                              *)
(***************************************************************************)
EXTENDS Integers, FiniteSets

CONSTANTS
  Call,                 \* calls, each with a client and a server side
  Key,                  \* keys of baggage items
  MaxLocal              \* bound of the model: spans that the program starts itself

ASSUME CallAssumption ==
  /\ IsFiniteSet(Call) /\ "main" \notin Call /\ "none" \notin Call
  /\ MaxLocal \in Nat

VARIABLES
  client,               \* client side of each call: idle, made, sent, returned, or
                        \* foreign, sent by a client that is not traced
  server,               \* server side: none, running, answered
  given,                \* the context that the request was made with, or "none"
  span,                 \* the spans that were started
  inContext,            \* the span that each context holds, or NoSpan
  headers,              \* the headers objects
  wire,                 \* the headers of each call as they were sent
  carried,              \* history: the headers objects that were sent
  reused                \* history: calls whose headers object had carried another

vars == <<client, server, given, span, inContext, headers, wire, carried, reused>>

\* Spans by where they are started: by a client side, by a handler, or by the
\* program within a context.
ClientSpan(c) == <<"client", c>>
ServerSpan(c) == <<"server", c>>
LocalSpan(x) == <<"local", x>>

\* The contexts: one of the program, and one of each handler.
Main == "main"
Context == {Main} \cup Call

SpanId == {ClientSpan(c) : c \in Call} \cup {ServerSpan(c) : c \in Call}
            \cup {LocalSpan(x) : x \in Context}

NoSpan == <<"none", Main>>
NotStarted == [state |-> "new"]

\* Headers: the span whose context is under the bridge's key, the items under
\* its prefix, and those of jaeger-baggage, which is no header of the bridge.
NoHeaders == [trace |-> NoSpan, items |-> {}, list |-> {}]
Unsent == [NoHeaders EXCEPT !.trace = <<"unsent", Main>>]

\* Headers objects: one that the program shares among its calls, those that
\* handlers got, and a new one for each call.
Shared == <<"shared", 0>>
Received(c) == <<"received", c>>
New(c) == <<"new", c>>
Object == {Shared} \cup {Received(c) : c \in Call} \cup {New(c) : c \in Call}

\* startSpan: below a parent, or as the root of a new trace, with the items of
\* the parent or, if there is none, those of the extracted headers.
Below(p) ==
  [state |-> "open", parent |-> p, trace |-> span[p].trace, items |-> span[p].items,
   error |-> FALSE]
Root(s, items) ==
  [state |-> "open", parent |-> NoSpan, trace |-> s, items |-> items, error |-> FALSE]

-------------------------------------------------------------------------------

\* channel.request, _wrapTChannelRequest: a request for call c is made, and
\* the context x of its options, if any, goes with it.
Request(c, x) ==
  /\ client[c] = "idle"
  /\ x \in Call => server[x] # "none"
  /\ client' = [client EXCEPT ![c] = "made"]
  /\ given' = [given EXCEPT ![c] = x]
  /\ UNCHANGED <<server, span, inContext, headers, wire, carried, reused>>

\* The span that the context of the request holds by now; a request without a
\* context gets an empty one.
HeldFor(c) == IF given[c] = "none" THEN NoSpan ELSE inContext[given[c]]

\* The client span: below the span in the context, or the root of a trace.
StartClient(c) ==
  LET p == HeldFor(c)
  IN  IF p = NoSpan THEN Root(ClientSpan(c), {}) ELSE Below(p)

\* Mutant: the context that is injected is the one the call is made in.
Injected_Parent(h, c, s) ==
  [h EXCEPT !.trace = IF s.parent = NoSpan THEN ClientSpan(c) ELSE s.parent,
            !.items = @ \cup s.items]

\* inject: the key of the trace is overwritten, items are added to those that
\* the object holds.
Injected(h, c, s) == [h EXCEPT !.trace = ClientSpan(c), !.items = @ \cup s.items]

\* _wrapTChannelSend, with the headers object o.
Send(c, o) ==
  /\ client[c] = "made"
  /\ client' = [client EXCEPT ![c] = "sent"]
  /\ LET s == StartClient(c)
         h == Injected(headers[o], c, s)
     IN  /\ span' = [span EXCEPT ![ClientSpan(c)] = s]
         /\ headers' = [headers EXCEPT ![o] = h]
         /\ wire' = [wire EXCEPT ![c] = h]
  /\ carried' = carried \cup {o}
  /\ reused' = IF o \in carried THEN reused \cup {c} ELSE reused
  /\ UNCHANGED <<server, given, inContext>>

\* A client without tracing sends headers, maybe with items in jaeger-baggage.
SendForeign(c, items) ==
  /\ client[c] = "idle"
  /\ client' = [client EXCEPT ![c] = "foreign"]
  /\ wire' = [wire EXCEPT ![c] = [NoHeaders EXCEPT !.list = items]]
  /\ UNCHANGED <<server, given, span, inContext, headers, carried, reused>>

\* _extractSpan: the items of both kinds of headers are the span's, also
\* when there is no trace.
StartServer(c) ==
  LET items == wire[c].items \cup wire[c].list
  IN  IF wire[c].trace = NoSpan THEN Root(ServerSpan(c), items)
      ELSE [Below(wire[c].trace) EXCEPT !.items = items]

\* Mutant: the headers go to the handler as they came.
Cleaned_Not(h) == h

\* The headers whose names begin with $tracing$ are deleted.
Cleaned(h) == [h EXCEPT !.trace = NoSpan, !.items = {}]

\* tracedHandler, up to the call of the handler: its context holds its span.
\* A call may arrive when its client has given up.
Handle(c) ==
  /\ wire[c] # Unsent
  /\ server[c] = "none"
  /\ server' = [server EXCEPT ![c] = "running"]
  /\ span' = [span EXCEPT ![ServerSpan(c)] = StartServer(c)]
  /\ inContext' = [inContext EXCEPT ![c] = ServerSpan(c)]
  /\ headers' = [headers EXCEPT ![Received(c)] = Cleaned(wire[c])]
  /\ UNCHANGED <<client, given, wire, carried, reused>>

\* Mutant: a callback with an error returns before the span is finished.
CalledBack_OnSuccess(s, err) ==
  IF err THEN [span[s] EXCEPT !.error = TRUE] ELSE [span[s] EXCEPT !.state = "finished"]

\* _tchannelCallbackWrapper: the span of a side gets an error or not, and is
\* finished.
CalledBack(s, err) ==
  [span[s] EXCEPT !.error = @ \/ err, !.state = "finished"]

WrappedCallback(s, err) == span' = [span EXCEPT ![s] = CalledBack(s, err)]

\* The handler answers, with a result or an error.
Answer(c, err) ==
  /\ server[c] = "running"
  /\ server' = [server EXCEPT ![c] = "answered"]
  /\ WrappedCallback(ServerSpan(c), err)
  /\ UNCHANGED <<client, given, inContext, headers, wire, carried, reused>>

\* TChannel calls back with the answer, or because none came in time.
Return(c, err) ==
  /\ client[c] = "sent"
  /\ err \/ server[c] = "answered"
  /\ client' = [client EXCEPT ![c] = "returned"]
  /\ WrappedCallback(ClientSpan(c), err)
  /\ UNCHANGED <<server, given, inContext, headers, wire, carried, reused>>

\* The program starts a span below the one that a context holds, if any, and
\* puts it into the context.
StartLocal(x) ==
  /\ span[LocalSpan(x)] = NotStarted
  /\ Cardinality({y \in Context : span[LocalSpan(y)] # NotStarted}) < MaxLocal
  /\ x \in Call => server[x] # "none"
  /\ span' = [span EXCEPT ![LocalSpan(x)] =
                 IF inContext[x] = NoSpan THEN Root(LocalSpan(x), {})
                 ELSE Below(inContext[x])]
  /\ inContext' = [inContext EXCEPT ![x] = LocalSpan(x)]
  /\ UNCHANGED <<client, server, given, headers, wire, carried, reused>>

\* setBaggageItem on the span that a context holds.
SetBaggageItem(x, k) ==
  /\ inContext[x] # NoSpan
  /\ k \notin span[inContext[x]].items
  /\ span' = [span EXCEPT ![inContext[x]].items = @ \cup {k}]
  /\ UNCHANGED <<client, server, given, inContext, headers, wire, carried, reused>>

Init ==
  /\ client = [c \in Call |-> "idle"]
  /\ server = [c \in Call |-> "none"]
  /\ given = [c \in Call |-> "none"]
  /\ span = [s \in SpanId |-> NotStarted]
  /\ inContext = [x \in Context |-> NoSpan]
  /\ headers = [o \in Object |-> NoHeaders]
  /\ wire = [c \in Call |-> Unsent]
  /\ carried = {}
  /\ reused = {}

\* A handler's headers object is there once the handler was called; a new one
\* is used for its call only.
Objects(c) ==
  {Shared, New(c)} \cup {Received(d) : d \in {e \in Call : server[e] # "none"}}

Next ==
  \/ \E c \in Call, x \in Context \cup {"none"} : Request(c, x)
  \/ \E c \in Call : \E o \in Objects(c) : Send(c, o)
  \/ \E c \in Call, items \in SUBSET Key : SendForeign(c, items)
  \/ \E c \in Call : Handle(c)
  \/ \E c \in Call, err \in BOOLEAN : Answer(c, err) \/ Return(c, err)
  \/ \E x \in Context : StartLocal(x)
  \/ \E x \in Context, k \in Key : SetBaggageItem(x, k)

Spec == Init /\ [][Next]_vars

\* TChannel calls every callback in the end; handlers need not answer.
Fairness == \A c \in Call : WF_vars(\E err \in BOOLEAN : Return(c, err))
FairSpec == Spec /\ Fairness

-------------------------------------------------------------------------------

Sent == {c \in Call : client[c] \in {"sent", "returned"}}

\* The span of a handler is below the client span of its very call, and a call
\* made in a handler's context, even long after, is in the handler's trace; a
\* call made in no context is in a trace of its own. This whatever headers
\* objects are passed on or shared (_wrapTChannelSend, _wrapTChannelRequest,
\* _extractSpan).
OwnCaller ==
  /\ \A c \in Sent :
       LET s == span[ClientSpan(c)]
       IN  s.trace = CASE given[c] \in Call -> span[ServerSpan(given[c])].trace
                       [] given[c] = "none" -> ClientSpan(c)
                       [] OTHER -> IF s.parent = NoSpan THEN ClientSpan(c)
                                   ELSE LocalSpan(Main)
  /\ \A c \in Sent : server[c] # "none" =>
       /\ span[ServerSpan(c)].parent = ClientSpan(c)
       /\ span[ServerSpan(c)].trace = span[ClientSpan(c)].trace

\* A handler reads the baggage that its client's span had, and that of
\* jaeger-baggage, no less, and no more unless the client passed headers that
\* had carried another call's: those that a handler got and passes on do not
\* count as such (tracedHandler deletes, inject).
BaggageOfItsCaller ==
  [][\A c \in Call : server[c] = "none" /\ server'[c] = "running" =>
       LET own == (IF client[c] = "foreign" THEN {} ELSE span[ClientSpan(c)].items)
                    \cup wire[c].list
       IN  /\ own \subseteq span'[ServerSpan(c)].items
           /\ c \notin reused => span'[ServerSpan(c)].items = own]_vars

\* Every client span that is started is finished, whether its call was
\* answered, failed or was given up, and a handler's when it answers, be it
\* with an error (_tchannelCallbackWrapper).
EveryCallFinishes ==
  \A c \in Call :
    /\ client[c] = "sent" ~> span[ClientSpan(c)].state = "finished"
    /\ server[c] = "answered" ~> span[ServerSpan(c)].state = "finished"

===============================================================================
