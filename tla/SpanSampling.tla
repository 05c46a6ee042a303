----------------------------- MODULE SpanSampling -----------------------------
(***************************************************************************)
(* The sampling decision of a span: src/tracer.js (startSpan, inject),     *)
(* src/span.js and src/span_context.js.                                    *)
(*                                                                         *)
(* The flags live in a mutable SpanContext.  A root span may be sampled    *)
(* again by setOperationName until its context is finalized: when it is    *)
(* finished, used as a parent, injected, or given a sampling.priority.     *)
(* setBaggageItem gives the span a new context, a copy; the program may    *)
(* still hold the old one, and hand it to startSpan or inject.             *)
(*                                                                         *)
(* The program is the environment: it calls any method of any span in any  *)
(* order, after finish() too.  So are the sampler's and the debug          *)
(* throttler's answers (RemoteThrottler) and the contexts that extract()   *)
(* reads from a carrier.  Operation names, tags, ids and baggage values    *)
(* are left out.                                                           *)
(***************************************************************************)
EXTENDS Integers, FiniteSets

CONSTANTS
  Span,                 \* the spans the program starts
  MaxContexts           \* bound of the model: contexts of one span, one more
                        \* than its successful setBaggageItem calls

ASSUME SamplingAssumption ==
  /\ IsFiniteSet(Span)
  /\ MaxContexts \in Nat \ {0}

VARIABLES
  current,              \* number of _spanContext among the span's contexts;
                        \* 0: the span is not started
  flags,                \* flags and _samplingFinalized of each context
  reports,              \* how often the span was reported; _duration is set
                        \* by the first
  metric,               \* counters of src/metrics/metrics.js
  roots,                \* history: spans that began a trace, and below what
  linked,               \* history: <<child, parent>> of spans started from the
                        \* current context of a span, neither forced since
  sent,                 \* history: what inject wrote for a span not forced
                        \* since, from its current context
  refused,              \* history: spans a tag or log was dropped from
  forced,               \* history: spans whose flags sampling.priority changed
  spent                 \* history: debug credits each span took

vars == <<current, flags, reports, metric, roots, linked, sent, refused,
          forced, spent>>

Flags == [sampled : BOOLEAN, debug : BOOLEAN, final : BOOLEAN]

\* The tag sampling.priority of a call: not there, 0, or positive.
Priority == {"absent", "off", "on"}

\* What a call gives startSpan as a parent that is not a valid context: no
\* parent; a context with only a debug id; an empty one, which extract()
\* returns for a carrier without a trace.
Orphan == {"none", "debugId", "empty"}

\* The metrics: traces started here, joined from elsewhere, spans started and
\* spans finished.
Metric == {"tracesStarted", "tracesJoined", "spansStarted"} \X BOOLEAN
            \cup {<<"spansFinished", TRUE>>}

Started(s) == current[s] > 0
Context(s) == flags[s][current[s]]

\* finalizeSampling
Finalized(f) == [f EXCEPT !.final = TRUE]

\* _isWriteable
Writeable(f) == ~f.final \/ f.sampled

-------------------------------------------------------------------------------

Counted(names) ==
  metric' = [m \in Metric |-> metric[m] + IF m \in names THEN 1 ELSE 0]

\* Mutant: priority 0 takes the debug flag away as well.
WithPriority_ClearsDebug(f, priority, grant) ==
  CASE priority = "absent" -> f
    [] priority = "off" -> [sampled |-> FALSE, debug |-> FALSE, final |-> TRUE]
    [] priority = "on" ->
         IF grant /\ ~f.debug
         THEN [sampled |-> TRUE, debug |-> TRUE, final |-> TRUE]
         ELSE Finalized(f)

\* _setSamplingPriority: the flags it makes of f; grant is the answer of the
\* debug throttler, which is asked only if f is not in debug.
WithPriority(f, priority, grant) ==
  CASE priority = "absent" -> f
    [] priority = "off" -> [Finalized(f) EXCEPT !.sampled = FALSE]
    [] priority = "on" ->
         IF grant /\ ~f.debug
         THEN [sampled |-> TRUE, debug |-> TRUE, final |-> TRUE]
         ELSE Finalized(f)

\* Whether _setSamplingPriority takes a credit of the throttler.
Spends(f, priority, grant) == priority = "on" /\ ~f.debug /\ grant

\* Whether it changes more than the finalization.
Forces(f, g) == f.sampled # g.sampled \/ f.debug # g.debug

\* Mutant: a debug id counts as a parent.
HadParent_DebugId(orphan) == orphan # "none"

\* hadParent of _startInternalSpan, for a root.
HadParent(orphan) == orphan = "empty"

\* _startInternalSpan: span s begins with flags f; its tags are added, of
\* which sampling.priority may change the flags, and the metrics counted.
\* others: the flags of all contexts, the parent's finalized; credits: what
\* startSpan itself took from the throttler.
StartInternal(s, f, others, hadParent, rpcServer, priority, grant, credits) ==
  LET g == WithPriority(f, priority, grant)
  IN /\ ~Started(s)
     /\ current' = [current EXCEPT ![s] = 1]
     /\ flags' = [others EXCEPT ![s][1] = g]
     /\ refused' = IF Writeable(g) THEN refused ELSE refused \cup {s}
     /\ forced' = IF Forces(f, g) THEN forced \cup {s} ELSE forced
     /\ spent' = [spent EXCEPT ![s] =
                    credits + IF Spends(f, priority, grant) THEN 1 ELSE 0]
     /\ Counted({<<"spansStarted", g.sampled>>} \cup
                IF ~hadParent THEN {<<"tracesStarted", g.sampled>>}
                ELSE IF rpcServer THEN {<<"tracesJoined", g.sampled>>}
                ELSE {})
     /\ UNCHANGED <<reports, sent>>

\* startSpan without a valid parent: the sampler decides, a debug id may ask
\* for a debug trace; the decision is not final.
StartRoot(s, orphan, sampled, byId, rpcServer, priority, grant) ==
  LET debug == orphan = "debugId" /\ byId
      f == [sampled |-> sampled \/ debug, debug |-> debug, final |-> FALSE]
  IN /\ StartInternal(s, f, flags, HadParent(orphan), rpcServer, priority,
                      grant, IF debug THEN 1 ELSE 0)
     /\ roots' = roots \cup {<<s, orphan>>}
     /\ UNCHANGED linked

\* startSpan below a context f that extract() read and finalized.
StartJoined(s, f, rpcServer, priority, grant) ==
  /\ StartInternal(s, Finalized(f), flags, TRUE, rpcServer,
                   priority, grant, 0)
  /\ UNCHANGED <<roots, linked>>

\* Mutant: startSpan finalizes the child's context and forgets the parent's.
FinalizeParent_Forgotten(p, v) == flags

\* parent.finalizeSampling() of startSpan.
FinalizeParent(p, v) == [flags EXCEPT ![p][v] = Finalized(@)]

\* startSpan below context v of span p, current or not.
StartChild(s, p, v, rpcServer, priority, grant) ==
  LET f == Finalized(flags[p][v])
  IN /\ v <= current[p]
     /\ StartInternal(s, f, FinalizeParent(p, v), TRUE, rpcServer, priority,
                      grant, 0)
     /\ linked' = IF v = current[p] /\ ~Forces(f, WithPriority(f, priority, grant))
                  THEN linked \cup {<<s, p>>} ELSE linked
     /\ UNCHANGED roots

\* setOperationName: what it makes of flags f, for the sampler's decision.
Resampled(f, sampled) ==
  IF f.final THEN f ELSE [Finalized(f) EXCEPT !.sampled = @ \/ sampled]

SetOperationName(s, sampled) ==
  /\ Started(s)
  /\ flags' = [flags EXCEPT ![s][current[s]] = Resampled(@, sampled)]
  /\ UNCHANGED <<current, reports, metric, roots, linked, sent, refused, forced,
                 spent>>

\* setTag or addTags with sampling.priority.  The tag itself is dropped when
\* the flags could not be changed, or the span is not writeable after it.
SetPriority(s, priority, grant) ==
  LET f == Context(s)
      g == WithPriority(f, priority, grant)
  IN /\ Started(s)
     /\ priority # "absent"
     /\ flags' = [flags EXCEPT ![s][current[s]] = g]
     /\ spent' = [spent EXCEPT ![s] = @ + IF Spends(f, priority, grant) THEN 1 ELSE 0]
     /\ refused' = IF Writeable(g) THEN refused ELSE refused \cup {s}
     /\ IF Forces(f, g)
        THEN /\ forced' = forced \cup {s}
             /\ linked' = {l \in linked : s \notin {l[1], l[2]}}
             /\ sent' = {x \in sent : x[1] # s}
        ELSE UNCHANGED <<forced, linked, sent>>
     /\ UNCHANGED <<current, reports, metric, roots>>

\* setTag, addTags, log: dropped if the span is not writeable.
Write(s) ==
  /\ Started(s)
  /\ refused' = IF Writeable(Context(s)) THEN refused ELSE refused \cup {s}
  /\ UNCHANGED <<current, flags, reports, metric, roots, linked, sent, forced,
                 spent>>

\* Mutant: the copy is not finalized, whatever the original was.
WithBaggageItem_Reopened(f) == [f EXCEPT !.final = FALSE]

\* withBaggageItem: the new context has the flags and the finalization of f.
WithBaggageItem(f) == f

\* setBaggageItem with a key that the restrictions allow.
SetBaggageItem(s) ==
  /\ Started(s)
  /\ current[s] < MaxContexts
  /\ current' = [current EXCEPT ![s] = @ + 1]
  /\ flags' = [flags EXCEPT ![s][current[s] + 1] = WithBaggageItem(Context(s))]
  /\ UNCHANGED <<reports, metric, roots, linked, sent, refused, forced, spent>>

\* Mutant: what is injected may still be decided differently.
Injected_Open(f) == f

\* inject finalizes the context.
Injected(f) == Finalized(f)

\* inject of context v of span s, current or not.
Inject(s, v) ==
  /\ v <= current[s]
  /\ flags' = [flags EXCEPT ![s][v] = Injected(@)]
  /\ sent' = IF v = current[s]
             THEN sent \cup {<<s, Context(s).sampled, Context(s).debug>>}
             ELSE sent
  /\ UNCHANGED <<current, reports, metric, roots, linked, refused, forced, spent>>

\* finish(): nothing, if the span has a duration already; otherwise the
\* decision is final, and a sampled span is given a duration and reported.
Finish(s) ==
  /\ Started(s)
  /\ reports[s] = 0
  /\ flags' = [flags EXCEPT ![s][current[s]] = Finalized(@)]
  /\ IF Context(s).sampled
     THEN /\ reports' = [reports EXCEPT ![s] = @ + 1]
          /\ Counted({<<"spansFinished", TRUE>>})
     ELSE UNCHANGED <<reports, metric>>
  /\ UNCHANGED <<current, roots, linked, sent, refused, forced, spent>>

-------------------------------------------------------------------------------

Version == 1..MaxContexts

Init ==
  /\ current = [s \in Span |-> 0]
  /\ flags = [s \in Span |-> [v \in Version |->
                [sampled |-> FALSE, debug |-> FALSE, final |-> FALSE]]]
  /\ reports = [s \in Span |-> 0]
  /\ metric = [m \in Metric |-> 0]
  /\ roots = {}
  /\ linked = {}
  /\ sent = {}
  /\ refused = {}
  /\ forced = {}
  /\ spent = [s \in Span |-> 0]

Start(s) ==
  \E rpcServer, grant \in BOOLEAN, priority \in Priority :
    \/ \E orphan \in Orphan, sampled, byId \in BOOLEAN :
         StartRoot(s, orphan, sampled, byId, rpcServer, priority, grant)
    \/ \E f \in Flags : StartJoined(s, f, rpcServer, priority, grant)
    \/ \E p \in Span, v \in Version :
         StartChild(s, p, v, rpcServer, priority, grant)

Next ==
  \E s \in Span :
    \/ Start(s)
    \/ \E sampled \in BOOLEAN : SetOperationName(s, sampled)
    \/ \E priority \in Priority, grant \in BOOLEAN : SetPriority(s, priority, grant)
    \/ Write(s)
    \/ SetBaggageItem(s)
    \/ \E v \in Version : Inject(s, v)
    \/ Finish(s)

Spec == Init /\ [][Next]_vars

-------------------------------------------------------------------------------

TypeOK ==
  /\ current \in [Span -> 0..MaxContexts]
  /\ flags \in [Span -> [Version -> Flags]]
  /\ reports \in [Span -> 0..1]
  /\ metric \in [Metric -> Nat]
  /\ roots \subseteq Span \X Orphan
  /\ linked \subseteq Span \X Span
  /\ sent \subseteq Span \X BOOLEAN \X BOOLEAN
  /\ refused \subseteq Span
  /\ forced \subseteq Span
  /\ spent \in [Span -> Nat]

\* A trace has one decision: a child and its parent stay sampled, or not, and
\* in debug, or not, alike, whatever is renamed, given baggage, injected or
\* finished after the child began, until the program forces one of the two
\* (tracer.js startSpan; span.js setOperationName; span_context.js
\* withBaggageItem).
ChildrenAgree ==
  \A l \in linked :
    /\ Context(l[1]).sampled = Context(l[2]).sampled
    /\ Context(l[1]).debug = Context(l[2]).debug

\* What another process was told of the decision by inject stays true of the
\* span, until the program forces it (tracer.js inject).
InjectedAgrees ==
  \A x \in sent : Context(x[1]).sampled = x[2] /\ Context(x[1]).debug = x[3]

\* A span that is reported has every tag and log it was given before, the tag
\* sampling.priority aside: one from which something was dropped is never
\* reported, unless the program forced its sampling (span.js _isWriteable).
ReportsAreComplete ==
  \A s \in refused : reports[s] > 0 => s \in forced

\* A span takes at most one credit of the debug throttler, however it comes
\* into debug and however often its priority is set: debug is for good
\* (span.js _setSamplingPriority, tracer.js startSpan).
OneCreditPerSpan == \A s \in Span : spent[s] <= 1

MetricSum(name) == metric[<<name, TRUE>>] + metric[<<name, FALSE>>]

\* No counter drifts from what it counts, whatever the program calls, again
\* and in any order: spans finished are those reported, every span is counted
\* when it starts, and a trace that begins here is counted as such, one begun
\* by a debug id too, except below an empty context (tracer.js
\* _startInternalSpan, _report).
MetricsMatch ==
  /\ metric[<<"spansFinished", TRUE>>] = Cardinality({s \in Span : reports[s] > 0})
  /\ MetricSum("spansStarted") = Cardinality({s \in Span : Started(s)})
  /\ MetricSum("tracesStarted") = Cardinality({r \in roots : r[2] # "empty"})

===============================================================================
