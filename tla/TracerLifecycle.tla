---------------------------- MODULE TracerLifecycle ----------------------------
(***************************************************************************)
(* A tracer from initTracer to close: what Configuration makes, TracerClose*)
(* closes. A program makes one tracer at a time, and may make another of   *)
(* the same objects when a call has thrown, or the tracer has been closed. *)
(***************************************************************************)
EXTENDS Configuration, TracerClose

CONSTANTS
  Environment,          \* environments, configs and options of the program
  Config,
  Options,
  MaxCalls              \* bound of the model: calls of initTracer

\* The fields of the two arguments.
IsConfig(c) ==
  c = [serviceName |-> c.serviceName, disable |-> c.disable, sampler |-> c.sampler,
       reporter |-> c.reporter, throttler |-> c.throttler]
IsOptions(o) ==
  o = [metrics |-> o.metrics, logger |-> o.logger, reporter |-> o.reporter,
       throttler |-> o.throttler, tags |-> o.tags]

ASSUME LifecycleAssumption ==
  /\ MaxCalls \in Nat \ {0}
  /\ {"logging", "udp", "http"} \cup OwnReporters \subseteq Reporter
  /\ OwnReporters # {}  \* a composite of none would never call back
  /\ \A c \in Config : IsConfig(c)
  /\ \A o \in Options : IsOptions(o)

vars == <<configVars, closeVars>>

\* The program has no tracer that is open or still closes; parts of its own
\* are not used again when they have been closed with a tracer.
NoTracerOpen ==
  \/ current = "none"
  \/ closeCalls > 0 /\ AllClosed /\ ~options.reporter /\ ~options.throttler

\* Either function, and the tracer that it returns, if it does.
MakeTracer ==
  /\ calls < MaxCalls
  /\ NoTracerOpen
  /\ InitTracer \/ InitTracerFromEnv
  /\ IF last'.tracer # NoTracer
     THEN Assemble(last'.tracer.reporters, last'.tracer.parts)
     ELSE UNCHANGED closeVars

Init ==
  /\ ConfigInit(Environment, Config, Options)
  /\ CloseInit

Next ==
  \/ MakeTracer
  \/ \E e \in Environment : calls \in 1..(MaxCalls - 1) /\ NoTracerOpen
                              /\ EnvChanges(e) /\ UNCHANGED closeVars
  \/ CloseNext /\ UNCHANGED configVars

\* The flush that close() starts is answered (UDPReporter!CloseCompletes).
Fairness == \A r \in Remote :
              WF_vars(child[r] = "closing" /\ ChildClosed(r) /\ UNCHANGED configVars)

Spec == Init /\ [][Next]_vars
FairSpec == Spec /\ Fairness

===============================================================================
