------------------------------ MODULE TracerClose ------------------------------
(***************************************************************************)
(* How a tracer shuts down: Tracer.close (src/tracer.js) over a            *)
(* CompositeReporter (src/reporters/composite_reporter.js), whose children *)
(* close at once (logging, in-memory, no-op) or when their last flush is   *)
(* answered (remote, see UDPReporter and HTTPReporter), and over the       *)
(* sampler and the debug throttler. A tracer with one reporter is as one   *)
(* with a composite reporter of one child.                                 *)
(*                                                                         *)
(* close() swaps the reporter for a no-op one, so that spans that finish   *)
(* later go nowhere, and a second close() reaches only the no-op one.      *)
(* The program may call close() as often as it likes.                      *)
(*                                                                         *)
(* TracerLifecycle adds how the tracer is made, and Assemble is its step.  *)
(***************************************************************************)
EXTENDS Integers, FiniteSets

CONSTANTS
  Reporter,             \* reporters that a tracer may have
  Remote,               \* those whose close() calls back later
  RepeatsCallback,      \* those whose callback may come twice: an HTTP request
                        \* that fails after its response
  Span,
  MaxClose              \* bound of the model: calls of Tracer.close

ASSUME CloseAssumption ==
  /\ IsFiniteSet(Reporter) /\ Reporter # {}
  /\ Remote \subseteq Reporter
  /\ RepeatsCallback \subseteq Remote
  /\ MaxClose \in Nat \ {0}

VARIABLES
  current,              \* tracer._reporter: the configured one, a no-op, or
                        \* none while there is no tracer
  child,                \* each reporter: absent, open, closing, closed, and
                        \* ended once it called back twice or at once
  stranded,             \* history: spans handed to a child already closed
  count,                \* calls of the composite callback, `count` in the code
  closeCalls,           \* calls of Tracer.close so far
  callbacks,            \* how often the callback of each of them was called
  running,              \* timers and sockets of the tracer's parts
  finished              \* spans that finished

closeVars == <<current, child, stranded, count, closeCalls, callbacks,
               running, finished>>

CloseNumber == 1..MaxClose

Children == {r \in Reporter : child[r] # "absent"}

\* The timer or the socket of a part: a reporter, the sampler, the throttler.
Timer(part) == <<part, "timer">>
Socket(part) == <<part, "socket">>

-------------------------------------------------------------------------------

\* Mutant: the composite calls back on the first answer.
CompositeDone_Any(n) == n >= 1

\* _compositeCallback: after n calls, is the limit reached?
CompositeDone(n) == n >= Cardinality(Children)

\* What the composite reporter calls when done: sampler.close, which clears
\* its timer and calls the callback of the first close() at once.
Stopped(parts) ==
  parts \ (IF CompositeDone(count') THEN {Timer("sampler")} ELSE {})
CallBackIfDone ==
  callbacks' = [callbacks EXCEPT ![1] = IF CompositeDone(count') THEN @ + 1 ELSE @]

\* A tracer is made of these reporters; parts run for it. It has the spans
\* that no earlier tracer finished.
Assemble(reporters, parts) ==
  /\ current' = "configured"
  /\ child' = [r \in Reporter |-> IF r \in reporters THEN "open" ELSE "absent"]
  /\ count' = 0
  /\ closeCalls' = 0
  /\ callbacks' = [k \in CloseNumber |-> 0]
  /\ running' = parts
  /\ UNCHANGED <<stranded, finished>>

\* span.finish(): tracer._report hands the span to the current reporter,
\* which hands it to every child.
Finish(s) ==
  /\ current # "none"
  /\ s \notin finished
  /\ finished' = finished \cup {s}
  /\ stranded' = IF current = "configured" /\ \E r \in Children : child[r] # "open"
                 THEN stranded \cup {s}
                 ELSE stranded
  /\ UNCHANGED <<current, child, count, closeCalls, callbacks, running>>

\* Mutant: the configured reporter stays in place.
ReporterAfterClose_Same == current

\* close() leaves the tracer with a no-op reporter.
ReporterAfterClose == "noop"

\* Every child is closed; those that are not remote call back at once.
ChildAfterClose(r) ==
  IF r \notin Children THEN "absent" ELSE IF r \in Remote THEN "closing" ELSE "ended"

\* The first close(): remote children clear their timers and flush, and the
\* throttler is closed without a callback.
FirstClose ==
  /\ current # "none"
  /\ closeCalls = 0
  /\ closeCalls' = 1
  /\ current' = ReporterAfterClose
  /\ child' = [r \in Reporter |-> ChildAfterClose(r)]
  /\ count' = Cardinality({r \in Reporter : child'[r] = "ended"})
  /\ running' = Stopped(running \ ({Timer(r) : r \in Remote} \cup {Timer("throttler")}))
  /\ CallBackIfDone
  /\ UNCHANGED <<stranded, finished>>

\* A later close() closes the no-op reporter, which calls back at once, so
\* that the sampler is closed and calls back.
LaterClose ==
  /\ closeCalls \in 1..(MaxClose - 1)
  /\ closeCalls' = closeCalls + 1
  /\ callbacks' = [callbacks EXCEPT ![closeCalls + 1] = 1]
  /\ running' = running \ {Timer("sampler"), Timer("throttler")}
  /\ UNCHANGED <<current, child, stranded, count, finished>>

CloseTracer == FirstClose \/ LaterClose

\* Mutant: the sender is not closed.
SocketsAfter_Left(r) == running

\* The child closes its sender.
SocketsAfter(r) == running \ {Socket(r)}

\* The last flush of a remote child is answered, once or again: its sender is
\* closed and the composite callback called.
ChildClosed(r) ==
  /\ \/ child[r] = "closing"
     \/ child[r] = "closed" /\ r \in RepeatsCallback
  /\ child' = [child EXCEPT ![r] = IF @ = "closing" THEN "closed" ELSE "ended"]
  /\ count' = count + 1
  /\ running' = Stopped(SocketsAfter(r))
  /\ CallBackIfDone
  /\ UNCHANGED <<current, stranded, closeCalls, finished>>

\* There is no tracer yet.
CloseInit ==
  /\ current = "none"
  /\ child = [r \in Reporter |-> "absent"]
  /\ stranded = {}
  /\ count = 0
  /\ closeCalls = 0
  /\ callbacks = [k \in CloseNumber |-> 0]
  /\ running = {}
  /\ finished = {}

CloseNext ==
  \/ \E s \in Span : Finish(s)
  \/ \E r \in Remote : ChildClosed(r)
  \/ CloseTracer

-------------------------------------------------------------------------------

AllClosed == \A r \in Children : child[r] \in {"closed", "ended"}

\* As long as no remote child has called back twice, the callback of the
\* first close() comes when every child has called back, not earlier and not
\* again (composite_reporter.js _compositeCallback).
BarrierWaitsForAll ==
  current # "none" /\ (\A r \in Remote : child[r] # "ended") =>
    callbacks[1] = IF AllClosed THEN 1 ELSE 0

\* No span is handed to a reporter that has been closed, where no timer would
\* ever flush it, whatever finishes while the children close (tracer.js
\* close, _report).
NothingStranded == stranded = {}

\* Every close() is called back in the end, and after it no timer and no
\* socket of the tracer is left, whatever it was made of and even if a child
\* called back twice (tracer.js close, and close of the parts).
CloseCompletes ==
  /\ \A k \in CloseNumber : closeCalls >= k ~> callbacks[k] > 0
  /\ closeCalls >= 1 ~> running = {}

===============================================================================
