------------------------- MODULE TracerLifecycleProofs -------------------------
(***************************************************************************)
(* Proofs about TracerLifecycle, for any reporters, environments and       *)
(* objects of the program, and any number of calls.                        *)
(*                                                                         *)
(* That nothing is stranded needs OpenWhileConfigured: a reporter is open  *)
(* as long as the tracer has it. The barrier needs more: Counted ties      *)
(* `count`, which only calls of the callback move, to the phases of the    *)
(* children, and holds until a child calls back twice.                     *)
(*                                                                         *)
(* That what was read stays needs Kept: the objects are a fixed point of   *)
(* reading the latest environment, which they are because to read twice is *)
(* to read once (ReadAgain), setting by setting (ReadTwice).               *)
(***************************************************************************)
EXTENDS TracerLifecycle, FiniteSetTheorems, TLAPS

\* The sampler is the first part, and before the reporter there is no other.
LEMMA FirstPart ==
  MadeBefore("sampler") = {} /\ MadeBefore("reporter") \subseteq {"sampler"}
<1>1. MakingOrder = <<"sampler", "reporter", "throttler">>
  BY DEF MakingOrder
<1>2. {j \in 1..3 : \A k \in 1..j : MakingOrder[k] # "sampler"} = {}
  BY <1>1
<1>3. {j \in 1..3 : \A k \in 1..j : MakingOrder[k] # "reporter"} \subseteq {1}
  BY <1>1
<1> QED
  BY <1>1, <1>2, <1>3 DEF MadeBefore

\* What a call that fails leaves behind, at most.
LEMMA LittleLeft ==
  ASSUME NEW c, NEW o, NEW why, why # "noSampler", NEW p \in LeftBehind(c, o, why)
  PROVE  why = "endpoint" /\ p = <<"sampler", "timer">>
<1>1. PICK part \in MadeBy(why) : p \in Starts(c, o, part)
  BY DEF LeftBehind
<1>2. why = "endpoint" /\ part = "sampler"
  BY <1>1, FirstPart DEF MadeBy
<1>3. p \in SamplerParts(c)
  BY <1>1, <1>2 DEF Starts
<1> QED
  BY <1>2, <1>3 DEF SamplerParts

\* A call of either function adds to `leaked` for these reasons only.
LEMMA CallLeavesLittle ==
  ASSUME NEW from, NEW c, NEW o, Call(from, c, o), FailureLeavesLittle
  PROVE  FailureLeavesLittle'
<1> DEFINE why == Failure(c, o)
<1>1. leaked' = leaked \cup {<<p, why>> : p \in LeftBehind(c, o, why)}
  BY DEF Call
<1> HIDE DEF why
<1>2. CASE why = "noSampler"
  BY <1>1, <1>2 DEF FailureLeavesLittle
<1>3. CASE why # "noSampler"
  <2>1. \A p \in LeftBehind(c, o, why) : why = "endpoint" /\ p = <<"sampler", "timer">>
    BY <1>3, LittleLeft
  <2> QED
    BY <1>1, <2>1 DEF FailureLeavesLittle
<1> QED
  BY <1>2, <1>3

\* An exception of initTracer leaves the timer of the remote sampler at most,
\* and only when the collector's endpoint cannot be parsed, but for a sampler of
\* unknown type with a logger, which leaves all (configuration.js initTracer).
THEOREM FailureStopsMost == Spec => []FailureLeavesLittle
<1>1. Init => FailureLeavesLittle
  BY DEF Init, ConfigInit, FailureLeavesLittle
<1>2. FailureLeavesLittle /\ [Next]_vars => FailureLeavesLittle'
  <2> SUFFICES ASSUME FailureLeavesLittle, [Next]_vars
               PROVE  FailureLeavesLittle'
    OBVIOUS
  <2>1. CASE MakeTracer
    <3>1. CASE InitTracer
      BY <3>1, CallLeavesLittle DEF InitTracer
    <3>2. CASE InitTracerFromEnv
      <4>1. CASE TagsFail
        BY <4>1 DEF TagsFail, FailureLeavesLittle
      <4>2. CASE Call("env", ConfigFromEnv(env, config, options),
                      OptionsFromEnv(env, options))
        BY <4>2, CallLeavesLittle
      <4> QED
        BY <3>2, <4>1, <4>2 DEF InitTracerFromEnv
    <3> QED
      BY <2>1, <3>1, <3>2 DEF MakeTracer
  <2>2. ASSUME NEW e \in Environment, EnvChanges(e)
        PROVE  FailureLeavesLittle'
    BY <2>2 DEF EnvChanges, FailureLeavesLittle
  <2>3. CASE UNCHANGED configVars
    BY <2>3 DEF configVars, FailureLeavesLittle
  <2>4. CASE UNCHANGED vars
    BY <2>4 DEF vars, configVars, FailureLeavesLittle
  <2> QED
    BY <2>1, <2>2, <2>3, <2>4 DEF Next
<1> QED
  BY <1>1, <1>2, PTL DEF Spec

-------------------------------------------------------------------------------

\* A reporter is open as long as the tracer has it.
OpenWhileConfigured ==
  current = "configured" => \A r \in Reporter : child[r] \in {"absent", "open"}

\* The types of what close() writes.
CloseTypeOK ==
  /\ current \in {"none", "configured", "noop"}
  /\ child \in [Reporter -> {"absent", "open", "closing", "closed", "ended"}]
  /\ count \in Nat
  /\ closeCalls \in Nat
  /\ callbacks \in [CloseNumber -> Nat]

Done == {r \in Reporter : child[r] \in {"closed", "ended"}}

\* Before the first close() nothing has called back; a tracer has a reporter.
NotClosedYet ==
  /\ current = "none" => closeCalls = 0
  /\ current # "none" => Children # {}
  /\ closeCalls = 0 => /\ callbacks[1] = 0
                       /\ \A r \in Reporter : child[r] \in {"absent", "open"}

\* After it, as long as no child has called back twice, `count` is the number
\* of those that have called back.
NoneTwice == \A r \in Remote : child[r] # "ended"
Counted ==
  closeCalls > 0 /\ NoneTwice =>
    /\ count = Cardinality(Done)
    /\ callbacks[1] = IF Done = Children THEN 1 ELSE 0

IInv == CloseTypeOK /\ NothingStranded /\ OpenWhileConfigured /\ NotClosedYet /\ Counted

-------------------------------------------------------------------------------

LEMMA FirstIsANumber == 1 \in CloseNumber
BY CloseAssumption DEF CloseNumber

\* As many reporters as there are have called back exactly if all have.
LEMMA AllOfThem ==
  ASSUME NEW D, NEW C, IsFiniteSet(C), D \subseteq C
  PROVE  Cardinality(D) >= Cardinality(C) <=> D = C
<1>1. /\ IsFiniteSet(D)
      /\ Cardinality(D) <= Cardinality(C)
      /\ Cardinality(C) = Cardinality(D) => C = D
  BY FS_Subset
<1>2. Cardinality(D) \in Nat /\ Cardinality(C) \in Nat
  BY <1>1, FS_CardinalityType
<1> QED
  BY <1>1, <1>2

\* The reporters of a tracer that is made.
LEMMA TracerHasReporters ==
  ASSUME NEW from, NEW c, NEW o, Call(from, c, o), last'.tracer # NoTracer
  PROVE  last'.tracer.reporters \cap Reporter # {}
<1>1. last'.tracer = TracerOf(c, o)
  BY DEF Call
<1>2. TracerOf(c, o).reporters = ReportersOf(c, o)
  BY DEF TracerOf
<1>3. SenderOf(c).kind \in {"http", "udp"}
  BY DEF SenderOf
<1>4. ReportersOf(c, o) \cap (OwnReporters \cup {"http", "udp"}) # {}
  BY <1>3, LifecycleAssumption DEF ReportersOf
<1> QED
  BY <1>1, <1>2, <1>4, LifecycleAssumption

LEMMA MadeTracerHasReporters ==
  ASSUME MakeTracer, last'.tracer # NoTracer
  PROVE  last'.tracer.reporters \cap Reporter # {}
<1>1. CASE InitTracer
  BY <1>1, TracerHasReporters DEF InitTracer
<1>2. CASE TagsFail
  BY <1>2 DEF TagsFail
<1>3. CASE Call("env", ConfigFromEnv(env, config, options), OptionsFromEnv(env, options))
  BY <1>3, TracerHasReporters
<1> QED
  BY <1>1, <1>2, <1>3 DEF MakeTracer, InitTracerFromEnv

-------------------------------------------------------------------------------

LEMMA InitIInv == Init => IInv
<1> SUFFICES ASSUME Init PROVE IInv
  OBVIOUS
<1>1. CloseTypeOK /\ NothingStranded /\ OpenWhileConfigured
  BY DEF Init, CloseInit, CloseTypeOK, NothingStranded, OpenWhileConfigured
<1>2. NotClosedYet /\ Counted
  BY FirstIsANumber DEF Init, CloseInit, NotClosedYet, Counted
<1> QED
  BY <1>1, <1>2 DEF IInv

\* What the invariant speaks of, and what leaves it alone.
LEMMA Untouched ==
  ASSUME IInv, UNCHANGED <<current, child, stranded, count, closeCalls, callbacks>>
  PROVE  IInv'
BY DEF IInv, CloseTypeOK, NothingStranded, OpenWhileConfigured, NotClosedYet,
       Counted, NoneTwice, Done, Children

\* A new tracer: its reporters are open, and there is one at least.
LEMMA AssembleKeeps ==
  ASSUME IInv, NEW reporters, NEW parts, Assemble(reporters, parts),
         reporters \cap Reporter # {}
  PROVE  IInv'
<1>1. CloseTypeOK' /\ NothingStranded' /\ OpenWhileConfigured'
  BY DEF IInv, Assemble, CloseTypeOK, NothingStranded, OpenWhileConfigured
<1>2. Children' # {}
  BY DEF Assemble, Children
<1>3. NotClosedYet' /\ Counted'
  BY <1>2, FirstIsANumber DEF Assemble, NotClosedYet, Counted
<1> QED
  BY <1>1, <1>3 DEF IInv

\* A span goes to open children, or to the no-op reporter.
LEMMA FinishKeeps ==
  ASSUME IInv, NEW s, Finish(s)
  PROVE  IInv'
<1>1. stranded' = stranded
  BY DEF Finish, IInv, OpenWhileConfigured, Children
<1> QED
  BY <1>1, Untouched DEF Finish

\* The first close(): those that are not remote have called back.
LEMMA FirstCloseKeeps ==
  ASSUME IInv, FirstClose
  PROVE  IInv'
<1> USE DEF IInv
<1>1. /\ child' = [r \in Reporter |-> ChildAfterClose(r)]
      /\ count' = Cardinality({r \in Reporter : child'[r] = "ended"})
      /\ closeCalls' = 1 /\ current' = "noop" /\ stranded' = stranded
      /\ callbacks' = [callbacks EXCEPT ![1] =
                         IF CompositeDone(count') THEN @ + 1 ELSE @]
  BY DEF FirstClose, ReporterAfterClose, CallBackIfDone
<1>2. \A r \in Reporter :
        /\ child'[r] \in {"absent", "closing", "ended"}
        /\ child'[r] = "absent" <=> child[r] = "absent"
  BY <1>1 DEF ChildAfterClose, Children
<1>3. Children' = Children
  BY <1>2 DEF Children
<1>4. Done' = {r \in Reporter : child'[r] = "ended"} /\ Done' \subseteq Children
  BY <1>2 DEF Done, Children
<1>5. IsFiniteSet(Children) /\ IsFiniteSet(Done')
  BY <1>4, FS_Subset, CloseAssumption DEF Children, Done
<1>6. count' = Cardinality(Done') /\ count' \in Nat
  BY <1>1, <1>4, <1>5, FS_CardinalityType
<1>7. CompositeDone(count') <=> Done' = Children
  BY <1>4, <1>5, <1>6, AllOfThem DEF CompositeDone
<1>8. callbacks[1] = 0 /\ callbacks \in [CloseNumber -> Nat] /\ 1 \in CloseNumber
  BY FirstIsANumber DEF FirstClose, NotClosedYet, CloseTypeOK
<1>9. /\ callbacks' \in [CloseNumber -> Nat]
      /\ callbacks'[1] = IF CompositeDone(count') THEN 1 ELSE 0
  BY <1>1, <1>8
<1>10. CloseTypeOK'
  <2>1. child' \in [Reporter -> {"absent", "open", "closing", "closed", "ended"}]
    BY <1>1, <1>2
  <2> QED
    BY <1>1, <1>6, <1>9, <2>1 DEF CloseTypeOK
<1>11. NothingStranded' /\ OpenWhileConfigured'
  BY <1>1 DEF NothingStranded, OpenWhileConfigured
<1>12. NotClosedYet'
  BY <1>1, <1>3 DEF NotClosedYet, FirstClose
<1>13. Counted'
  BY <1>3, <1>6, <1>7, <1>9 DEF Counted
<1> QED
  BY <1>10, <1>11, <1>12, <1>13

\* A later one has a callback of its own.
LEMMA LaterCloseKeeps ==
  ASSUME IInv, LaterClose
  PROVE  IInv'
<1> USE DEF IInv
<1>1. /\ closeCalls \in Nat /\ closeCalls > 0 /\ closeCalls + 1 \in CloseNumber
      /\ closeCalls + 1 # 1
  BY CloseAssumption DEF LaterClose, CloseNumber
<1>2. /\ callbacks' \in [CloseNumber -> Nat] /\ callbacks'[1] = callbacks[1]
      /\ closeCalls' \in Nat /\ closeCalls' > 0
  BY <1>1, FirstIsANumber DEF LaterClose, CloseTypeOK
<1>3. UNCHANGED <<current, child, stranded, count>>
  BY DEF LaterClose
<1>4. CloseTypeOK' /\ NothingStranded' /\ OpenWhileConfigured'
  BY <1>2, <1>3 DEF CloseTypeOK, NothingStranded, OpenWhileConfigured
<1>5. NotClosedYet' /\ Counted'
  <2>1. Children' = Children /\ Done' = Done /\ (NoneTwice' <=> NoneTwice)
    BY <1>3 DEF Children, Done, NoneTwice
  <2>2. current # "none"
    BY <1>1 DEF NotClosedYet
  <2> QED
    BY <1>1, <1>2, <1>3, <2>1, <2>2 DEF NotClosedYet, Counted
<1> QED
  BY <1>4, <1>5

\* A remote child calls back, for the first time or again.
LEMMA ChildClosedKeeps ==
  ASSUME IInv, NEW r \in Remote, ChildClosed(r)
  PROVE  IInv'
<1> USE DEF IInv
<1>1. r \in Reporter /\ child[r] \in {"closing", "closed"}
  BY CloseAssumption DEF ChildClosed
<1>2. /\ child' = [child EXCEPT ![r] = IF @ = "closing" THEN "closed" ELSE "ended"]
      /\ count' = count + 1
      /\ callbacks' = [callbacks EXCEPT ![1] =
                         IF CompositeDone(count') THEN @ + 1 ELSE @]
      /\ UNCHANGED <<current, stranded, closeCalls>>
  BY DEF ChildClosed, CallBackIfDone
<1>3. closeCalls > 0 /\ current # "configured" /\ current # "none"
  BY <1>1 DEF NotClosedYet, OpenWhileConfigured, CloseTypeOK
<1>4. Children' = Children
  BY <1>1, <1>2 DEF CloseTypeOK, Children
<1>5. callbacks \in [CloseNumber -> Nat] /\ callbacks' \in [CloseNumber -> Nat]
  BY <1>2, FirstIsANumber DEF CloseTypeOK
<1>6. CloseTypeOK' /\ NothingStranded' /\ OpenWhileConfigured'
  <2>1. child' \in [Reporter -> {"absent", "open", "closing", "closed", "ended"}]
    BY <1>1, <1>2 DEF CloseTypeOK
  <2>2. count' \in Nat
    BY <1>2 DEF CloseTypeOK
  <2> QED
    BY <1>2, <1>3, <1>5, <2>1, <2>2
    DEF CloseTypeOK, NothingStranded, OpenWhileConfigured
<1>7. NotClosedYet'
  BY <1>2, <1>3, <1>4 DEF NotClosedYet, CloseTypeOK
<1>8. ASSUME NoneTwice'
      PROVE  /\ count' = Cardinality(Done')
             /\ callbacks'[1] = IF Done' = Children' THEN 1 ELSE 0
  <2>1. child[r] = "closing"
    BY <1>1, <1>2, <1>8 DEF NoneTwice, CloseTypeOK
  <2>2. Done' = Done \cup {r} /\ r \notin Done /\ r \in Children
    BY <1>1, <1>2, <2>1 DEF Done, Children, CloseTypeOK
  <2>3. IsFiniteSet(Children) /\ IsFiniteSet(Done) /\ IsFiniteSet(Done')
    BY FS_Subset, CloseAssumption DEF Children, Done
  <2>4. NoneTwice
    <3>1. \A x \in Remote : x # r => child'[x] = child[x]
      BY <1>1, <1>2, CloseAssumption DEF CloseTypeOK
    <3> QED
      BY <1>8, <2>1, <3>1 DEF NoneTwice
  <2>5. count = Cardinality(Done) /\ callbacks[1] = 0
    BY <1>3, <2>2, <2>4 DEF Counted
  <2>6. count' = Cardinality(Done')
    BY <1>2, <2>2, <2>3, <2>5, FS_AddElement
  <2>7. Done' \subseteq Children
    BY <1>4 DEF Done, Children
  <2>8. CompositeDone(count') <=> Done' = Children
    BY <2>3, <2>6, <2>7, AllOfThem DEF CompositeDone
  <2> QED
    BY <1>2, <1>4, <1>5, <2>5, <2>6, <2>8, FirstIsANumber
<1>9. Counted'
  BY <1>8 DEF Counted
<1> QED
  BY <1>6, <1>7, <1>9

LEMMA NextKeeps == IInv /\ [Next]_vars => IInv'
<1> SUFFICES ASSUME IInv, [Next]_vars PROVE IInv'
  OBVIOUS
<1>1. CASE UNCHANGED closeVars
  BY <1>1, Untouched DEF closeVars
<1>2. CASE MakeTracer
  <2>1. CASE last'.tracer # NoTracer
    <3>1. Assemble(last'.tracer.reporters, last'.tracer.parts)
      BY <1>2, <2>1 DEF MakeTracer
    <3> QED
      BY <1>2, <2>1, <3>1, AssembleKeeps, MadeTracerHasReporters
  <2>2. CASE last'.tracer = NoTracer
    BY <1>1, <1>2, <2>2 DEF MakeTracer
  <2> QED
    BY <2>1, <2>2
<1>3. ASSUME NEW s \in Span, Finish(s) PROVE IInv'
  BY <1>3, FinishKeeps
<1>4. ASSUME NEW r \in Remote, ChildClosed(r) PROVE IInv'
  BY <1>4, ChildClosedKeeps
<1>5. CASE CloseTracer
  BY <1>5, FirstCloseKeeps, LaterCloseKeeps DEF CloseTracer
<1> QED
  BY <1>1, <1>2, <1>3, <1>4, <1>5 DEF Next, CloseNext, vars

\* The inductive invariant holds: what the two theorems below rest on.
THEOREM Inductive == Spec => []IInv
BY InitIInv, NextKeeps, PTL DEF Spec

\* No span is handed to a reporter that has been closed (tracer.js close,
\* _report).
THEOREM NoneStranded == Spec => []NothingStranded
<1>1. IInv => NothingStranded
  BY DEF IInv
<1> QED
  BY <1>1, Inductive, PTL

\* The callback of the first close() comes when every child has called back,
\* not earlier and not again (composite_reporter.js _compositeCallback).
THEOREM BarrierHolds == Spec => []BarrierWaitsForAll
<1>1. IInv => BarrierWaitsForAll
  <2> SUFFICES ASSUME IInv, current # "none", NoneTwice
               PROVE  callbacks[1] = IF AllClosed THEN 1 ELSE 0
    BY DEF BarrierWaitsForAll, NoneTwice
  <2>1. AllClosed <=> Done = Children
    BY DEF AllClosed, Done, Children
  <2>2. CASE closeCalls = 0
    <3>1. ~AllClosed /\ callbacks[1] = 0
      BY <2>2 DEF IInv, NotClosedYet, AllClosed, Children
    <3> QED
      BY <3>1
  <2>3. CASE closeCalls # 0
    BY <2>1, <2>3 DEF IInv, CloseTypeOK, Counted
  <2> QED
    BY <2>2, <2>3
<1> QED
  BY <1>1, Inductive, PTL

-------------------------------------------------------------------------------
(* What initTracerFromEnv reads stays.                                     *)

\* A parameter that config gives is a number, as its schema says, or a text
\* that becomes one other than zero (configuration.js samplerSchema).
ReadableParam(section) ==
  LET param == Given(section, "param")
  IN  Truthy(param) => Truthy(ParsedFloat(param))

\* The objects are as a call with the latest environment leaves them, whose
\* outcome is what they say.
Kept ==
  last.from = "env" /\ last.failure # "tags" /\ options.metrics # "replaced" =>
    /\ last.failure = Failure(config, options)
    /\ last.tracer = IF Built(config, options) THEN TracerOf(config, options)
                     ELSE NoTracer
    /\ ConfigFromEnv(last.env, config, options) = config
    /\ OptionsFromEnv(last.env, options) = options

KeptInv ==
  /\ IsConfig(config) /\ IsOptions(options)
  /\ ReadableParam(config.sampler)
  /\ Kept

\* What is made of a value is made of itself again, but for parameters that
\* are no numbers, or zero, which count as missing.
LEMMA ParsedTwice ==
  ASSUME NEW s, NEW v, Truthy(v)
  PROVE  /\ s # "param" => Truthy(Parsed(s, v))
         /\ Truthy(Parsed(s, v)) => Parsed(s, Parsed(s, v)) = Parsed(s, v)
<1>1. CASE s = "param"
  BY <1>1 DEF Parsed, ParsedFloat, Number, Numeral, Truthy, True
<1>2. CASE s = "logSpans"
  BY <1>2 DEF Parsed, Truthy, True
<1>3. CASE s \notin {"param", "logSpans"}
  BY <1>3 DEF Parsed
<1> QED BY <1>1, <1>2, <1>3

\* A setting is read again as it was read: it is there, or still missing.
LEMMA ReadTwice ==
  ASSUME NEW e, NEW section, NEW Setting, NEW s \in Setting,
         "param" \in Setting => ReadableParam(section)
  PROVE  LET f == FromBoth(e, section, Setting)
         IN  /\ Truthy(ConfigValue(e, f, s)) <=> Truthy(ConfigValue(e, section, s))
             /\ Truthy(ConfigValue(e, section, s)) =>
                  Parsed(s, ConfigValue(e, f, s)) = Parsed(s, ConfigValue(e, section, s))
<1> DEFINE f == FromBoth(e, section, Setting)
           v == ConfigValue(e, section, s)
<1>1. CASE Truthy(v)
  <2>1. Given(f, s) = Parsed(s, v)
    BY <1>1 DEF FromBoth, Given
  <2>2. CASE Truthy(Parsed(s, v))
    <3>1. ConfigValue(e, f, s) = Parsed(s, v)
      BY <2>1, <2>2 DEF ConfigValue
    <3> QED BY <1>1, <2>2, <3>1, ParsedTwice
  <2>3. CASE ~Truthy(Parsed(s, v))
    <3>1. s = "param" /\ ~Truthy(ParsedFloat(v))
      BY <1>1, <2>3, ParsedTwice DEF Parsed
    <3>2. ~Truthy(Given(section, s))
      BY <3>1 DEF ReadableParam, ConfigValue
    <3>3. ConfigValue(e, f, s) = v
      BY <2>1, <2>3, <3>2 DEF ConfigValue
    <3> QED BY <1>1, <3>3
  <2> QED BY <2>2, <2>3
<1>2. CASE ~Truthy(v)
  <2>1. Given(f, s) = Unset
    BY <1>2 DEF FromBoth, Given
  <2>2. ~Truthy(Unset)
    BY DEF Unset, Truthy, True
  <2>3. ConfigValue(e, f, s) = v
    BY <1>2, <2>1, <2>2 DEF ConfigValue
  <2> QED BY <1>2, <2>3
<1> QED BY <1>1, <1>2

LEMMA WrittenTwice ==
  ASSUME NEW e, NEW section, NEW Setting,
         "param" \in Setting => ReadableParam(section)
  PROVE  Written(e, Written(e, section, Setting), Setting) = Written(e, section, Setting)
<1> DEFINE f == FromBoth(e, section, Setting)
<1>1. CASE DOMAIN f = {}
  BY <1>1 DEF Written
<1>2. CASE DOMAIN f # {}
  <2>1. Written(e, section, Setting) = f
    BY <1>2 DEF Written
  <2>2. \A s \in Setting :
          /\ Truthy(ConfigValue(e, f, s)) <=> Truthy(ConfigValue(e, section, s))
          /\ Truthy(ConfigValue(e, section, s)) =>
               Parsed(s, ConfigValue(e, f, s)) = Parsed(s, ConfigValue(e, section, s))
    BY ReadTwice
  <2> HIDE DEF f
  <2>3. {t \in Setting : Truthy(ConfigValue(e, f, t))} =
          {t \in Setting : Truthy(ConfigValue(e, section, t))}
    BY <2>2
  <2>4. FromBoth(e, f, Setting) = FromBoth(e, section, Setting)
    BY <2>2, <2>3 DEF FromBoth
  <2>5. FromBoth(e, f, Setting) = f
    BY <2>4 DEF f
  <2> QED BY <1>2, <2>1, <2>5 DEF Written
<1> QED BY <1>1, <1>2

\* The parameter that is written is a number.
LEMMA WrittenReadable ==
  ASSUME NEW e, NEW section, NEW Setting, ReadableParam(section)
  PROVE  ReadableParam(Written(e, section, Setting))
<1> DEFINE f == FromBoth(e, section, Setting)
           v == ConfigValue(e, section, "param")
<1>1. CASE "param" \in DOMAIN f
  <2>1. Given(f, "param") = ParsedFloat(v)
    BY <1>1 DEF FromBoth, Given, Parsed
  <2>2. Truthy(ParsedFloat(v)) => ParsedFloat(ParsedFloat(v)) = ParsedFloat(v)
    BY DEF ParsedFloat, Number, Numeral, Truthy, True
  <2>3. ReadableParam(f)
    BY <2>1, <2>2 DEF ReadableParam
  <2> QED BY <2>3 DEF Written
<1>2. CASE "param" \notin DOMAIN f
  <2>1. ReadableParam(f)
    BY <1>2 DEF ReadableParam, Given, Truthy, Unset, True
  <2> QED BY <2>1 DEF Written
<1> QED BY <1>1, <1>2


\* The objects that initTracerFromEnv makes, field by field.
LEMMA ConfigFields ==
  ASSUME NEW c, IsConfig(c), NEW n, NEW d, NEW s, NEW r
  PROVE  [c EXCEPT !.disable = d, !.serviceName = n, !.sampler = s, !.reporter = r]
           = [serviceName |-> n, disable |-> d, sampler |-> s, reporter |-> r,
              throttler |-> c.throttler]
<1> DEFINE Field == {"serviceName", "disable", "sampler", "reporter", "throttler"}
           g == [c EXCEPT !.disable = d, !.serviceName = n, !.sampler = s, !.reporter = r]
           h == [serviceName |-> n, disable |-> d, sampler |-> s, reporter |-> r,
                 throttler |-> c.throttler]
<1>1. DOMAIN c = Field
  BY DEF IsConfig
<1>2. g = [x \in Field |-> g[x]]
  BY <1>1
<1>3. h = [x \in Field |-> h[x]]
  OBVIOUS
<1>4. \A x \in Field : g[x] = h[x]
  <2>1. g.serviceName = n
    BY <1>1
  <2>2. g.disable = d
    BY <1>1
  <2>3. g.sampler = s
    BY <1>1
  <2>4. g.reporter = r
    BY <1>1
  <2>5. g.throttler = c.throttler
    BY <1>1
  <2> HIDE DEF g
  <2> QED BY <2>1, <2>2, <2>3, <2>4, <2>5
<1> HIDE DEF g, h
<1>5. g = h
  BY <1>2, <1>3, <1>4
<1> QED BY <1>5 DEF g, h

LEMMA OptionsFields ==
  ASSUME NEW o, IsOptions(o), NEW t
  PROVE  [o EXCEPT !.tags = t]
           = [metrics |-> o.metrics, logger |-> o.logger, reporter |-> o.reporter,
              throttler |-> o.throttler, tags |-> t]
BY DEF IsOptions

\* The two objects as initTracerFromEnv leaves them.
Disables(e) == \E v \in {"JAEGER_DISABLED", "JAEGER_DISABLE"} : e[v] = Text("true")

LEMMA SettingsFromEnv ==
  ASSUME NEW e, NEW c, NEW o, IsConfig(c), IsOptions(o)
  PROVE  ConfigFromEnv(e, c, o) =
              [serviceName |-> IF Truthy(c.serviceName) THEN c.serviceName
                               ELSE e["JAEGER_SERVICE_NAME"],
               disable |-> c.disable \/ Disables(e),
               sampler |-> Written(e, c.sampler, SamplerSetting),
               reporter |-> IF o.reporter THEN c.reporter
                            ELSE Written(e, c.reporter, ReporterSetting),
               throttler |-> c.throttler]
<1> DEFINE n == IF Truthy(c.serviceName) THEN c.serviceName
                ELSE e["JAEGER_SERVICE_NAME"]
           d == c.disable \/ Disables(e)
           s == Written(e, c.sampler, SamplerSetting)
           r == IF o.reporter THEN c.reporter ELSE Written(e, c.reporter, ReporterSetting)
<1>1. ConfigFromEnv(e, c, o) =
        [c EXCEPT !.disable = d, !.serviceName = n, !.sampler = s, !.reporter = r]
  BY DEF ConfigFromEnv, Disables
<1> HIDE DEF n, d, s, r
<1>2. ConfigFromEnv(e, c, o) =
        [serviceName |-> n, disable |-> d, sampler |-> s, reporter |-> r,
         throttler |-> c.throttler]
  BY <1>1, ConfigFields
<1> QED BY <1>2 DEF n, d, s, r

LEMMA TagsFromEnv ==
  ASSUME NEW e, NEW o, IsOptions(o)
  PROVE  /\ IsOptions(OptionsFromEnv(e, o))
         /\ OptionsFromEnv(e, o).reporter = o.reporter
         /\ OptionsFromEnv(e, o).tags # Unset
         /\ o.tags # Unset => OptionsFromEnv(e, o) = o
<1> DEFINE t == IF o.tags # Unset THEN o.tags
                ELSE [type |-> "tags", of |-> e["JAEGER_TAGS"].of]
<1>1. t # Unset /\ (o.tags # Unset => t = o.tags)
  BY DEF Unset
<1>2. OptionsFromEnv(e, o) = [o EXCEPT !.tags = t]
  BY DEF OptionsFromEnv
<1> HIDE DEF t
<1>3. OptionsFromEnv(e, o) =
        [metrics |-> o.metrics, logger |-> o.logger, reporter |-> o.reporter,
         throttler |-> o.throttler, tags |-> t]
  BY <1>2, OptionsFields
<1> QED BY <1>1, <1>3 DEF IsOptions

\* A second call in the same environment writes nothing new.
LEMMA ReadAgain ==
  ASSUME NEW e, NEW c, NEW o, IsConfig(c), IsOptions(o), ReadableParam(c.sampler)
  PROVE  LET c2 == ConfigFromEnv(e, c, o)
             o2 == OptionsFromEnv(e, o)
         IN  /\ IsConfig(c2) /\ IsOptions(o2) /\ ReadableParam(c2.sampler)
             /\ ConfigFromEnv(e, c2, o2) = c2
             /\ OptionsFromEnv(e, o2) = o2
             /\ o2.tags # Unset
<1> DEFINE c2 == ConfigFromEnv(e, c, o)
           o2 == OptionsFromEnv(e, o)
<1>1. /\ c2.serviceName = IF Truthy(c.serviceName) THEN c.serviceName
                          ELSE e["JAEGER_SERVICE_NAME"]
      /\ c2.disable = (c.disable \/ Disables(e))
      /\ c2.sampler = Written(e, c.sampler, SamplerSetting)
      /\ c2.reporter = IF o.reporter THEN c.reporter
                       ELSE Written(e, c.reporter, ReporterSetting)
      /\ IsConfig(c2)
  BY SettingsFromEnv DEF IsConfig
<1>2. o2.reporter = o.reporter /\ o2.tags # Unset /\ IsOptions(o2)
  BY TagsFromEnv
<1>3. /\ Written(e, c2.sampler, SamplerSetting) = c2.sampler
      /\ Written(e, Written(e, c.reporter, ReporterSetting), ReporterSetting) =
           Written(e, c.reporter, ReporterSetting)
  BY <1>1, WrittenTwice DEF ReporterSetting
<1>4. ReadableParam(c2.sampler)
  BY <1>1, WrittenReadable
<1> HIDE DEF c2, o2
<1>5. ConfigFromEnv(e, c2, o2) =
        [serviceName |-> c2.serviceName, disable |-> c2.disable \/ Disables(e),
         sampler |-> c2.sampler, reporter |-> c2.reporter, throttler |-> c2.throttler]
  BY <1>1, <1>2, <1>3, SettingsFromEnv
<1>6. (c2.disable \/ Disables(e)) = c2.disable
  BY <1>1
<1>7. ConfigFromEnv(e, c2, o2) = c2
  BY <1>1, <1>5, <1>6 DEF IsConfig
<1>8. OptionsFromEnv(e, o2) = o2
  BY <1>2, TagsFromEnv
<1> QED BY <1>1, <1>2, <1>4, <1>7, <1>8 DEF c2, o2

\* A call with objects that it would not change keeps the invariant.
LEMMA CallKeeps ==
  ASSUME NEW from, NEW c, NEW o, Call(from, c, o),
         IsConfig(c), IsOptions(o), ReadableParam(c.sampler),
         from = "env" => ConfigFromEnv(env, c, o) = c /\ OptionsFromEnv(env, o) = o
  PROVE  KeptInv'
<1>1. /\ config' = c /\ env' = env
      /\ options' = [o EXCEPT !.metrics = IF @ = "factory" THEN "replaced" ELSE @]
      /\ last'.from = from /\ last'.env = env /\ last'.failure = Failure(c, o)
      /\ last'.tracer = IF Built(c, o) THEN TracerOf(c, o) ELSE NoTracer
  BY DEF Call
<1>2. IsOptions(options') /\ (options'.metrics # "replaced" => options' = o)
  BY <1>1 DEF IsOptions
<1>3. Kept'
  BY <1>1, <1>2 DEF Kept
<1> QED BY <1>1, <1>2, <1>3 DEF KeptInv

LEMMA StepKeeps ==
  ASSUME KeptInv, [Next]_vars
  PROVE  KeptInv'
<1> USE DEF KeptInv
<1>1. CASE InitTracer
  BY <1>1, CallKeeps DEF InitTracer
<1>2. CASE TagsFail
  <2>1. options' = options /\ last'.failure = "tags"
    BY <1>2 DEF TagsFail
  <2> DEFINE c == ConfigFromEnv(env, config, options)
  <2>2. IsConfig(c)
    BY ReadAgain
  <2>3. config' = [c EXCEPT !.sampler = config.sampler, !.reporter = config.reporter]
    BY <1>2 DEF TagsFail
  <2> HIDE DEF c
  <2>4. IsConfig(config') /\ config'.sampler = config.sampler
    BY <2>2, <2>3 DEF IsConfig
  <2> QED BY <2>1, <2>4 DEF Kept
<1>3. CASE Call("env", ConfigFromEnv(env, config, options), OptionsFromEnv(env, options))
  <2> DEFINE c == ConfigFromEnv(env, config, options)
             o == OptionsFromEnv(env, options)
  <2>1. /\ IsConfig(c) /\ IsOptions(o) /\ ReadableParam(c.sampler)
        /\ ConfigFromEnv(env, c, o) = c /\ OptionsFromEnv(env, o) = o
    BY ReadAgain
  <2>2. Call("env", c, o)
    BY <1>3
  <2> HIDE DEF c, o
  <2> QED BY <2>1, <2>2, CallKeeps
<1>4. ASSUME NEW e \in Environment, EnvChanges(e)
      PROVE  KeptInv'
  BY <1>4 DEF EnvChanges, Kept
<1>5. CASE UNCHANGED configVars
  BY <1>5 DEF configVars, Kept
<1> QED
  BY <1>1, <1>2, <1>3, <1>4, <1>5 DEF Next, MakeTracer, InitTracerFromEnv, vars

\* A call that the objects already answer makes the same tracer.
LEMMA SameTracer ==
  ASSUME KeptInv, [Next]_vars, calls' # calls, last.from = "env",
         last.failure # "tags", options.metrics # "replaced",
         last'.from = "arguments" \/ last.env = env
  PROVE  last'.tracer = last.tracer /\ last'.failure = last.failure
<1>1. /\ last.failure = Failure(config, options)
      /\ last.tracer = IF Built(config, options) THEN TracerOf(config, options)
                       ELSE NoTracer
      /\ ConfigFromEnv(last.env, config, options) = config
      /\ OptionsFromEnv(last.env, options) = options
  BY DEF KeptInv, Kept
<1>2. InitTracer \/ InitTracerFromEnv
  BY DEF Next, MakeTracer, EnvChanges, vars, configVars
<1>3. ASSUME NEW from, Call(from, config, options)
      PROVE  last'.tracer = last.tracer /\ last'.failure = last.failure
  BY <1>1, <1>3 DEF Call
<1>4. CASE InitTracer
  BY <1>3, <1>4 DEF InitTracer
<1>5. CASE InitTracerFromEnv
  <2>1. last'.from = "env" /\ last.env = env
    BY <1>5 DEF InitTracerFromEnv, TagsFail, Call
  <2>2. options.tags # Unset
    BY <1>1, ReadAgain DEF KeptInv
  <2>3. Call("env", config, options)
    BY <1>1, <1>5, <2>1, <2>2 DEF InitTracerFromEnv, TagsFail, TagsThrow
  <2> QED BY <1>3, <2>3
<1> QED BY <1>2, <1>4, <1>5

\* What initTracerFromEnv reads stays in the objects: made of them again, the
\* tracer is the same (configuration_env.js initTracer), for any environments
\* and any objects whose parameter is a number.
THEOREM ReadStays ==
  ASSUME \A c \in Config : ReadableParam(c.sampler)
  PROVE  Spec => ReadIsKept
<1>1. Init => KeptInv
  BY LifecycleAssumption DEF Init, ConfigInit, KeptInv, Kept
<1>2. KeptInv /\ [Next]_vars => KeptInv'
  BY StepKeeps
<1>3. KeptInv /\ [Next]_vars =>
        [calls' # calls /\ last.from = "env" /\ last.failure # "tags"
           /\ options.metrics # "replaced"
           /\ (last'.from = "arguments" \/ last.env = env)
         => last'.tracer = last.tracer /\ last'.failure = last.failure]_configVars
  BY SameTracer
<1> QED BY <1>1, <1>2, <1>3, PTL DEF Spec, ReadIsKept

===============================================================================
