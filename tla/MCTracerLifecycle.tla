--------------------------- MODULE MCTracerLifecycle ---------------------------
(***************************************************************************)
(* An instance of TracerLifecycle for TLC. The settings of the sampler and *)
(* those of the reporter are varied apart from each other.                 *)
(***************************************************************************)
EXTENDS TracerLifecycle, TLC

CONSTANT s1

EmptyEnv == [v \in EnvVar |-> Unset]

MCEnvironment ==
  LET Set(e) == e @@ ("JAEGER_SERVICE_NAME" :> Text("service")) @@ EmptyEnv
  IN  {Set("JAEGER_TAGS" :> Text("tags")),
       Set("JAEGER_SAMPLER_TYPE" :> Text("const")
             @@ "JAEGER_SAMPLER_PARAM" :> Text("0")),
       Set("JAEGER_SAMPLER_TYPE" :> Text("remote")
             @@ "JAEGER_SAMPLER_PARAM" :> Text("1")
             @@ "JAEGER_SAMPLER_MANAGER_HOST_PORT" :> Text("agent")),
       Set("JAEGER_SAMPLER_TYPE" :> Text("probabilistic")
             @@ "JAEGER_SAMPLER_PARAM" :> Text("junk")),
       Set("JAEGER_SAMPLER_TYPE" :> Text("remote")
             @@ "JAEGER_SAMPLER_PARAM" :> Text("1")
             @@ "JAEGER_SAMPLER_MANAGER_HOST_PORT" :> Text("malformed")),
       Set("JAEGER_ENDPOINT" :> Text("malformed")),
       Set("JAEGER_ENDPOINT" :> Text("collector")
             @@ "JAEGER_REPORTER_LOG_SPANS" :> Text("true")),
       Set("JAEGER_REPORTER_ENDPOINT" :> Text("old collector")
             @@ "JAEGER_AGENT_HOST" :> Text("host")
             @@ "JAEGER_REPORTER_LOG_SPANS" :> Text("false")),
       Set("JAEGER_DISABLE" :> Text("true")),
       Set("JAEGER_TAGS" :> Text("malformed")),
       EmptyEnv}

MCSampler ==
  {NoSection,
   [param |-> Number("0")],
   [type |-> Text("const"), param |-> Number("0")],
   [type |-> Text("const"), param |-> Text("1")],
   [type |-> Text("remote"), param |-> Number("1"), host |-> Text("host")],
   [type |-> Text("remote"), param |-> Number("2")],
   [type |-> Text("unknown"), param |-> Number("1")]}

MCReporter ==
  {NoSection,
   [logSpans |-> False],
   [collectorEndpoint |-> Text("here"), logSpans |-> True],
   [collectorEndpoint |-> Number("1"), logSpans |-> True],
   [agentHost |-> Text("here")]}

MCConfig ==
  [serviceName : {Text("mine")}, disable : {FALSE}, sampler : MCSampler,
   reporter : {NoSection, [logSpans |-> True]}, throttler : BOOLEAN]
  \cup
  [serviceName : {Text("mine")}, disable : {FALSE}, sampler : {NoSection},
   reporter : MCReporter, throttler : {FALSE}]
  \cup
  [serviceName : {Unset}, disable : BOOLEAN, sampler : {NoSection},
   reporter : {NoSection}, throttler : {FALSE}]

MCOptions ==
  [metrics : {"none"}, logger : BOOLEAN, reporter : BOOLEAN, throttler : BOOLEAN,
   tags : {Unset}]
  \cup
  [metrics : {"none", "factory"}, logger : {FALSE}, reporter : {FALSE},
   throttler : {FALSE}, tags : {Unset, [type |-> "tags", of |-> "mine"]}]

===============================================================================
