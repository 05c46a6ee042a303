----------------------------- MODULE Configuration -----------------------------
(***************************************************************************)
(* What initTracer (src/configuration.js) and initTracerFromEnv            *)
(* (src/configuration_env.js) make of the two objects that the program     *)
(* gives them and of the environment: a tracer, a no-op tracer, or an      *)
(* exception.                                                              *)
(*                                                                         *)
(* Both functions write into the program's objects, which it may use       *)
(* again, when the environment may have changed. initTracer starts timers  *)
(* and opens sockets in an order; when a later step throws, what an        *)
(* earlier one started runs on, and nothing holds it any more.             *)
(*                                                                         *)
(* Texts of the environment and values of the program are records of a     *)
(* type and a token. Ports, intervals and credentials are left out: they   *)
(* are read just as hosts are. So are the names of headers, and what else  *)
(* in options is for other constructors.                                   *)
(***************************************************************************)
EXTENDS Integers, Sequences

CONSTANT
  OwnReporters          \* the reporter in the program's options, or if it is a
                        \* composite one its children; each has a timer and a
                        \* socket, but for "logging"

VARIABLES
  env,                  \* the environment: the text of each variable
  config, options,      \* the two arguments
  calls,                \* calls of initTracer and initTracerFromEnv so far
  last,                 \* history: the latest call, its environment and outcome
  leaked                \* history: what runs though the call threw, and why

configVars == <<env, config, options, calls, last, leaked>>

-------------------------------------------------------------------------------
(* Values, as JavaScript has them.                                         *)

Unset == [type |-> "undefined", of |-> "-"]
Text(t) == [type |-> "text", of |-> t]
Number(n) == [type |-> "number", of |-> n]
True == [type |-> "boolean", of |-> "true"]
False == [type |-> "boolean", of |-> "false"]

\* The texts that parseFloat makes a number of other than NaN.
Numeral == {"0", "1", "2"}

\* Is the value true in a condition? An empty variable counts as unset.
Truthy(v) ==
  \/ v.type = "text"
  \/ v.type = "number" /\ v.of \notin {"0", "NaN"}
  \/ v = True

\* parseFloat
ParsedFloat(v) == Number(IF v.of \in Numeral THEN v.of ELSE "NaN")

-------------------------------------------------------------------------------
(* ConfigurationEnv                                                        *)

SamplerSetting == {"type", "param", "hostPort", "host"}
ReporterSetting == {"logSpans", "collectorEndpoint", "agentHost"}

\* The variables of each setting; where there are two, the second is
\* deprecated.
Names ==
  [type |-> <<"JAEGER_SAMPLER_TYPE">>,
   param |-> <<"JAEGER_SAMPLER_PARAM">>,
   hostPort |-> <<"JAEGER_SAMPLER_MANAGER_HOST_PORT">>,
   host |-> <<"JAEGER_SAMPLER_HOST">>,
   logSpans |-> <<"JAEGER_REPORTER_LOG_SPANS">>,
   collectorEndpoint |-> <<"JAEGER_ENDPOINT", "JAEGER_REPORTER_ENDPOINT">>,
   agentHost |-> <<"JAEGER_AGENT_HOST", "JAEGER_REPORTER_AGENT_HOST">>]

EnvVar == UNION {{Names[s][i] : i \in DOMAIN Names[s]} : s \in DOMAIN Names}
            \cup {"JAEGER_SERVICE_NAME", "JAEGER_DISABLED", "JAEGER_DISABLE",
                  "JAEGER_TAGS"}

\* A section of config that is not there, and a setting that is not in it.
NoSection == [none |-> Unset]
Given(section, s) == IF s \in DOMAIN section THEN section[s] ELSE Unset

\* The first variable of the setting that is set, in environment e.
FromEnv(e, s) ==
  IF Truthy(e[Names[s][1]]) \/ Len(Names[s]) = 1 THEN e[Names[s][1]]
  ELSE e[Names[s][2]]

\* _getConfigValue
ConfigValue(e, section, s) ==
  IF Truthy(Given(section, s)) THEN Given(section, s) ELSE FromEnv(e, s)

\* Mutant: logSpans is true for the text "true" alone.
Parsed_TrueText(s, v) ==
  CASE s = "param" -> ParsedFloat(v)
    [] s = "logSpans" -> IF v = Text("true") THEN True ELSE False
    [] OTHER -> v

\* What is made of a value that is there: of any text "logSpans" is true.
Parsed(s, v) ==
  CASE s = "param" -> ParsedFloat(v)
    [] s = "logSpans" -> True
    [] OTHER -> v

\* _getSamplerFromEnv and _getReporterFromEnv: settings that are nowhere are
\* not in the new section, and neither are those that are false in a condition.
FromBoth(e, section, Setting) ==
  [s \in {t \in Setting : Truthy(ConfigValue(e, section, t))} |->
     Parsed(s, ConfigValue(e, section, s))]

\* The new section replaces the old one, unless there is nothing in it.
Written(e, section, Setting) ==
  IF DOMAIN FromBoth(e, section, Setting) = {} THEN section
  ELSE FromBoth(e, section, Setting)

\* config as initTracerFromEnv leaves it for initTracer; c and o are the two
\* arguments, e the environment.
ConfigFromEnv(e, c, o) ==
  [c EXCEPT
     !.disable = @ \/ \E v \in {"JAEGER_DISABLED", "JAEGER_DISABLE"} :
                        e[v] = Text("true"),
     !.serviceName = IF Truthy(@) THEN @ ELSE e["JAEGER_SERVICE_NAME"],
     !.sampler = Written(e, @, SamplerSetting),
     !.reporter = IF o.reporter THEN @ ELSE Written(e, @, ReporterSetting)]

\* _parseTagsFromEnv: tags that are there, an empty object included, are kept.
OptionsFromEnv(e, o) ==
  [o EXCEPT !.tags = IF @ # Unset THEN @
                     ELSE [type |-> "tags", of |-> e["JAEGER_TAGS"].of]]

\* An entry of JAEGER_TAGS without "=" throws, before the sections are read.
TagsThrow == options.tags = Unset /\ env["JAEGER_TAGS"] = Text("malformed")

-------------------------------------------------------------------------------
(* Configuration: c and o are the two arguments.                           *)

SamplerType == {"const", "probabilistic", "ratelimiting", "remote"}

\* _getSampler: the sampler by its type, its parameter and, if it polls, the
\* agent it polls. A type that is none of the four gives no sampler.
SamplerOf(c) ==
  LET type == Given(c.sampler, "type").of
      address == {Given(c.sampler, "hostPort"), Given(c.sampler, "host")} \ {Unset}
  IN  IF c.sampler = NoSection
      THEN [type |-> "remote", param |-> "default", agent |-> Unset]
      ELSE [type |-> IF type \in SamplerType THEN type ELSE "none",
            param |-> Given(c.sampler, "param").of,
            agent |-> IF type # "remote" \/ address = {} THEN Unset
                      ELSE IF Truthy(Given(c.sampler, "hostPort"))
                           THEN Given(c.sampler, "hostPort")
                           ELSE Given(c.sampler, "host")]

\* What url.parse does not take: an object, a number, or a text with an
\* authority that cannot be decoded.
Unparsable(v) == v.type # "text" \/ v = Text("malformed")

\* Does it throw? A rate of NaN passes the check of the rate, too. An agent is
\* parsed as a text, whatever its type, and after that the timer is set.
ParamThrows(c) ==
  c.sampler # NoSection /\ Given(c.sampler, "param").type # "number"
RateThrows(c) ==
  /\ SamplerOf(c).type \in {"probabilistic", "remote"}
  /\ SamplerOf(c).param = "2"
AgentThrows(c) ==
  /\ SamplerOf(c).type = "remote"
  /\ Given(c.sampler, "hostPort") = Text("malformed")

\* _getReporter: the remote reporter's sender, and where it sends.
SenderOf(c) ==
  IF Truthy(Given(c.reporter, "collectorEndpoint"))
  THEN [kind |-> "http", to |-> c.reporter.collectorEndpoint]
  ELSE [kind |-> "udp", to |-> Given(c.reporter, "agentHost")]

\* HTTPSender's constructor parses the endpoint.
EndpointThrows(c, o) ==
  ~o.reporter /\ SenderOf(c).kind = "http" /\ Unparsable(SenderOf(c).to)

\* The reporters that the tracer has, one or the children of a composite one.
ReportersOf(c, o) ==
  IF o.reporter THEN OwnReporters
  ELSE {SenderOf(c).kind}
         \cup {r \in {"logging"} : Truthy(Given(c.reporter, "logSpans"))}

\* The timers and sockets of a sampler, a reporter and a throttler, each
\* with the part it belongs to.
PartsOf(r) == IF r = "logging" THEN {} ELSE {<<r, "timer">>, <<r, "socket">>}
SamplerParts(c) == {p \in {<<"sampler", "timer">>} : SamplerOf(c).type = "remote"}
ReporterParts(c, o) == UNION {PartsOf(r) : r \in ReportersOf(c, o)}
ThrottlerParts(c, o) ==
  {p \in {<<"throttler", "timer">>} : o.throttler \/ c.throttler}

\* What initTracer starts itself: not what it is given.
Starts(c, o, part) ==
  CASE part = "sampler" -> SamplerParts(c)
    [] part = "reporter" -> IF o.reporter THEN {} ELSE ReporterParts(c, o)
    [] part = "throttler" -> IF o.throttler THEN {} ELSE ThrottlerParts(c, o)

\* The first reason to throw, or "none". Metrics is called with the metrics
\* of an earlier call, which are no factory, if they were replaced by it; and
\* the log names a sampler that is not there.
Failure(c, o) ==
  CASE o.metrics = "replaced" -> "metrics"
    [] c.disable -> "none"
    [] ~Truthy(c.serviceName) -> "serviceName"
    [] ParamThrows(c) -> "param"
    [] RateThrows(c) -> "rate"
    [] AgentThrows(c) -> "agent"
    [] EndpointThrows(c, o) -> "endpoint"
    [] SamplerOf(c).type = "none" /\ o.logger -> "noSampler"
    [] OTHER -> "none"

\* Mutant: the reporter is made before the sampler.
MakingOrder_ReporterFirst == <<"reporter", "sampler", "throttler">>

\* The order in which initTracer makes the parts.
MakingOrder == <<"sampler", "reporter", "throttler">>

\* The parts that come before a part.
MadeBefore(part) ==
  {MakingOrder[i] : i \in {j \in 1..3 : \A k \in 1..j : MakingOrder[k] # part}}

\* The parts that are made when it throws: in the constructor of a part those
\* before it, and all when it comes to the log.
MadeBy(why) ==
  CASE why \in {"param", "rate", "agent"} -> MadeBefore("sampler")
    [] why = "endpoint" -> MadeBefore("reporter")
    [] why = "noSampler" -> {MakingOrder[i] : i \in 1..3}
    [] OTHER -> {}

\* What runs then, with nobody to stop it.
LeftBehind(c, o, why) == UNION {Starts(c, o, part) : part \in MadeBy(why)}

\* The tracer; without a sampler, one that never samples.
TracerOf(c, o) ==
  [sampler |-> IF SamplerOf(c).type = "none"
               THEN [type |-> "const", param |-> "never", agent |-> Unset]
               ELSE SamplerOf(c),
   reporters |-> ReportersOf(c, o),
   sender |-> IF o.reporter THEN Unset ELSE SenderOf(c),
   parts |-> SamplerParts(c) \cup ReporterParts(c, o) \cup ThrottlerParts(c, o),
   tags |-> o.tags]

NoTracer == [reporters |-> {}]
Built(c, o) == Failure(c, o) = "none" /\ ~c.disable

-------------------------------------------------------------------------------

\* A call with c and o, which config and options hold from then on.
Call(from, c, o) ==
  /\ calls' = calls + 1
  /\ config' = c
  /\ options' = [o EXCEPT !.metrics = IF @ = "factory" THEN "replaced" ELSE @]
  /\ last' = [from |-> from, env |-> env, failure |-> Failure(c, o),
              tracer |-> IF Built(c, o) THEN TracerOf(c, o) ELSE NoTracer]
  /\ leaked' = leaked \cup {<<p, Failure(c, o)>> : p \in LeftBehind(c, o, Failure(c, o))}
  /\ UNCHANGED env

InitTracer == Call("arguments", config, options)

\* A malformed JAEGER_TAGS throws when only these two fields are written.
TagsFail ==
  /\ TagsThrow
  /\ calls' = calls + 1
  /\ config' = [ConfigFromEnv(env, config, options)
                EXCEPT !.sampler = config.sampler, !.reporter = config.reporter]
  /\ last' = [from |-> "env", env |-> env, failure |-> "tags", tracer |-> NoTracer]
  /\ UNCHANGED <<env, options, leaked>>

InitTracerFromEnv ==
  \/ TagsFail
  \/ /\ ~TagsThrow
     /\ Call("env", ConfigFromEnv(env, config, options), OptionsFromEnv(env, options))

\* Another environment, in which the process, or a test, goes on.
EnvChanges(e) ==
  /\ env # e
  /\ env' = e
  /\ UNCHANGED <<config, options, calls, last, leaked>>

\* The first call is still to come.
ConfigInit(Environment, Config, Options) ==
  /\ env \in Environment
  /\ config \in Config
  /\ options \in Options
  /\ calls = 0
  /\ last = [from |-> "nothing", env |-> env, failure |-> "none", tracer |-> NoTracer]
  /\ leaked = {}

-------------------------------------------------------------------------------

\* What initTracerFromEnv reads stays in the objects: initTracer makes the
\* same tracer of them again, whatever the environment is by then, and so does
\* initTracerFromEnv while the environment is as it was. Excepted are malformed
\* tags, which are not kept, and metrics, which a second call refuses; and the
\* sampler's param in config is a number, no text that is read as 0 or NaN
\* (configuration_env.js initTracer, configuration.js initTracer).
ReadIsKept ==
  [][calls' # calls /\ last.from = "env" /\ last.failure # "tags"
       /\ options.metrics # "replaced"
       /\ (last'.from = "arguments" \/ last.env = env)
     => last'.tracer = last.tracer /\ last'.failure = last.failure]_configVars

\* What a call that throws leaves running, with nobody to stop it: the timer of
\* the remote sampler, when the collector's endpoint cannot be parsed; any part,
\* when the sampler is of unknown type and there is a logger; else nothing, and
\* in no other case a reporter or a throttler (configuration.js initTracer).
FailureLeavesLittle ==
  \A l \in leaked :
    \/ l[2] = "noSampler"
    \/ l[2] = "endpoint" /\ l[1] = <<"sampler", "timer">>

\* The settings in config come before the environment, as the README says:
\* "all of them can be overridden via properties on the config object". The
\* code takes 0 and false for settings that are not there.
ConfigOverridesEnv ==
  [][calls' # calls /\ last'.from = "env" /\ last'.failure # "tags" =>
       \A section \in {"sampler", "reporter"} :
         \A s \in DOMAIN config[section] \cap DOMAIN Names :
           Truthy(FromEnv(env, s)) =>
             Given(config'[section], s).of = config[section][s].of]_configVars

===============================================================================
