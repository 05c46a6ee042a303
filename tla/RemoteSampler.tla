----------------------------- MODULE RemoteSampler -----------------------------
(***************************************************************************)
(* src/samplers/remote_sampler.js with the samplers it puts in force, of   *)
(* which per_operation_sampler.js keeps a sampler for each operation.      *)
(*                                                                         *)
(* A timer polls the agent for a strategy.  Polls may overlap, and their   *)
(* answers overtake each other, be malformed, be lost or come after        *)
(* close().  The parameters in force are modelled; what a sampler decides  *)
(* with them is in ThroughputSampler.                                      *)
(*                                                                         *)
(* An answer with a sampling rate out of range or a negative lower bound   *)
(* makes a constructor throw in the middle of an update.  One that is      *)
(* missing is neither below nor above anything and put in force; so is a   *)
(* text that is no number, and null and other texts are read as numbers.   *)
(***************************************************************************)
EXTENDS Integers, FiniteSets

CONSTANTS
  Operation,            \* names of operations
  MaxOperations,        \* option maxOperations
  MaxRate,              \* the sampling rate 1.0 in the fraction rates are in
  NoNumber,             \* a parameter that is missing, or read as NaN
  Answer,               \* what the agent may answer
  MaxOutstanding        \* bound of the model: polls not yet answered

\* The answers: no strategy in it; or parameters for one kind of sampler, or
\* for some operations, each named once, and the defaults of those that have
\* no sampler yet.  Defaults that are no numbers are refused at once, as a
\* malformed answer is.  An entry without probabilisticSampling throws where
\* one with a rate out of range does; an answer without entries to loop over
\* throws where one with no entry and such a default rate does.
Malformed == [kind |-> "malformed"]
Probabilistic(rate) == [kind |-> "probabilistic", rate |-> rate]
RateLimiting(max) == [kind |-> "rateLimiting", max |-> max]
PerOperation(bound, default, rates) ==
  [kind |-> "perOperation", bound |-> bound, default |-> default, rates |-> rates]

ASSUME RemoteSamplerAssumption ==
  /\ IsFiniteSet(Operation)
  /\ MaxOperations \in Nat
  /\ MaxRate \in Nat \ {0}
  /\ MaxOutstanding \in Nat \ {0}
  /\ NoNumber \notin Int
  /\ \A a \in Answer :
       CASE a.kind = "probabilistic" ->
              a = Probabilistic(a.rate) /\ a.rate \in Int \cup {NoNumber}
         [] a.kind = "rateLimiting" ->
              a = RateLimiting(a.max) /\ a.max \in Int \cup {NoNumber}
         [] a.kind = "perOperation" ->
              /\ a = PerOperation(a.bound, a.default, a.rates)
              /\ a.bound \in Int /\ a.default \in Int
              /\ DOMAIN a.rates \subseteq Operation
              /\ a.rates \in [DOMAIN a.rates -> Int \cup {NoNumber}]
         [] OTHER -> a = Malformed

VARIABLES
  timer,                \* initial delay, running interval, or closed
  agent,                \* what the agent answers at the moment
  polls,                \* each poll: idle, asked, or the answer on its way
  sampler,              \* _sampler: kind and parameters
  counted,              \* the metrics that the last step incremented, or the
                        \* exception that isSampled threw
  named                 \* history: operations that answers gave a sampler

vars == <<timer, agent, polls, sampler, counted, named>>

Slot == 1..MaxOutstanding
Idle == [kind |-> "idle"]
Asked == [kind |-> "asked"]

\* Mutant: the constructor of the probabilistic sampler takes any rate.
ValidRate_Any(rate) == TRUE

\* What the constructors take without throwing.
ValidRate(rate) == rate = NoNumber \/ rate \in 0..MaxRate

ValidBound(bound) == bound = NoNumber \/ bound >= 0

\* A PerOperationSampler: _defaultLowerBound, the default sampler's rate and
\* the parameters of _samplersByOperation.
PerOperationSampler(bound, default, ops) ==
  [kind |-> "perOperation", bound |-> bound, default |-> default, ops |-> ops]

\* A RateLimitingSampler: _maxTracesPerSecond, and whether the balance of its
\* limiter is NaN, so that it samples nothing.
RateLimitingSampler(max, nan) == [kind |-> "rateLimiting", max |-> max, nan |-> nan]

\* A sampler of the options, in force before the first answer.
Const == [kind |-> "const"]

IsPerOperation == sampler.kind = "perOperation"
IsRateLimiting == sampler.kind = "rateLimiting"

-------------------------------------------------------------------------------

\* The initial delay is over.  There is no poll before the first interval.
AfterInitialDelay ==
  /\ timer = "initial"
  /\ timer' = "running"
  /\ counted' = {}
  /\ UNCHANGED <<agent, polls, sampler, named>>

\* _refreshSamplingStrategy, on the interval timer.
Refresh ==
  /\ timer = "running"
  /\ \E i \in Slot : /\ polls[i] = Idle
                     /\ polls' = [polls EXCEPT ![i] = Asked]
  /\ counted' = {}
  /\ UNCHANGED <<timer, agent, sampler, named>>

\* The agent answers poll i; the answer is on its way.
AgentAnswers(i) ==
  /\ polls[i] = Asked
  /\ polls' = [polls EXCEPT ![i] = agent]
  /\ counted' = {}
  /\ UNCHANGED <<timer, agent, sampler, named>>

\* The agent is given another strategy.
AgentChanges ==
  /\ agent' \in Answer
  /\ counted' = {}
  /\ UNCHANGED <<timer, polls, sampler, named>>

-------------------------------------------------------------------------------

\* Mutant: samplers that exist are left as they are.
Updated_MadeOnly(ops, a, done) ==
  [op \in DOMAIN ops \cup done |->
     IF op \in DOMAIN ops THEN ops[op] ELSE [bound |-> a.bound, rate |-> a.rates[op]]]

\* The samplers of ops, with those of `done` given the parameters of answer a:
\* made, or updated.
Updated(ops, a, done) ==
  [op \in DOMAIN ops \cup done |->
     IF op \in done THEN [bound |-> a.bound, rate |-> a.rates[op]] ELSE ops[op]]

\* The operations of a for which update() throws, which sampler it finds.
Throwing(a) ==
  {op \in DOMAIN a.rates : ~ValidRate(a.rates[op]) \/ ~ValidBound(a.bound)}

\* PerOperationSampler.update of samplers ops with all of answer a.
Complete(ops, a) ==
  PerOperationSampler(a.bound, a.default, Updated(ops, a, DOMAIN a.rates))

\* The lower bound throws only when the sampling rate of an existing sampler
\* has been changed.
HalfUpdated(ops, a, op) ==
  IF op \in DOMAIN ops /\ ValidRate(a.rates[op])
  THEN [ops EXCEPT ![op].rate = a.rates[op]] ELSE ops

\* Mutant: the samplers are cleared, to be made anew.
Incomplete_Cleared(s, a) ==
  {[s EXCEPT !.bound = a.bound, !.ops = Updated(<<>>, a, done)] :
     done \in SUBSET (DOMAIN a.rates \ Throwing(a))}

\* What update() has done when it throws at operation op, after those of `done`.
StoppedAt(s, a, done, op) ==
  [s EXCEPT !.bound = a.bound, !.ops = HalfUpdated(Updated(s.ops, a, done), a, op)]

\* What update() has done when it throws: at an operation, or at the default
\* rate, after all of them.
Incomplete(s, a) ==
  IF Throwing(a) = {}
  THEN {[s EXCEPT !.bound = a.bound, !.ops = Updated(s.ops, a, DOMAIN a.rates)]}
  ELSE {StoppedAt(s, a, done, op) :
          done \in SUBSET (DOMAIN a.rates \ Throwing(a)), op \in Throwing(a)}

\* Whether update() runs to its end.
Completes(a) == Throwing(a) = {} /\ ValidRate(a.default)

Retrieved(metrics) == counted' = {"samplerRetrieved"} \cup metrics

\* The answer puts s in force; `updated` is what _updateSampler returns.
PutInForce(s, updated) ==
  sampler' = s /\ Retrieved(IF updated THEN {"samplerUpdated"} ELSE {})

\* Nothing can be done with the answer; s is in force.
Fail(s) == sampler' = s /\ Retrieved({"samplerUpdateFailure"})

\* Mutant: a sampler that is made in update() does not count.
NewValues_Existing(ops, a) ==
  \E op \in DOMAIN a.rates \cap DOMAIN ops :
    ops[op] # [bound |-> a.bound, rate |-> a.rates[op]]

\* A sampler is made, or has a parameter that differs.
NewValues(ops, a) ==
  \E op \in DOMAIN a.rates :
    \/ op \notin DOMAIN ops
    \/ ops[op].rate # a.rates[op]
    \/ ops[op].bound # a.bound

\* What PerOperationSampler.update returns.
Changes(s, a) ==
  s.bound # a.bound \/ NewValues(s.ops, a) \/ s.default # a.default

\* _updateSampler with a strategy for operations: the sampler in force is
\* updated, or one is made, which replaces it only when it is complete.
UpdatePerOperation(a) ==
  /\ named' = named \cup DOMAIN a.rates
  /\ IF IsPerOperation
     THEN IF Completes(a)
          THEN PutInForce(Complete(sampler.ops, a), Changes(sampler, a))
          ELSE \E s \in Incomplete(sampler, a) : Fail(s)
     ELSE IF Completes(a)
          THEN PutInForce(Complete(<<>>, a), TRUE)
          ELSE Fail(sampler)

\* _updateSampler with one sampling rate for all: it is in force already, or
\* replaces the sampler in force.
UpdateRate(a) ==
  IF ValidRate(a.rate) THEN PutInForce(a, sampler # a) ELSE Fail(sampler)

\* _updateSampler with one limit for all: the limiter in force is updated, or
\* a new one replaces the sampler.  A balance that is NaN stays NaN.
UpdateLimit(a) ==
  LET nan == a.max = NoNumber \/ (IsRateLimiting /\ sampler.nan)
  IN IF ValidBound(a.max)
     THEN PutInForce(RateLimitingSampler(a.max, nan),
                     IsRateLimiting => sampler.max # a.max)
     ELSE Fail(sampler)

Apply(a) ==
  CASE a.kind = "malformed" -> Fail(sampler) /\ UNCHANGED named
    [] a.kind = "probabilistic" -> UpdateRate(a) /\ UNCHANGED named
    [] a.kind = "rateLimiting" -> UpdateLimit(a) /\ UNCHANGED named
    [] a.kind = "perOperation" -> UpdatePerOperation(a)

\* The answer to poll i has arrived.
Arrives(i) ==
  /\ polls[i] \notin {Idle, Asked}
  /\ Apply(polls[i])
  /\ polls' = [polls EXCEPT ![i] = Idle]
  /\ UNCHANGED <<timer, agent>>

\* The request fails, which is counted, or the connection closes before the
\* end of the answer, which is not.
PollFails(i) ==
  /\ polls[i] # Idle
  /\ polls' = [polls EXCEPT ![i] = Idle]
  /\ counted' \in {{"samplerQueryFailure"}, {}}
  /\ UNCHANGED <<timer, agent, sampler, named>>

\* Mutant: off by one, a full map takes one more.
HasRoom_OneMore == Cardinality(DOMAIN sampler.ops) <= MaxOperations

\* The limit that isSampled checks, and update() does not.
HasRoom == Cardinality(DOMAIN sampler.ops) < MaxOperations

\* isSampled(): an operation without a sampler is given one with the default
\* parameters, if there is room.  A lower bound in force that is negative makes
\* its constructor throw, out of isSampled and of startSpan.
IsSampled(op) ==
  /\ IsPerOperation
  /\ op \notin DOMAIN sampler.ops
  /\ HasRoom
  /\ IF ValidBound(sampler.bound)
     THEN /\ sampler' = [sampler EXCEPT !.ops =
               [x \in DOMAIN @ \cup {op} |-> IF x = op
                  THEN [bound |-> sampler.bound, rate |-> sampler.default] ELSE @[x]]]
          /\ counted' = {}
     ELSE sampler' = sampler /\ counted' = {"exception"}
  /\ UNCHANGED <<timer, agent, polls, named>>

\* close(): timers are cleared, polls are not aborted.
Close ==
  /\ timer' = "closed"
  /\ counted' = {}
  /\ UNCHANGED <<agent, polls, sampler, named>>

-------------------------------------------------------------------------------

Init ==
  /\ timer = "initial"
  /\ agent \in Answer
  /\ polls = [i \in Slot |-> Idle]
  /\ sampler \in {Probabilistic(1), Const}
  /\ counted = {}
  /\ named = {}

Next ==
  \/ AfterInitialDelay
  \/ Refresh
  \/ AgentChanges
  \/ \E i \in Slot : AgentAnswers(i) \/ Arrives(i) \/ PollFails(i)
  \/ \E op \in Operation : IsSampled(op)
  \/ Close

Spec == Init /\ [][Next]_vars

\* The timer runs until close(), polls end, and the agent is not out of reach
\* for ever: it keeps answering, and answers keep arriving.
Fairness ==
  /\ WF_vars(AfterInitialDelay)
  /\ WF_vars(Refresh)
  /\ \A i \in Slot : WF_vars(AgentAnswers(i) \/ Arrives(i) \/ PollFails(i))
  /\ SF_vars(\E i \in Slot : AgentAnswers(i))
  /\ SF_vars(\E i \in Slot : Arrives(i))

FairSpec == Spec /\ Fairness

-------------------------------------------------------------------------------

RateInForce == 0..MaxRate \cup {NoNumber}

Parameters == [bound : Nat, rate : RateInForce]

ValidSampler(s) ==
  CASE s.kind = "const" -> TRUE
    [] s.kind = "probabilistic" -> s.rate \in RateInForce
    [] s.kind = "rateLimiting" ->
         /\ s.max \in Nat \cup {NoNumber}
         /\ s.nan \in BOOLEAN
         /\ s.max = NoNumber => s.nan
    [] s.kind = "perOperation" ->
         /\ s.bound \in Int
         /\ s.default \in 0..MaxRate
         /\ DOMAIN s.ops \subseteq Operation
         /\ \A op \in DOMAIN s.ops : s.ops[op] \in Parameters

\* The types.  In particular no sampler in force has a rate or a limit that is
\* a number out of range, wherever an update stopped: only the lower bound that
\* new samplers would be made with may be negative
\* (per_operation_sampler.js update).
TypeOK ==
  /\ timer \in {"initial", "running", "closed"}
  /\ agent \in Answer
  /\ polls \in [Slot -> Answer \cup {Idle, Asked}]
  /\ ValidSampler(sampler)
  /\ counted \subseteq {"samplerRetrieved", "samplerUpdated",
                       "samplerUpdateFailure", "samplerQueryFailure", "exception"}
  /\ named \subseteq Operation

\* Operations that no answer named have no more samplers than maxOperations,
\* whatever answers add in the meantime (per_operation_sampler.js isSampled).
UseBounded ==
  IsPerOperation => Cardinality(DOMAIN sampler.ops \ named) <= MaxOperations

\* The metrics tell the truth of an answer: it counts as an update when it
\* changed what is in force, and only then, or else as a failed one, which
\* may have changed something (remote_sampler.js, the return values of update).
UpdatesCounted ==
  [][/\ "samplerUpdated" \in counted' => sampler' # sampler
     /\ "samplerRetrieved" \in counted' /\ sampler' # sampler =>
          counted' \cap {"samplerUpdated", "samplerUpdateFailure"} # {}]_vars

\* An answer that fails does not take the sampler in force away, nor the
\* default rate or the sampler of any operation, wherever its update stopped
\* (remote_sampler.js _updateSampler, per_operation_sampler.js update).  It may
\* leave a lower bound in force with which isSampled throws for an operation
\* that has no sampler.
FailureKeepsSampler ==
  [][("samplerUpdateFailure" \in counted' /\ sampler' # sampler) =>
       /\ IsPerOperation /\ IsPerOperation'
       /\ sampler'.default = sampler.default
       /\ DOMAIN sampler.ops \subseteq DOMAIN sampler'.ops]_vars

Valid(a) ==
  CASE a.kind = "malformed" -> FALSE
    [] a.kind = "probabilistic" -> ValidRate(a.rate)
    [] a.kind = "rateLimiting" -> ValidBound(a.max)
    [] a.kind = "perOperation" -> Completes(a)

\* The parameters in force are those of answer a.  Operations that a does not
\* name keep the samplers they have, and a limiter the balance it has.
InForce(a) ==
  CASE a.kind = "probabilistic" -> sampler = a
    [] a.kind = "rateLimiting" -> IsRateLimiting /\ sampler.max = a.max
    [] a.kind = "perOperation" ->
         /\ IsPerOperation
         /\ sampler.bound = a.bound
         /\ sampler.default = a.default
         /\ \A op \in DOMAIN a.rates :
              /\ op \in DOMAIN sampler.ops
              /\ sampler.ops[op] = [bound |-> a.bound, rate |-> a.rates[op]]

\* The agent's strategy is in force in the end, and stays, once the agent does
\* not change it any more, for the operations it names and for those that get
\* a sampler only then: older answers that arrive later, failed polls and, for
\* what the strategy names, updates that stopped half way are made good by the
\* polls that follow.  Nothing is said of an operation that it does not name
\* and that has a sampler: what an earlier answer, or the half of one, made of
\* it may stay for ever.  Nor does it say that a limiter samples, whose balance
\* may be NaN (remote_sampler.js _updateSampler, per_operation_sampler.js
\* update, rate_limiter.js update).
EventuallyInForce ==
  \A a \in Answer : Valid(a) =>
    (<>[](agent = a) => <>[](timer = "closed" \/ InForce(a)))

===============================================================================
