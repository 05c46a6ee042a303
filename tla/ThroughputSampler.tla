--------------------------- MODULE ThroughputSampler ---------------------------
(***************************************************************************)
(* A sampler that counts on a rate limiter: RateLimitingSampler            *)
(* (src/samplers/ratelimiting_sampler.js) by itself, or as the lower bound *)
(* of a GuaranteedThroughputSampler (guaranteed_throughput_sampler.js)     *)
(* next to a ProbabilisticSampler (probabilistic_sampler.js).              *)
(*                                                                         *)
(* The program asks whether to sample, answers to the remote sampler's     *)
(* polls change the parameters, and the clock, which is Date.getTime, may  *)
(* be set back.                                                            *)
(***************************************************************************)
EXTENDS RateLimiter

CONSTANTS
  Rate,                 \* lower bounds, in units per tick, that answers bring
  MaxTime,              \* bound of the model: the clock stops there
  MaxDebt               \* bound of the model: the clock is not set back so far
                        \* that the balance is more than this below zero

ASSUME ThroughputAssumption ==
  /\ Rate \subseteq Nat
  /\ Rate # {}
  /\ MaxTime \in Nat
  /\ MaxDebt \in Nat

VARIABLES
  guaranteed,           \* whether there is a probabilistic sampler as well
  probability,          \* its sampling rate: 0, something between, or 1
  limiter,              \* the rate limiter; its rate is maxTracesPerSecond
  now,                  \* the clock
  start,                \* history: the clock when the rate was last changed,
  high,                 \* the latest reading of the clock since then,
  taken,                \* and what the limiter has paid since then
  since,                \* history: its latest reading at a sample or change,
  behind                \* and whether the balance was negative before it

throughputVars ==
  <<guaranteed, probability, limiter, now, start, high, taken, since, behind>>

Probability == {"zero", "between", "one"}

\* _init: the balance may reach a second's worth, and at least one credit.
MaxBalance(rate) ==
  IF rate * Second < CreditUnit THEN CreditUnit ELSE rate * Second

\* The constructor: initBalance, in the tests up to the maximum, or a random
\* part of the maximum.
NewLimiter(rate, balance) ==
  [balance |-> balance, max |-> MaxBalance(rate), rate |-> rate, tick |-> now]

Later(x, y) == IF x >= y THEN x ELSE y

-------------------------------------------------------------------------------

\* The clock goes on, or is set back.
Tick ==
  /\ now < MaxTime
  /\ now' = now + 1
  /\ UNCHANGED <<guaranteed, probability, limiter, start, high, taken, since,
                 behind>>

SetBack ==
  /\ now' \in {t \in 0..(now - 1) : BalanceAt(limiter, t) >= -MaxDebt}
  /\ UNCHANGED <<guaranteed, probability, limiter, start, high, taken, since,
                 behind>>

\* What the probabilistic sampler may decide.
Decisions ==
  IF ~guaranteed THEN {FALSE}
  ELSE CASE probability = "zero" -> {FALSE}
         [] probability = "one" -> {TRUE}
         [] OTHER -> BOOLEAN

\* isSampled: the rate limiter is asked whatever the probabilistic sampler
\* decides, to update its budget.
IsSampledNow ==
  LET pays == Affordable(BalanceAt(limiter, now))
  IN \E decision \in Decisions :
       /\ limiter' = IF pays THEN Paid(limiter, now) ELSE Ticked(limiter, now)
       /\ taken' = IF pays THEN taken + 1 ELSE taken
       /\ high' = Later(high, now)
       /\ since' = IF decision \/ pays THEN Later(since, now) ELSE since
       /\ UNCHANGED <<guaranteed, probability, now, start, behind>>

\* What update() of the rate limiting sampler makes of the limiter.
UpdateLimiter(rate) ==
  LET l == Adjusted(limiter, rate, MaxBalance(rate), now)
  IN /\ limiter' = l
     /\ start' = now
     /\ high' = now
     /\ taken' = 0
     /\ since' = now
     /\ behind' = (BalanceAt(limiter, now) < 0)

\* The remote sampler updates a RateLimitingSampler at every answer.
UpdateRateLimiting(rate) ==
  /\ ~guaranteed
  /\ UpdateLimiter(rate)
  /\ UNCHANGED <<guaranteed, probability, now>>

\* GuaranteedThroughputSampler.update: only a lower bound that differs
\* reaches the limiter.
UpdateGuaranteed(rate, p) ==
  /\ guaranteed
  /\ probability' = p
  /\ IF rate # limiter.rate
     THEN UpdateLimiter(rate)
     ELSE UNCHANGED <<limiter, start, high, taken, since, behind>>
  /\ UNCHANGED <<guaranteed, now>>

\* The same with a lower bound that is negative: the rate limiting sampler
\* throws, when the sampling rate has been changed already.
UpdateHalfway(p) ==
  /\ guaranteed
  /\ probability' = p
  /\ UNCHANGED <<guaranteed, limiter, now, start, high, taken, since, behind>>

Update ==
  \E p \in Probability :
    \/ UpdateHalfway(p)
    \/ \E rate \in Rate : UpdateGuaranteed(rate, p) \/ UpdateRateLimiting(rate)

-------------------------------------------------------------------------------

ThroughputInit ==
  /\ guaranteed \in BOOLEAN
  /\ probability \in Probability
  /\ now = 0
  /\ \E rate \in Rate :
       \E balance \in 0..MaxBalance(rate) : limiter = NewLimiter(rate, balance)
  /\ start = 0
  /\ high = 0
  /\ taken = 0
  /\ since = 0
  /\ behind = FALSE

ThroughputNext == Tick \/ SetBack \/ IsSampledNow \/ Update

ThroughputSpec == ThroughputInit /\ [][ThroughputNext]_throughputVars

-------------------------------------------------------------------------------

ThroughputTypeOK ==
  /\ guaranteed \in BOOLEAN
  /\ probability \in Probability
  /\ limiter \in Limiter
  /\ limiter.max = MaxBalance(limiter.rate)
  /\ limiter.balance <= limiter.max
  /\ now \in Nat
  /\ start \in Nat
  /\ high \in Nat
  /\ taken \in Nat
  /\ since \in Nat
  /\ behind \in BOOLEAN

\* The limiter never pays more than a full balance and what the rate brings
\* while the clock advances: setting the clock back and forth makes no credit
\* (rate_limiter.js _updateBalance, checkCredit).
RateRespected ==
  CreditUnit * taken <= limiter.max + limiter.rate * (high - start)

\* Every operation is sampled at least once in the time that the lower bound
\* defines (guaranteed_throughput_sampler.js, comment of the class): once that
\* time has passed without a sample, the next call is sampled.  A clock that
\* was set back must have caught up first.
LowerBoundGuaranteed ==
  (/\ ~behind
   /\ now >= high
   /\ limiter.rate * (now - since) >= CreditUnit)
    => Affordable(BalanceAt(limiter, now))

===============================================================================
