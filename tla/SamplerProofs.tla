---------------------------- MODULE SamplerProofs -----------------------------
(***************************************************************************)
(* Proofs about the samplers: first ThroughputSampler, then RemoteSampler. *)
(* The two modules share no state; neither is part of the other.           *)
(***************************************************************************)
EXTENDS ThroughputSampler, RemoteSampler, FiniteSetTheorems, TLAPS

-------------------------------------------------------------------------------
(***************************************************************************)
(* Proofs about ThroughputSampler, for any rates and a clock that is set   *)
(* back any number of times.                                               *)
(*                                                                         *)
(* Neither property is inductive: both speak of what the limiter paid or   *)
(* will pay, and say nothing of its balance.  Account is the book-keeping  *)
(* between two changes of the rate, and OnTime says why the next sample    *)
(* will not be late: nothing was paid since the last one but what it cost, *)
(* or the balance has been full in the meantime.                           *)
(***************************************************************************)

\* What was paid, and is left, is at most a full balance and what the rate
\* has brought up to lastTick.
Account ==
  /\ start <= high
  /\ limiter.tick <= high
  /\ CreditUnit * taken + limiter.balance
       <= limiter.max + limiter.rate * (limiter.tick - start)

OnTime ==
  ~behind =>
    \/ limiter.balance + limiter.rate * (since - limiter.tick) >= 0
    \/ limiter.balance + limiter.rate * (high - limiter.tick) >= CreditUnit

ThroughputInv == ThroughputTypeOK /\ Account /\ RateRespected /\ OnTime

\* The maximum is positive, and at least one credit.
LEMMA MaxBalanceType ==
  ASSUME NEW rate \in Nat
  PROVE  MaxBalance(rate) \in Nat \ {0} /\ MaxBalance(rate) >= CreditUnit
<1>1. rate * Second \in Nat
  BY RateLimiterAssumption
<1> QED
  BY <1>1, RateLimiterAssumption DEF MaxBalance

\* A balance in proportion to another maximum stays below it, and does not
\* become negative by that.
LEMMA ScaledBounded ==
  ASSUME NEW b \in Int, NEW from \in Nat \ {0}, NEW to \in Nat \ {0}, b <= from
  PROVE  /\ Scaled(b, from, to) \in Int /\ Scaled(b, from, to) <= to
         /\ b >= 0 => Scaled(b, from, to) >= 0
<1> DEFINE q == (to * b) \div from
           r == (to * b) % from
<1>1. /\ to * b \in Int
      /\ q \in Int /\ r \in 0..(from - 1)
      /\ to * b = from * q + r
  OBVIOUS
<1> HIDE DEF q, r
<1>2. to * b <= to * from
  OBVIOUS
<1>3. from * q <= to * from
  BY <1>1, <1>2
<1>4. q <= to
  BY <1>1, <1>3
<1>5. b >= 0 => q >= 0
  <2> SUFFICES ASSUME b >= 0 PROVE q >= 0
    OBVIOUS
  <2>1. from * q + r >= 0
    BY <1>1
  <2>2. from * q > -from
    BY <1>1, <2>1
  <2> QED
    BY <1>1, <2>2
<1> QED
  BY <1>1, <1>4, <1>5 DEF q, Scaled

\* The balance at clock t, as a number.
LEMMA BalanceAtType ==
  ASSUME NEW l \in Limiter, NEW t \in Nat
  PROVE  /\ BalanceAt(l, t) \in Int
         /\ BalanceAt(l, t) <= l.max
         /\ BalanceAt(l, t) <= l.balance + (t - l.tick) * l.rate
         /\ BalanceAt(l, t) = l.max \/ BalanceAt(l, t) = l.balance + (t - l.tick) * l.rate
<1>1. l.balance \in Int /\ l.max \in Nat /\ l.rate \in Nat /\ l.tick \in Nat
  BY DEF Limiter
<1>2. (t - l.tick) * l.rate \in Int
  BY <1>1
<1> QED
  BY <1>1, <1>2 DEF BalanceAt, Least

\* What the type invariant says of the limiter and the clock readings.
LEMMA Typed ==
  ASSUME ThroughputTypeOK
  PROVE  /\ limiter \in Limiter
         /\ limiter.balance \in Int /\ limiter.max \in Nat \ {0}
         /\ limiter.rate \in Nat /\ limiter.tick \in Nat
         /\ limiter.max >= CreditUnit
         /\ now \in Nat /\ start \in Nat /\ high \in Nat /\ taken \in Nat
         /\ since \in Nat /\ behind \in BOOLEAN
         /\ CreditUnit \in Nat \ {0} /\ Second \in Nat \ {0}
<1>1. limiter \in Limiter /\ limiter.max = MaxBalance(limiter.rate)
  BY DEF ThroughputTypeOK
<1>2. /\ limiter.balance \in Int /\ limiter.max \in Nat \ {0}
      /\ limiter.rate \in Nat /\ limiter.tick \in Nat
  BY <1>1 DEF Limiter
<1> QED
  BY <1>1, <1>2, MaxBalanceType, RateLimiterAssumption DEF ThroughputTypeOK

-------------------------------------------------------------------------------

LEMMA InitEstablishesThroughput == ThroughputInit => ThroughputInv
<1> SUFFICES ASSUME ThroughputInit PROVE ThroughputInv
  OBVIOUS
<1>0. PICK rate \in Rate :
        \E balance \in 0..MaxBalance(rate) : limiter = NewLimiter(rate, balance)
  BY DEF ThroughputInit
<1>1. PICK balance \in 0..MaxBalance(rate) :
        limiter = NewLimiter(rate, balance)
  BY <1>0
<1>2. rate \in Nat /\ MaxBalance(rate) \in Nat \ {0} /\ MaxBalance(rate) >= CreditUnit
  BY ThroughputAssumption, MaxBalanceType
<1>3. /\ limiter.balance = balance /\ limiter.max = MaxBalance(rate)
      /\ limiter.rate = rate /\ limiter.tick = 0
      /\ limiter \in Limiter
  BY <1>1, <1>2 DEF NewLimiter, ThroughputInit, Limiter
<1>4. ThroughputTypeOK
  <2>1. limiter.balance <= limiter.max /\ limiter.max = MaxBalance(limiter.rate)
    BY <1>2, <1>3
  <2> QED
    BY <1>3, <2>1 DEF ThroughputInit, ThroughputTypeOK
<1>5. Account /\ RateRespected /\ OnTime
  BY <1>2, <1>3, RateLimiterAssumption DEF ThroughputInit, Account, RateRespected, OnTime
<1> QED
  BY <1>4, <1>5 DEF ThroughputInv

\* The clock goes either way: nothing else depends on it.
LEMMA ClockKeepsInv ==
  ASSUME ThroughputInv, now' \in Nat,
         UNCHANGED <<guaranteed, probability, limiter, start, high, taken,
                     since, behind>>
  PROVE  ThroughputInv'
BY DEF ThroughputInv, ThroughputTypeOK, Account, RateRespected, OnTime

\* isSampled, when the limiter does not pay.
LEMMA UnpaidKeepsInv ==
  ASSUME ThroughputInv, limiter' = Ticked(limiter, now),
         high' = Later(high, now), since' \in {since, Later(since, now)},
         UNCHANGED <<guaranteed, probability, now, start, taken, behind>>
  PROVE  ThroughputInv'
<1> DEFINE b == BalanceAt(limiter, now)
<1>1. ThroughputTypeOK /\ Account /\ RateRespected /\ OnTime
  BY DEF ThroughputInv
<1>2. /\ limiter \in Limiter
      /\ limiter.balance \in Int /\ limiter.max \in Nat \ {0}
      /\ limiter.rate \in Nat /\ limiter.tick \in Nat
      /\ limiter.max >= CreditUnit
      /\ now \in Nat /\ start \in Nat /\ high \in Nat /\ taken \in Nat
      /\ since \in Nat /\ behind \in BOOLEAN
      /\ CreditUnit \in Nat \ {0}
  BY <1>1, Typed
<1>3. /\ b \in Int
      /\ b <= limiter.max
      /\ b <= limiter.balance + (now - limiter.tick) * limiter.rate
      /\ b = limiter.max \/ b = limiter.balance + (now - limiter.tick) * limiter.rate
  BY <1>2, BalanceAtType
<1>4. /\ limiter'.balance = b /\ limiter'.tick = now
      /\ limiter'.max = limiter.max /\ limiter'.rate = limiter.rate
      /\ limiter' \in Limiter
  BY <1>2, <1>3 DEF Ticked, Limiter
<1> HIDE DEF b
<1>5. /\ high' \in Nat /\ high' >= high /\ high' >= now
      /\ since' \in Nat /\ since' >= since
  BY <1>2 DEF Later
<1>6. ThroughputTypeOK'
  BY <1>1, <1>3, <1>4, <1>5 DEF ThroughputTypeOK
<1>7. Account'
  BY <1>1, <1>2, <1>3, <1>4, <1>5 DEF Account
<1>8. RateRespected'
  <2>1. limiter.rate * (high' - start) >= limiter.rate * (high - start)
    BY <1>2, <1>5
  <2> QED
    BY <1>1, <1>2, <1>4, <1>5, <2>1 DEF RateRespected
<1>9. OnTime'
  <2>1. /\ limiter.rate * (high' - now) >= 0
        /\ limiter.rate * (since' - now) >= limiter.rate * (since - now)
        /\ limiter.rate * (high' - now) >= limiter.rate * (high - now)
    BY <1>2, <1>5
  <2>2. CASE b = limiter.max
    <3>1. limiter'.balance + limiter'.rate * (high' - limiter'.tick) >= CreditUnit
      BY <1>2, <1>3, <1>4, <1>5, <2>1, <2>2
    <3> QED
      BY <3>1 DEF OnTime
  <2>3. CASE b = limiter.balance + (now - limiter.tick) * limiter.rate
    <3>1. /\ b + limiter.rate * (since - now)
               = limiter.balance + limiter.rate * (since - limiter.tick)
          /\ b + limiter.rate * (high - now)
               = limiter.balance + limiter.rate * (high - limiter.tick)
      BY <1>2, <2>3
    <3> QED
      BY <1>1, <1>2, <1>3, <1>4, <1>5, <2>1, <3>1 DEF OnTime
  <2> QED
    BY <1>3, <2>2, <2>3
<1> QED
  BY <1>6, <1>7, <1>8, <1>9 DEF ThroughputInv

\* isSampled, when the limiter pays.
LEMMA PaidKeepsInv ==
  ASSUME ThroughputInv, Affordable(BalanceAt(limiter, now)),
         limiter' = Paid(limiter, now), taken' = taken + 1,
         high' = Later(high, now), since' = Later(since, now),
         UNCHANGED <<guaranteed, probability, now, start, behind>>
  PROVE  ThroughputInv'
<1> DEFINE b == BalanceAt(limiter, now)
<1>1. ThroughputTypeOK /\ Account
  BY DEF ThroughputInv
<1>2. /\ limiter \in Limiter
      /\ limiter.balance \in Int /\ limiter.max \in Nat \ {0}
      /\ limiter.rate \in Nat /\ limiter.tick \in Nat
      /\ now \in Nat /\ start \in Nat /\ high \in Nat /\ taken \in Nat
      /\ since \in Nat /\ behind \in BOOLEAN
      /\ CreditUnit \in Nat \ {0}
  BY <1>1, Typed
<1>3. /\ b \in Int
      /\ b <= limiter.max
      /\ b <= limiter.balance + (now - limiter.tick) * limiter.rate
      /\ b >= CreditUnit
  BY <1>2, BalanceAtType DEF Affordable
<1>4. /\ limiter'.balance = b - CreditUnit /\ limiter'.tick = now
      /\ limiter'.max = limiter.max /\ limiter'.rate = limiter.rate
      /\ limiter' \in Limiter
  <2>1. limiter' = [limiter EXCEPT !.balance = b - CreditUnit, !.tick = now]
    <3>1. Ticked(limiter, now) \in Limiter /\ Ticked(limiter, now).balance = b
      BY <1>2, <1>3 DEF Ticked, Limiter
    <3> QED
      BY <1>2, <1>3, <3>1 DEF Paid, Ticked, Limiter
  <2>2. b - CreditUnit \in Int
    BY <1>2, <1>3
  <2> HIDE DEF b
  <2> QED
    BY <1>2, <2>1, <2>2 DEF Limiter
<1> HIDE DEF b
<1>5. /\ high' \in Nat /\ high' >= high /\ high' >= now
      /\ since' \in Nat /\ since' >= now
  BY <1>2 DEF Later
<1>6. ThroughputTypeOK'
  BY <1>1, <1>2, <1>3, <1>4, <1>5 DEF ThroughputTypeOK
<1>7. Account'
  <2>1. CreditUnit * (taken + 1) + (b - CreditUnit) = CreditUnit * taken + b
    BY <1>2, <1>3
  <2>2. CreditUnit * taken + b
          <= limiter.max + limiter.rate * (limiter.tick - start)
               + (now - limiter.tick) * limiter.rate
    BY <1>1, <1>2, <1>3 DEF Account
  <2> QED
    BY <1>1, <1>2, <1>3, <1>4, <1>5, <2>1, <2>2 DEF Account
<1>8. RateRespected'
  <2>1. limiter.rate * (high' - start) >= limiter.rate * (now - start)
    BY <1>2, <1>5
  <2> QED
    BY <1>2, <1>3, <1>4, <1>5, <1>7, <2>1 DEF Account, RateRespected
<1>9. OnTime'
  <2>1. limiter.rate * (since' - now) >= 0
    BY <1>2, <1>5
  <2> QED
    BY <1>2, <1>3, <1>4, <1>5, <2>1 DEF OnTime
<1> QED
  BY <1>6, <1>7, <1>8, <1>9 DEF ThroughputInv

\* A new rate opens the account anew.
LEMMA ChangeKeepsInv ==
  ASSUME ThroughputInv, NEW rate \in Rate, UpdateLimiter(rate),
         guaranteed' \in BOOLEAN, probability' \in Probability, now' = now
  PROVE  ThroughputInv'
<1> DEFINE to == MaxBalance(rate)
           b == Scaled(BalanceAt(limiter, now), limiter.max, to)
<1>1. ThroughputTypeOK
  BY DEF ThroughputInv
<1>2. /\ limiter \in Limiter /\ limiter.max \in Nat \ {0} /\ now \in Nat
      /\ CreditUnit \in Nat \ {0}
  BY <1>1, Typed
<1>3. rate \in Nat /\ to \in Nat \ {0}
  BY ThroughputAssumption, MaxBalanceType
<1>4. b \in Int /\ b <= to /\ (BalanceAt(limiter, now) >= 0 => b >= 0)
  BY <1>2, <1>3, BalanceAtType, ScaledBounded
<1>5. /\ limiter' = [balance |-> b, max |-> to, rate |-> rate, tick |-> now]
      /\ start' = now /\ high' = now /\ taken' = 0 /\ since' = now
      /\ behind' = (BalanceAt(limiter, now) < 0)
  BY DEF UpdateLimiter, Adjusted
<1> HIDE DEF b
<1>6. /\ limiter'.balance = b /\ limiter'.max = to
      /\ limiter'.rate = rate /\ limiter'.tick = now
      /\ limiter' \in Limiter
  BY <1>2, <1>3, <1>4, <1>5 DEF Limiter
<1>7. ThroughputTypeOK'
  BY <1>2, <1>3, <1>4, <1>5, <1>6 DEF ThroughputTypeOK
<1> HIDE DEF to
<1>8. Account' /\ RateRespected'
  BY <1>2, <1>3, <1>4, <1>5, <1>6 DEF Account, RateRespected
<1>9. OnTime'
  <2> SUFFICES ASSUME ~behind'
               PROVE  limiter'.balance + limiter'.rate * (since' - limiter'.tick) >= 0
    BY DEF OnTime
  <2>0. ~(BalanceAt(limiter, now) < 0)
    BY <1>5, Zenon
  <2>1. b >= 0
    BY <1>2, <1>4, <2>0, BalanceAtType
  <2>2. rate * (now - now) = 0
    BY <1>2, <1>3
  <2> QED
    BY <1>4, <1>5, <1>6, <2>1, <2>2
<1> QED
  BY <1>7, <1>8, <1>9 DEF ThroughputInv

LEMMA NextKeepsThroughput == ThroughputInv /\ [ThroughputNext]_throughputVars => ThroughputInv'
<1> SUFFICES ASSUME ThroughputInv, [ThroughputNext]_throughputVars PROVE ThroughputInv'
  OBVIOUS
<1>1. now \in Nat /\ guaranteed \in BOOLEAN /\ probability \in Probability
  BY DEF ThroughputInv, ThroughputTypeOK
<1>2. CASE Tick
  BY <1>1, <1>2, ClockKeepsInv DEF Tick
<1>3. CASE SetBack
  BY <1>1, <1>3, ClockKeepsInv DEF SetBack
<1>4. CASE IsSampledNow
  <2>1. CASE Affordable(BalanceAt(limiter, now))
    BY <1>4, <2>1, PaidKeepsInv DEF IsSampledNow
  <2>2. CASE ~Affordable(BalanceAt(limiter, now))
    BY <1>4, <2>2, UnpaidKeepsInv DEF IsSampledNow
  <2> QED
    BY <2>1, <2>2
<1>5. CASE Update
  <2>1. PICK p \in Probability :
          \/ UpdateHalfway(p)
          \/ \E rate \in Rate : UpdateGuaranteed(rate, p) \/ UpdateRateLimiting(rate)
    BY <1>5 DEF Update
  <2>2. CASE UpdateHalfway(p)
    BY <1>1, <2>2 DEF UpdateHalfway, ThroughputInv, ThroughputTypeOK, Account, RateRespected, OnTime
  <2>3. ASSUME NEW rate \in Rate, UpdateRateLimiting(rate) PROVE ThroughputInv'
    BY <1>1, <2>3, ChangeKeepsInv DEF UpdateRateLimiting
  <2>4. ASSUME NEW rate \in Rate, UpdateGuaranteed(rate, p) PROVE ThroughputInv'
    <3>1. CASE rate # limiter.rate
      BY <1>1, <2>4, <3>1, ChangeKeepsInv DEF UpdateGuaranteed
    <3>2. CASE rate = limiter.rate
      BY <1>1, <2>4, <3>2 DEF UpdateGuaranteed, ThroughputInv, ThroughputTypeOK, Account,
                              RateRespected, OnTime
    <3> QED
      BY <3>1, <3>2
  <2> QED
    BY <2>1, <2>2, <2>3, <2>4
<1>6. CASE UNCHANGED throughputVars
  BY <1>1, <1>6, ClockKeepsInv DEF throughputVars
<1> QED
  BY <1>2, <1>3, <1>4, <1>5, <1>6 DEF ThroughputNext

\* The next sample is not late.
LEMMA InvGuarantees == ThroughputInv => LowerBoundGuaranteed
<1> SUFFICES ASSUME ThroughputInv, ~behind, now >= high,
                    limiter.rate * (now - since) >= CreditUnit
             PROVE  Affordable(BalanceAt(limiter, now))
  BY DEF LowerBoundGuaranteed
<1>1. ThroughputTypeOK /\ OnTime
  BY DEF ThroughputInv
<1>2. /\ limiter \in Limiter
      /\ limiter.balance \in Int /\ limiter.max \in Nat \ {0}
      /\ limiter.rate \in Nat /\ limiter.tick \in Nat
      /\ limiter.max >= CreditUnit
      /\ now \in Nat /\ high \in Nat /\ since \in Nat /\ CreditUnit \in Nat
  BY <1>1, Typed
<1>3. limiter.balance + (now - limiter.tick) * limiter.rate >= CreditUnit
  <2>1. CASE limiter.balance + limiter.rate * (since - limiter.tick) >= 0
    BY <1>2, <2>1
  <2>2. CASE limiter.balance + limiter.rate * (high - limiter.tick) >= CreditUnit
    <3>1. limiter.rate * (now - high) >= 0
      BY <1>2
    <3> QED
      BY <1>2, <2>2, <3>1
  <2> QED
    BY <1>1, <2>1, <2>2 DEF OnTime
<1>4. BalanceAt(limiter, now) >= CreditUnit
  BY <1>2, <1>3, BalanceAtType
<1> QED
  BY <1>4 DEF Affordable

-------------------------------------------------------------------------------

\* The inductive invariant holds in every behaviour.
THEOREM ThroughputInvariance == ThroughputSpec => []ThroughputInv
BY InitEstablishesThroughput, NextKeepsThroughput, PTL DEF ThroughputSpec

\* The types of the limiter's state; its balance never exceeds its maximum,
\* however often rates change (rate_limiter.js update).
THEOREM ThroughputTypeCorrect == ThroughputSpec => []ThroughputTypeOK
<1>1. ThroughputInv => ThroughputTypeOK
  BY DEF ThroughputInv
<1> QED
  BY <1>1, ThroughputInvariance, PTL

\* The limiter pays no more than a full balance and what the rate brings,
\* whatever the clock does (rate_limiter.js checkCredit).
THEOREM NeverOverspends == ThroughputSpec => []RateRespected
<1>1. ThroughputInv => RateRespected
  BY DEF ThroughputInv
<1> QED
  BY <1>1, ThroughputInvariance, PTL

\* A call is sampled when the time of the lower bound has passed without a
\* sample (guaranteed_throughput_sampler.js isSampled).
THEOREM LowerBound == ThroughputSpec => []LowerBoundGuaranteed
BY InvGuarantees, ThroughputInvariance, PTL

-------------------------------------------------------------------------------
(***************************************************************************)
(* Proofs about RemoteSampler, for any operations and answers of the agent *)
(* and any number of polls at a time.                                      *)
(*                                                                         *)
(* Two answers are never compared but through the sampler that is in       *)
(* force. So the inductive invariant is about its parameters alone: every  *)
(* operation's are complete and in range (SamplerOK), which is what makes  *)
(* an update without new values leave the very same sampler.               *)
(***************************************************************************)

\* Samplers of operations: a finite function, all of it in range.
Samplers == UNION {[ops -> Parameters] : ops \in SUBSET Operation}

Limiters ==
  {l \in [kind : {"rateLimiting"}, max : Nat \cup {NoNumber}, nan : BOOLEAN] :
     l.max = NoNumber => l.nan}

ForAll == {Const} \cup {Probabilistic(rate) : rate \in RateInForce} \cup Limiters

ForOperations ==
  [kind : {"perOperation"}, bound : Int, default : 0..MaxRate, ops : Samplers]

SamplerOK == sampler \in ForAll \cup ForOperations

IInv == TypeOK /\ SamplerOK /\ UseBounded

-------------------------------------------------------------------------------
(* What an update makes of the samplers                                    *)

LEMMA AnswerShape ==
  ASSUME NEW a \in Answer
  PROVE  \/ a.kind = "malformed"
         \/ /\ a.kind = "probabilistic" /\ a = Probabilistic(a.rate)
            /\ a.rate \in Int \cup {NoNumber}
         \/ /\ a.kind = "rateLimiting" /\ a = RateLimiting(a.max)
            /\ a.max \in Int \cup {NoNumber}
         \/ /\ a.kind = "perOperation" /\ a.bound \in Int /\ a.default \in Int
            /\ DOMAIN a.rates \subseteq Operation
            /\ a.rates \in [DOMAIN a.rates -> Int \cup {NoNumber}]
BY RemoteSamplerAssumption DEF Malformed

LEMMA SamplersShape ==
  ASSUME NEW ops
  PROVE  ops \in Samplers <=>
           DOMAIN ops \subseteq Operation /\ ops \in [DOMAIN ops -> Parameters]
BY DEF Samplers

LEMMA NoSamplers == <<>> \in Samplers /\ DOMAIN <<>> = {}
<1>1. DOMAIN <<>> = {} /\ <<>> \in [{} -> Parameters]
  OBVIOUS
<1> QED
  BY <1>1, SamplersShape

LEMMA UpdatedSamplers ==
  ASSUME NEW ops \in Samplers, NEW a \in Answer, a.kind = "perOperation",
         NEW done \in SUBSET (DOMAIN a.rates), done \cap Throwing(a) = {}
  PROVE  /\ Updated(ops, a, done) \in Samplers
         /\ DOMAIN Updated(ops, a, done) = DOMAIN ops \cup done
<1> DEFINE new == Updated(ops, a, done)
<1>1. DOMAIN ops \subseteq Operation /\ \A op \in DOMAIN ops : ops[op] \in Parameters
  BY SamplersShape
<1>2. /\ a.bound \in Int /\ DOMAIN a.rates \subseteq Operation
      /\ \A op \in DOMAIN a.rates : a.rates[op] \in Int \cup {NoNumber}
  BY AnswerShape
<1>3. \A op \in done : a.bound \in Nat /\ a.rates[op] \in RateInForce
  BY <1>2, RemoteSamplerAssumption DEF Throwing, ValidRate, ValidBound, RateInForce
<1>4. \A op \in done : [bound |-> a.bound, rate |-> a.rates[op]] \in Parameters
  BY <1>3 DEF Parameters
<1>5. new \in [DOMAIN ops \cup done -> Parameters]
  BY <1>1, <1>4 DEF Updated
<1>6. DOMAIN ops \cup done \in SUBSET Operation
  BY <1>1, <1>2
<1> QED
  BY <1>5, <1>6, SamplersShape

LEMMA HalfUpdatedSamplers ==
  ASSUME NEW ops \in Samplers, NEW a \in Answer, a.kind = "perOperation",
         NEW op \in DOMAIN a.rates
  PROVE  /\ HalfUpdated(ops, a, op) \in Samplers
         /\ DOMAIN HalfUpdated(ops, a, op) = DOMAIN ops
<1>1. DOMAIN ops \subseteq Operation /\ ops \in [DOMAIN ops -> Parameters]
  BY SamplersShape
<1>2. CASE op \in DOMAIN ops /\ ValidRate(a.rates[op])
  <2>1. HalfUpdated(ops, a, op) = [ops EXCEPT ![op].rate = a.rates[op]]
    BY <1>2 DEF HalfUpdated
  <2>2. a.rates[op] \in RateInForce
    BY <1>2 DEF ValidRate, RateInForce
  <2>3. [ops EXCEPT ![op].rate = a.rates[op]] \in [DOMAIN ops -> Parameters]
    BY <1>1, <1>2, <2>2 DEF Parameters
  <2> QED
    BY <1>1, <2>1, <2>3, SamplersShape
<1>3. CASE ~(op \in DOMAIN ops /\ ValidRate(a.rates[op]))
  BY <1>3 DEF HalfUpdated
<1> QED
  BY <1>2, <1>3

LEMMA CompleteSampler ==
  ASSUME NEW ops \in Samplers, NEW a \in Answer, a.kind = "perOperation", Completes(a)
  PROVE  /\ Complete(ops, a) \in ForOperations
         /\ Complete(ops, a).bound = a.bound /\ Complete(ops, a).default = a.default
         /\ Complete(ops, a).ops = Updated(ops, a, DOMAIN a.rates)
         /\ DOMAIN Complete(ops, a).ops = DOMAIN ops \cup DOMAIN a.rates
<1>1. a.bound \in Int /\ a.default \in 0..MaxRate
  BY AnswerShape, RemoteSamplerAssumption DEF Completes, ValidRate
<1>2. Throwing(a) = {}
  BY DEF Completes
<1>3. /\ Updated(ops, a, DOMAIN a.rates) \in Samplers
      /\ DOMAIN Updated(ops, a, DOMAIN a.rates) = DOMAIN ops \cup DOMAIN a.rates
  BY <1>2, UpdatedSamplers
<1> QED
  BY <1>1, <1>3 DEF Complete, PerOperationSampler, ForOperations

\* Wherever an update stops, it has made samplers and changed some, no more.
LEMMA IncompleteSampler ==
  ASSUME NEW s \in ForOperations, NEW a \in Answer, a.kind = "perOperation",
         NEW new \in Incomplete(s, a)
  PROVE  /\ new \in ForOperations
         /\ new.default = s.default
         /\ DOMAIN s.ops \subseteq DOMAIN new.ops
         /\ DOMAIN new.ops \subseteq DOMAIN s.ops \cup DOMAIN a.rates
<1>1. s.ops \in Samplers /\ a.bound \in Int
  BY AnswerShape DEF ForOperations
<1>2. CASE Throwing(a) = {}
  <2>1. new = [s EXCEPT !.bound = a.bound, !.ops = Updated(s.ops, a, DOMAIN a.rates)]
    BY <1>2 DEF Incomplete
  <2>2. DOMAIN a.rates \in SUBSET (DOMAIN a.rates) /\ DOMAIN a.rates \cap Throwing(a) = {}
    BY <1>2
  <2>3. /\ Updated(s.ops, a, DOMAIN a.rates) \in Samplers
        /\ DOMAIN Updated(s.ops, a, DOMAIN a.rates) = DOMAIN s.ops \cup DOMAIN a.rates
    BY <1>1, <2>2, UpdatedSamplers, Zenon
  <2> QED
    BY <1>1, <2>1, <2>3 DEF ForOperations
<1>3. CASE Throwing(a) # {}
  <2>1. PICK done \in SUBSET (DOMAIN a.rates \ Throwing(a)), op \in Throwing(a) :
          new = StoppedAt(s, a, done, op)
    BY <1>3 DEF Incomplete
  <2>2. done \in SUBSET (DOMAIN a.rates) /\ done \cap Throwing(a) = {} /\ op \in DOMAIN a.rates
    BY DEF Throwing
  <2>3. /\ Updated(s.ops, a, done) \in Samplers
        /\ DOMAIN Updated(s.ops, a, done) = DOMAIN s.ops \cup done
    BY <1>1, <2>2, UpdatedSamplers
  <2>4. /\ HalfUpdated(Updated(s.ops, a, done), a, op) \in Samplers
        /\ DOMAIN HalfUpdated(Updated(s.ops, a, done), a, op) = DOMAIN s.ops \cup done
    BY <2>2, <2>3, HalfUpdatedSamplers
  <2> QED
    BY <1>1, <2>1, <2>2, <2>4 DEF ForOperations, StoppedAt
<1> QED
  BY <1>2, <1>3

\* update() returns whether it changes anything.
LEMMA ChangesTells ==
  ASSUME NEW s \in ForOperations, NEW a \in Answer, a.kind = "perOperation", Completes(a)
  PROVE  Changes(s, a) <=> Complete(s.ops, a) # s
<1> DEFINE new == Complete(s.ops, a)
<1>1. s.ops \in Samplers /\ s.kind = "perOperation"
  BY DEF ForOperations
<1>2. /\ new \in ForOperations /\ new.bound = a.bound /\ new.default = a.default
      /\ new.ops = Updated(s.ops, a, DOMAIN a.rates)
      /\ DOMAIN new.ops = DOMAIN s.ops \cup DOMAIN a.rates
  BY <1>1, CompleteSampler
<1>3. \A op \in DOMAIN a.rates : new.ops[op] = [bound |-> a.bound, rate |-> a.rates[op]]
  BY <1>2 DEF Updated
<1>4. \A op \in DOMAIN s.ops \ DOMAIN a.rates : new.ops[op] = s.ops[op]
  BY <1>2 DEF Updated
<1> HIDE DEF new
<1>5. ASSUME Changes(s, a), new = s
      PROVE  FALSE
  <2>1. NewValues(s.ops, a)
    BY <1>2, <1>5 DEF Changes
  <2>2. PICK op \in DOMAIN a.rates : \/ op \notin DOMAIN s.ops
                                     \/ s.ops[op].rate # a.rates[op]
                                     \/ s.ops[op].bound # a.bound
    BY <2>1 DEF NewValues
  <2>3. s.ops[op] = [bound |-> a.bound, rate |-> a.rates[op]]
    BY <1>3, <1>5
  <2>4. op \in DOMAIN s.ops
    BY <1>2, <1>5
  <2> QED
    BY <2>2, <2>3, <2>4
<1>6. ASSUME ~Changes(s, a)
      PROVE  new = s
  <2>1. /\ s.bound = a.bound /\ s.default = a.default
        /\ \A op \in DOMAIN a.rates : /\ op \in DOMAIN s.ops
                                      /\ s.ops[op].rate = a.rates[op]
                                      /\ s.ops[op].bound = a.bound
    BY <1>6 DEF Changes, NewValues
  <2>2. /\ s.ops \in [DOMAIN s.ops -> Parameters]
        /\ new.ops \in [DOMAIN new.ops -> Parameters]
    BY <1>1, <1>2, SamplersShape DEF ForOperations
  <2>3. DOMAIN new.ops = DOMAIN s.ops
    BY <1>2, <2>1
  <2>4. \A op \in DOMAIN s.ops : s.ops[op] = [bound |-> s.ops[op].bound, rate |-> s.ops[op].rate]
    BY <2>2 DEF Parameters
  <2>5. \A op \in DOMAIN s.ops : new.ops[op] = s.ops[op]
    BY <1>3, <1>4, <2>1, <2>4
  <2>6. new.ops = s.ops
    BY <2>2, <2>3, <2>5
  <2> QED
    BY <1>2, <2>1, <2>6 DEF ForOperations
<1> QED
  BY <1>5, <1>6 DEF new

-------------------------------------------------------------------------------
(* The steps                                                               *)

LEMMA SamplerKinds ==
  ASSUME SamplerOK
  PROVE  /\ ValidSampler(sampler)
         /\ sampler \in ForAll <=> ~IsPerOperation
         /\ sampler \in ForOperations <=> IsPerOperation
         /\ IsPerOperation => sampler.ops \in Samplers
<1>1. CASE sampler \in ForAll
  <2>1. ~IsPerOperation
    BY <1>1 DEF ForAll, Const, Probabilistic, Limiters, IsPerOperation
  <2>2. ValidSampler(sampler)
    <3>1. CASE sampler = Const
      BY <3>1 DEF Const, ValidSampler
    <3>2. ASSUME NEW rate \in RateInForce, sampler = Probabilistic(rate)
          PROVE  ValidSampler(sampler)
      <4>1. sampler.kind = "probabilistic" /\ sampler.rate \in RateInForce
        BY <3>2 DEF Probabilistic
      <4> QED
        BY <4>1 DEF ValidSampler
    <3>3. CASE sampler \in Limiters
      BY <3>3 DEF Limiters, ValidSampler
    <3> QED
      BY <1>1, <3>1, <3>2, <3>3 DEF ForAll
  <2>3. sampler \notin ForOperations
    BY <2>1 DEF ForOperations, IsPerOperation
  <2> QED
    BY <1>1, <2>1, <2>2, <2>3
<1>2. CASE sampler \in ForOperations
  <2>1. IsPerOperation /\ sampler.ops \in Samplers
    BY <1>2 DEF ForOperations, IsPerOperation
  <2>2. DOMAIN sampler.ops \subseteq Operation /\ sampler.ops \in [DOMAIN sampler.ops -> Parameters]
    BY <2>1, SamplersShape
  <2>3. ValidSampler(sampler)
    BY <1>2, <2>2 DEF ForOperations, ValidSampler
  <2>4. sampler \notin ForAll
    BY <2>1 DEF ForAll, Const, Probabilistic, Limiters, IsPerOperation
  <2> QED
    BY <1>2, <2>1, <2>3, <2>4
<1> QED
  BY <1>1, <1>2 DEF SamplerOK

\* Samplers of named operations are not bounded.
LEMMA OnlyNamedAdded ==
  ASSUME UseBounded, SamplerOK, named' \subseteq Operation, SamplerOK',
         named \subseteq named',
         IsPerOperation' =>
           \/ DOMAIN sampler'.ops \subseteq named'
           \/ IsPerOperation /\ DOMAIN sampler'.ops \subseteq DOMAIN sampler.ops \cup named'
  PROVE  UseBounded'
<1> SUFFICES ASSUME IsPerOperation'
             PROVE  Cardinality(DOMAIN sampler'.ops \ named') <= MaxOperations
  BY DEF UseBounded
<1>1. CASE DOMAIN sampler'.ops \subseteq named'
  <2>1. DOMAIN sampler'.ops \ named' = {}
    BY <1>1
  <2> QED
    BY <2>1, FS_EmptySet, RemoteSamplerAssumption
<1>2. CASE /\ IsPerOperation
           /\ DOMAIN sampler'.ops \subseteq DOMAIN sampler.ops \cup named'
  <2>1. DOMAIN sampler'.ops \ named' \subseteq DOMAIN sampler.ops \ named
    BY <1>2
  <2>2. DOMAIN sampler.ops \subseteq Operation
    BY <1>2, SamplerKinds, SamplersShape
  <2>3. IsFiniteSet(DOMAIN sampler.ops \ named)
    BY <2>2, FS_Subset, RemoteSamplerAssumption
  <2>4. /\ IsFiniteSet(DOMAIN sampler'.ops \ named')
        /\ Cardinality(DOMAIN sampler'.ops \ named') <= Cardinality(DOMAIN sampler.ops \ named)
    BY <2>1, <2>3, FS_Subset
  <2>5. /\ Cardinality(DOMAIN sampler'.ops \ named') \in Nat
        /\ Cardinality(DOMAIN sampler.ops \ named) \in Nat
    BY <2>3, <2>4, FS_CardinalityType
  <2>6. Cardinality(DOMAIN sampler.ops \ named) <= MaxOperations
    BY <1>2 DEF UseBounded
  <2> QED
    BY <2>4, <2>5, <2>6, RemoteSamplerAssumption
<1> QED
  BY <1>1, <1>2

LEMMA InitIInv == Init => IInv
<1> SUFFICES ASSUME Init PROVE IInv
  OBVIOUS
<1>1. SamplerOK /\ ~IsPerOperation
  BY RemoteSamplerAssumption
  DEF Init, SamplerOK, ForAll, IsPerOperation, Const, Probabilistic, RateInForce
<1>2. TypeOK
  BY <1>1, SamplerKinds DEF Init, TypeOK
<1> QED
  BY <1>1, <1>2 DEF IInv, UseBounded

\* What an answer does to the sampler in force, and how it is counted.
Reported ==
  /\ "samplerUpdated" \in counted' => sampler' # sampler
  /\ "samplerRetrieved" \in counted' /\ sampler' # sampler =>
       counted' \cap {"samplerUpdated", "samplerUpdateFailure"} # {}

Kept ==
  "samplerUpdateFailure" \in counted' /\ sampler' # sampler =>
    /\ IsPerOperation /\ IsPerOperation'
    /\ sampler'.default = sampler.default
    /\ DOMAIN sampler.ops \subseteq DOMAIN sampler'.ops

Metrics == {"samplerRetrieved", "samplerUpdated", "samplerUpdateFailure",
            "samplerQueryFailure"}

\* A sampler for all operations replaces what is in force.
LEMMA ReplacedByOne ==
  ASSUME IInv, NEW s \in ForAll, NEW updated \in BOOLEAN, PutInForce(s, updated),
         updated <=> sampler # s, named' = named
  PROVE  /\ SamplerOK' /\ UseBounded' /\ named' \subseteq Operation
         /\ counted' \subseteq Metrics /\ Reported /\ Kept
<1>1. /\ sampler' = s
      /\ counted' = {"samplerRetrieved"} \cup (IF updated THEN {"samplerUpdated"} ELSE {})
  BY DEF PutInForce, Retrieved
<1>2. SamplerOK' /\ ~IsPerOperation'
  BY <1>1 DEF SamplerOK, IsPerOperation, ForAll, Const, Probabilistic, Limiters
<1>3. named' \subseteq Operation
  BY DEF IInv, TypeOK
<1> QED
  BY <1>1, <1>2, <1>3 DEF UseBounded, Metrics, Reported, Kept

LEMMA ApplyKeeps ==
  ASSUME IInv, NEW a \in Answer, Apply(a)
  PROVE  /\ SamplerOK' /\ UseBounded' /\ named' \subseteq Operation
         /\ counted' \subseteq Metrics /\ Reported /\ Kept
<1> USE DEF IInv
<1>0. named \subseteq Operation /\ SamplerOK /\ UseBounded
  BY DEF TypeOK
<1>1. ASSUME Fail(sampler), named' = named
      PROVE  /\ SamplerOK' /\ UseBounded' /\ named' \subseteq Operation
             /\ counted' \subseteq Metrics /\ Reported /\ Kept
  BY <1>0, <1>1 DEF Fail, Retrieved, SamplerOK, UseBounded, IsPerOperation, Metrics,
                    Reported, Kept
<1>3. CASE a.kind = "malformed"
  BY <1>1, <1>3 DEF Apply
<1>4. CASE a.kind = "probabilistic"
  <2>1. UpdateRate(a) /\ named' = named
    BY <1>4 DEF Apply
  <2>2. CASE ~ValidRate(a.rate)
    BY <1>1, <2>1, <2>2 DEF UpdateRate
  <2>3. CASE ValidRate(a.rate)
    <3>1. a \in ForAll
      BY <1>4, <2>3, AnswerShape DEF ValidRate, RateInForce, ForAll
    <3>2. PutInForce(a, sampler # a) /\ (sampler # a) \in BOOLEAN
      BY <2>1, <2>3 DEF UpdateRate
    <3> QED
      BY <2>1, <3>1, <3>2, ReplacedByOne
  <2> QED
    BY <2>2, <2>3
<1>5. CASE a.kind = "rateLimiting"
  <2> DEFINE nan == a.max = NoNumber \/ (IsRateLimiting /\ sampler.nan)
             new == RateLimitingSampler(a.max, nan)
             updated == IsRateLimiting => sampler.max # a.max
  <2>1. UpdateLimit(a) /\ named' = named
    BY <1>5 DEF Apply
  <2>2. CASE ~ValidBound(a.max)
    BY <1>1, <2>1, <2>2 DEF UpdateLimit
  <2>3. CASE ValidBound(a.max)
    <3>1. a.max \in Nat \cup {NoNumber}
      BY <1>5, <2>3, AnswerShape DEF ValidBound
    <3>2. IsRateLimiting => sampler \in Limiters
      BY <1>0 DEF SamplerOK, ForAll, ForOperations, Const, Probabilistic, IsRateLimiting
    <3>3. nan \in BOOLEAN
      BY <3>2 DEF Limiters
    <3>4. new \in Limiters /\ new.kind = "rateLimiting" /\ new.max = a.max /\ new.nan = nan
      BY <3>1, <3>3 DEF Limiters, RateLimitingSampler
    <3>5. PutInForce(new, updated)
      BY <2>1, <2>3 DEF UpdateLimit
    <3>6. updated \in BOOLEAN /\ (updated <=> sampler # new)
      <4>1. CASE ~IsRateLimiting
        BY <3>4, <4>1 DEF IsRateLimiting
      <4>2. CASE IsRateLimiting /\ sampler.max # a.max
        BY <3>4, <4>2
      <4>3. CASE IsRateLimiting /\ sampler.max = a.max
        <5>1. sampler.nan <=> new.nan
          BY <3>2, <3>4, <4>3 DEF Limiters
        <5>2. sampler.nan \in BOOLEAN /\ new.nan \in BOOLEAN
          BY <3>2, <3>3, <3>4, <4>3 DEF Limiters
        <5>3. sampler.nan = new.nan
          BY ONLY <5>1, <5>2, Zenon
        <5>4. sampler = new
          BY <3>2, <3>4, <4>3, <5>3 DEF Limiters
        <5> QED
          BY <4>3, <5>4
      <4> QED
        BY <4>1, <4>2, <4>3
    <3>7. new \in ForAll
      BY <3>4 DEF ForAll
    <3> HIDE DEF new, updated
    <3> QED
      BY <2>1, <3>5, <3>6, <3>7, ReplacedByOne
  <2> QED
    BY <2>2, <2>3
<1>6. CASE a.kind = "perOperation"
  <2>1. UpdatePerOperation(a) /\ named' = named \cup DOMAIN a.rates
    BY <1>6 DEF Apply, UpdatePerOperation
  <2>2. named' \subseteq Operation /\ named \subseteq named' /\ DOMAIN a.rates \subseteq named'
    BY <1>0, <1>6, <2>1, AnswerShape
  <2>3. CASE IsPerOperation /\ Completes(a)
    <3>1. sampler \in ForOperations /\ sampler.ops \in Samplers
      BY <1>0, <2>3, SamplerKinds
    <3>2. /\ sampler' = Complete(sampler.ops, a)
          /\ counted' = {"samplerRetrieved"}
                          \cup (IF Changes(sampler, a) THEN {"samplerUpdated"} ELSE {})
      BY <2>1, <2>3 DEF UpdatePerOperation, PutInForce, Retrieved
    <3>3. /\ sampler' \in ForOperations
          /\ DOMAIN sampler'.ops = DOMAIN sampler.ops \cup DOMAIN a.rates
      BY <1>6, <2>3, <3>1, <3>2, CompleteSampler
    <3>4. Changes(sampler, a) <=> sampler' # sampler
      BY <1>6, <2>3, <3>1, <3>2, ChangesTells
    <3>5. SamplerOK'
      BY <3>3 DEF SamplerOK
    <3>6. DOMAIN sampler'.ops \subseteq DOMAIN sampler.ops \cup named'
      BY <2>2, <3>3
    <3>7. UseBounded'
      BY <1>0, <2>2, <2>3, <3>5, <3>6, OnlyNamedAdded
    <3> QED
      BY <2>2, <3>2, <3>4, <3>5, <3>7 DEF Metrics, Reported, Kept
  <2>4. CASE IsPerOperation /\ ~Completes(a)
    <3>1. sampler \in ForOperations
      BY <1>0, <2>4, SamplerKinds
    <3>2. PICK new \in Incomplete(sampler, a) : Fail(new)
      BY <2>1, <2>4 DEF UpdatePerOperation
    <3>3. /\ sampler' = new
          /\ counted' = {"samplerRetrieved", "samplerUpdateFailure"}
      BY <3>2 DEF Fail, Retrieved
    <3>4. /\ sampler' \in ForOperations /\ sampler'.default = sampler.default
          /\ DOMAIN sampler.ops \subseteq DOMAIN sampler'.ops
          /\ DOMAIN sampler'.ops \subseteq DOMAIN sampler.ops \cup DOMAIN a.rates
      BY <1>6, <3>1, <3>2, <3>3, IncompleteSampler
    <3>5. SamplerOK' /\ IsPerOperation'
      BY <3>4 DEF SamplerOK, ForOperations, IsPerOperation
    <3>6. DOMAIN sampler'.ops \subseteq DOMAIN sampler.ops \cup named'
      BY <2>2, <3>4
    <3>7. UseBounded'
      BY <1>0, <2>2, <2>4, <3>5, <3>6, OnlyNamedAdded
    <3> QED
      BY <2>2, <2>4, <3>3, <3>4, <3>5, <3>7 DEF Metrics, Reported, Kept
  <2>5. CASE ~IsPerOperation /\ Completes(a)
    <3>1. /\ sampler' = Complete(<<>>, a)
          /\ counted' = {"samplerRetrieved", "samplerUpdated"}
      BY <2>1, <2>5 DEF UpdatePerOperation, PutInForce, Retrieved
    <3>2. sampler' \in ForOperations /\ DOMAIN sampler'.ops = DOMAIN a.rates
      BY <1>6, <2>5, <3>1, CompleteSampler, NoSamplers
    <3>3. SamplerOK' /\ sampler' # sampler
      BY <1>0, <2>5, <3>2, SamplerKinds DEF SamplerOK
    <3>4. UseBounded'
      BY <1>0, <2>2, <3>2, <3>3, OnlyNamedAdded
    <3> QED
      BY <2>2, <3>1, <3>3, <3>4 DEF Metrics, Reported, Kept
  <2>6. CASE ~IsPerOperation /\ ~Completes(a)
    <3>1. Fail(sampler)
      BY <2>1, <2>6 DEF UpdatePerOperation
    <3>2. /\ sampler' = sampler
          /\ counted' = {"samplerRetrieved", "samplerUpdateFailure"}
      BY <3>1 DEF Fail, Retrieved
    <3>3. SamplerOK' /\ ~IsPerOperation'
      BY <1>0, <2>6, <3>2 DEF SamplerOK, IsPerOperation
    <3> QED
      BY <2>2, <3>2, <3>3 DEF UseBounded, Metrics, Reported, Kept
  <2> QED
    BY <2>3, <2>4, <2>5, <2>6
<1> QED
  BY <1>3, <1>4, <1>5, <1>6, AnswerShape

\* An operation that no answer named gets a sampler only while there is room.
LEMMA IsSampledKeeps ==
  ASSUME IInv, NEW op \in Operation, IsSampled(op)
  PROVE  SamplerOK' /\ UseBounded'
<1> USE DEF IInv
<1>a. CASE ~ValidBound(sampler.bound)
  BY <1>a DEF IsSampled, TypeOK, SamplerOK, UseBounded, IsPerOperation
<1>b. SUFFICES ASSUME ValidBound(sampler.bound)
               PROVE  SamplerOK' /\ UseBounded'
  BY <1>a
<1>1. /\ IsPerOperation /\ op \notin DOMAIN sampler.ops /\ HasRoom /\ named' = named
      /\ sampler.bound >= 0
  <2>1. /\ IsPerOperation /\ op \notin DOMAIN sampler.ops /\ HasRoom /\ named' = named
    BY DEF IsSampled
  <2>2. sampler.bound \in Int
    BY <2>1, SamplerKinds DEF ForOperations
  <2> QED
    BY <1>b, <2>1, <2>2, RemoteSamplerAssumption DEF ValidBound
<1> DEFINE ops == [x \in DOMAIN sampler.ops \cup {op} |-> IF x = op
                     THEN [bound |-> sampler.bound, rate |-> sampler.default]
                     ELSE sampler.ops[x]]
<1>2. sampler' = [sampler EXCEPT !.ops = ops]
  BY <1>b DEF IsSampled
<1>3. sampler \in ForOperations /\ sampler.ops \in Samplers
  BY <1>1, SamplerKinds
<1>4. /\ DOMAIN sampler.ops \subseteq Operation
      /\ \A x \in DOMAIN sampler.ops : sampler.ops[x] \in Parameters
  BY <1>3, SamplersShape
<1>5. [bound |-> sampler.bound, rate |-> sampler.default] \in Parameters
  BY <1>1, <1>3 DEF ForOperations, Parameters, RateInForce
<1>6. DOMAIN ops = DOMAIN sampler.ops \cup {op} /\ ops \in [DOMAIN sampler.ops \cup {op} -> Parameters]
  BY <1>4, <1>5
<1> HIDE DEF ops
<1>7. ops \in Samplers
  <2>1. DOMAIN ops \subseteq Operation /\ ops \in [DOMAIN ops -> Parameters]
    BY <1>4, <1>6
  <2> QED
    BY <2>1, SamplersShape
<1>8. sampler' \in ForOperations /\ sampler'.ops = ops
  BY <1>2, <1>3, <1>7 DEF ForOperations
<1>9. UseBounded'
  <2>1. IsFiniteSet(DOMAIN sampler.ops) /\ IsFiniteSet(DOMAIN sampler.ops \cup {op})
    BY <1>4, FS_Subset, FS_AddElement, RemoteSamplerAssumption
  <2>2. Cardinality(DOMAIN sampler.ops \cup {op}) = Cardinality(DOMAIN sampler.ops) + 1
    BY <1>1, <2>1, FS_AddElement
  <2>3. Cardinality(DOMAIN sampler.ops) \in Nat
    BY <2>1, FS_CardinalityType
  <2>4. Cardinality(DOMAIN sampler.ops \cup {op}) <= MaxOperations
    BY <1>1, <2>2, <2>3, RemoteSamplerAssumption DEF HasRoom
  <2>5. DOMAIN sampler'.ops \ named' \subseteq DOMAIN sampler.ops \cup {op}
    BY <1>6, <1>8
  <2>6. /\ IsFiniteSet(DOMAIN sampler'.ops \ named')
        /\ Cardinality(DOMAIN sampler'.ops \ named') <= Cardinality(DOMAIN sampler.ops \cup {op})
    BY <2>1, <2>5, FS_Subset
  <2>7. Cardinality(DOMAIN sampler'.ops \ named') \in Nat
    BY <2>6, FS_CardinalityType
  <2> QED
    BY <2>2, <2>3, <2>4, <2>6, <2>7, RemoteSamplerAssumption DEF UseBounded
<1> QED
  BY <1>8, <1>9 DEF SamplerOK

LEMMA StepKeeps ==
  ASSUME IInv, Next
  PROVE  IInv' /\ Reported /\ Kept
<1> USE DEF IInv
<1>0. /\ timer \in {"initial", "running", "closed"} /\ agent \in Answer
      /\ polls \in [Slot -> Answer \cup {Idle, Asked}] /\ named \subseteq Operation
  BY DEF TypeOK
\* All but two kinds of steps leave the sampler alone.
<1>1. ASSUME sampler' = sampler, named' = named, counted' \subseteq {"samplerQueryFailure"},
             timer' \in {"initial", "running", "closed"}, agent' \in Answer,
             polls' \in [Slot -> Answer \cup {Idle, Asked}]
      PROVE  IInv' /\ Reported /\ Kept
  <2>1. ValidSampler(sampler')
    BY <1>1, SamplerKinds
  <2>2. SamplerOK' /\ UseBounded'
    BY <1>1 DEF SamplerOK, UseBounded, IsPerOperation
  <2> QED
    BY <1>0, <1>1, <2>1, <2>2 DEF TypeOK, Reported, Kept
<1>2. ASSUME NEW i \in Slot, NEW p \in Answer \cup {Idle, Asked},
             polls' = [polls EXCEPT ![i] = p]
      PROVE  polls' \in [Slot -> Answer \cup {Idle, Asked}]
  BY <1>0, <1>2
<1>3. CASE AfterInitialDelay
  BY <1>0, <1>1, <1>3 DEF AfterInitialDelay
<1>4. CASE Refresh
  BY <1>0, <1>1, <1>2, <1>4 DEF Refresh
<1>5. CASE AgentChanges
  BY <1>0, <1>1, <1>5 DEF AgentChanges
<1>6. ASSUME NEW i \in Slot, AgentAnswers(i)
      PROVE  IInv' /\ Reported /\ Kept
  BY <1>0, <1>1, <1>2, <1>6 DEF AgentAnswers
<1>7. ASSUME NEW i \in Slot, Arrives(i)
      PROVE  IInv' /\ Reported /\ Kept
  <2>1. polls[i] \in Answer /\ Apply(polls[i])
    BY <1>0, <1>7 DEF Arrives
  <2>2. /\ SamplerOK' /\ UseBounded' /\ named' \subseteq Operation
        /\ counted' \subseteq Metrics /\ Reported /\ Kept
    BY <2>1, ApplyKeeps
  <2>3. ValidSampler(sampler)'
    <3>1. SamplerOK' => ValidSampler(sampler)'
      BY SamplerKinds, PTL
    <3> QED
      BY <2>2, <3>1
  <2>4. timer' = timer /\ agent' = agent /\ polls' \in [Slot -> Answer \cup {Idle, Asked}]
    BY <1>0, <1>2, <1>7 DEF Arrives
  <2> QED
    BY <1>0, <2>2, <2>3, <2>4 DEF TypeOK, Metrics
<1>8. ASSUME NEW i \in Slot, PollFails(i)
      PROVE  IInv' /\ Reported /\ Kept
  BY <1>0, <1>1, <1>2, <1>8 DEF PollFails
<1>9. ASSUME NEW op \in Operation, IsSampled(op)
      PROVE  IInv' /\ Reported /\ Kept
  <2>1. SamplerOK' /\ UseBounded'
    BY <1>9, IsSampledKeeps
  <2>2. ValidSampler(sampler)'
    <3>1. SamplerOK' => ValidSampler(sampler)'
      BY SamplerKinds, PTL
    <3> QED
      BY <2>1, <3>1
  <2>3. /\ timer' = timer /\ agent' = agent /\ polls' = polls /\ named' = named
        /\ \/ counted' = {}
           \/ counted' = {"exception"} /\ sampler' = sampler
    BY <1>9 DEF IsSampled
  <2> QED
    BY <1>0, <2>1, <2>2, <2>3 DEF TypeOK, Reported, Kept
<1>10. CASE Close
  BY <1>0, <1>1, <1>10 DEF Close
<1> QED
  BY <1>3, <1>4, <1>5, <1>6, <1>7, <1>8, <1>9, <1>10 DEF Next

LEMMA NextKeeps == IInv /\ [Next]_vars => IInv'
<1>1. IInv /\ UNCHANGED vars => IInv'
  BY DEF IInv, vars, TypeOK, SamplerOK, UseBounded, IsPerOperation
<1> QED
  BY <1>1, StepKeeps

-------------------------------------------------------------------------------

\* The variables keep their types; in particular, wherever an update stops, no
\* sampler in force has a sampling rate or a limit that is a number out of
\* range.  One that is no number may be in force, and so may a negative lower
\* bound for samplers not made yet (update of per_operation_sampler.js and
\* guaranteed_throughput_sampler.js).
THEOREM TypeCorrect == Spec => []TypeOK
<1>1. IInv => TypeOK
  BY DEF IInv
<1> QED
  BY <1>1, InitIInv, NextKeeps, PTL DEF Spec

\* Operations that no answer named never have more samplers than maxOperations
\* (isSampled of per_operation_sampler.js), for any number of operations.
THEOREM BoundedUse == Spec => []UseBounded
<1>1. IInv => UseBounded
  BY DEF IInv
<1> QED
  BY <1>1, InitIInv, NextKeeps, PTL DEF Spec

\* The metrics of an answer tell what it did, for any answers in any order
\* (_updateSampler of remote_sampler.js and what update() returns).
THEOREM TruthfulMetrics == Spec => UpdatesCounted
<1>1. IInv /\ [Next]_vars => [Reported]_vars
  BY StepKeeps
<1> QED
  BY <1>1, InitIInv, NextKeeps, PTL DEF Spec, UpdatesCounted, Reported

\* An answer that fails takes no sampler away, wherever its update stopped
\* (_updateSampler of remote_sampler.js).
THEOREM FailureHarmless == Spec => FailureKeepsSampler
<1>1. IInv /\ [Next]_vars => [Kept]_vars
  BY StepKeeps
<1> QED
  BY <1>1, InitIInv, NextKeeps, PTL DEF Spec, FailureKeepsSampler, Kept

===============================================================================
