------------------------- MODULE SpanThrottlerProofs --------------------------
(***************************************************************************)
(* Proofs about what gives a span its debug flag and what the flag does to *)
(* it: first RemoteThrottler, which grants the credits, then SpanSampling, *)
(* which lets a throttler answer anything.  They share no state.           *)
(***************************************************************************)
EXTENDS RemoteThrottler, SpanSampling, FiniteSetTheorems, TLAPS

-------------------------------------------------------------------------------
(***************************************************************************)
(* Proofs about RemoteThrottler, for any operations, unit and balances and *)
(* any number of outstanding fetches.  Conservation of credits is          *)
(* inductive with the types; that debug spans stay within the grant        *)
(* follows, but for an operation whose credits are no number: what was     *)
(* allowed to it before must be remembered, which SpoiltWithinGrant and    *)
(* TextHasSpentNothing do.                                                 *)
(***************************************************************************)

\* What was allowed to an operation before its credits became NaN was within
\* the grant, and it cannot spend any more.
SpoiltWithinGrant ==
  \A op \in nan :
    Unit * allowed[op] <= granted[op] + IF op \in Inherited THEN Unit ELSE 0

\* A name on Object.prototype has its free span only when its credits become
\* NaN: not while they are what is inherited, or a text.
TextHasSpentNothing ==
  \A op \in Inherited \ (Accessor \cup nan) : allowed[op] = 0

\* Credits are granted only to a key of _credits.
UnknownHasNothing == \A op \in Operation \ known : granted[op] = 0

ThrottlerInv ==
  /\ ThrottlerTypeOK /\ CreditsConserved
  /\ SpoiltWithinGrant /\ TextHasSpentNothing /\ UnknownHasNothing

LEMMA InitEstablishesThrottler == ThrottlerInit => ThrottlerInv
<1> SUFFICES ASSUME ThrottlerInit PROVE ThrottlerInv
  OBVIOUS
<1> USE DEF ThrottlerInit
<1>1. ThrottlerTypeOK
  BY DEF ThrottlerTypeOK
<1>2. CreditsConserved
  BY ThrottlerAssumption DEF CreditsConserved
<1>3. SpoiltWithinGrant /\ TextHasSpentNothing /\ UnknownHasNothing
  BY ThrottlerAssumption DEF SpoiltWithinGrant, TextHasSpentNothing, UnknownHasNothing
<1> QED
  BY <1>1, <1>2, <1>3 DEF ThrottlerInv

\* Multiplying by the unit: the arithmetic of spending one.
LEMMA OneMoreUnit ==
  ASSUME NEW n \in Nat
  PROVE  Unit * (n + 1) = Unit * n + Unit /\ Unit * n \in Nat /\ Unit \in Nat
<1>1. Unit \in Nat /\ n \in Int
  BY ThrottlerAssumption
<1>2. Unit * (n + 1) = Unit * n + Unit /\ Unit * n \in Nat
  BY <1>1
<1> QED
  BY <1>1, <1>2

\* Spending a credit.
LEMMA SpendKeepsInv ==
  ASSUME ThrottlerInv, NEW op \in Operation, Spend(op)
  PROVE  ThrottlerInv'
<1> USE DEF ThrottlerInv
<1>1. /\ op \in known /\ op \notin nan /\ op \notin Inherited
      /\ credits[op] >= Unit
      /\ credits' = [credits EXCEPT ![op] = @ - Unit]
      /\ allowed' = [allowed EXCEPT ![op] = @ + 1]
      /\ UNCHANGED <<timer, uuid, known, nan, fetches, granted>>
  BY DEF Spend, HasCredit, LeftAfter
<1>2. /\ credits \in [Operation -> Nat] /\ allowed \in [Operation -> Nat]
      /\ granted \in [Operation -> Nat]
  BY DEF ThrottlerTypeOK
<1>3. Unit \in Nat
  BY ThrottlerAssumption
<1>4. ThrottlerTypeOK'
  BY <1>1, <1>2, <1>3 DEF ThrottlerTypeOK
<1>5. CreditsConserved'
  <2> SUFFICES ASSUME NEW x \in Operation \ (nan \cup Inherited)
               PROVE  granted[x] = credits'[x] + Unit * allowed'[x]
    BY <1>1 DEF CreditsConserved
  <2>1. granted[x] = credits[x] + Unit * allowed[x]
    BY DEF CreditsConserved
  <2>2. CASE x = op
    <3>1. credits'[x] = credits[x] - Unit /\ allowed'[x] = allowed[x] + 1
      BY <1>1, <1>2, <2>2
    <3>2. /\ Unit * (allowed[x] + 1) = Unit * allowed[x] + Unit
          /\ Unit * allowed[x] \in Nat
      BY <1>2, OneMoreUnit
    <3>3. credits[x] \in Nat
      BY <1>2
    <3> QED
      BY <1>3, <2>1, <3>1, <3>2, <3>3
  <2>3. CASE x # op
    BY <1>1, <1>2, <2>1, <2>3
  <2> QED
    BY <2>2, <2>3
<1>6. SpoiltWithinGrant'
  BY <1>1, <1>2 DEF SpoiltWithinGrant, ThrottlerTypeOK
<1>7. TextHasSpentNothing' /\ UnknownHasNothing'
  BY <1>1, <1>2, ThrottlerAssumption DEF TextHasSpentNothing, UnknownHasNothing
<1> QED
  BY <1>4, <1>5, <1>6, <1>7

\* The free spans of a name on Object.prototype.
LEMMA SpendInheritedKeepsInv ==
  ASSUME ThrottlerInv, NEW op \in Operation, SpendInherited(op)
  PROVE  ThrottlerInv'
<1> USE DEF ThrottlerInv
<1>1. /\ op \in Inherited \ nan
      /\ known' = known \cup KeptBy(op)
      /\ nan' = nan \cup KeptBy(op)
      /\ allowed' = [allowed EXCEPT ![op] = @ + 1]
      /\ UNCHANGED <<timer, uuid, credits, fetches, granted>>
  BY DEF SpendInherited
<1>2. /\ credits \in [Operation -> Nat] /\ allowed \in [Operation -> Nat]
      /\ granted \in [Operation -> Nat]
  BY DEF ThrottlerTypeOK
<1>3. Unit \in Nat
  BY ThrottlerAssumption
<1>4. KeptBy(op) \subseteq {op} /\ (KeptBy(op) = {} <=> op \in Accessor)
  BY DEF KeptBy
<1>5. ThrottlerTypeOK'
  BY <1>1, <1>2, <1>4 DEF ThrottlerTypeOK, KeptBy
<1>6. CreditsConserved'
  BY <1>1, <1>2, <1>4 DEF CreditsConserved
<1>7. SpoiltWithinGrant'
  <2>1. \A x \in nan : allowed'[x] = allowed[x] /\ granted'[x] = granted[x]
    BY <1>1, <1>2 DEF ThrottlerTypeOK
  <2>2. ASSUME op \notin Accessor
        PROVE  allowed'[op] = 1 /\ granted'[op] \in Nat /\ Unit * allowed'[op] = Unit
    <3>1. allowed'[op] = 1 /\ granted'[op] \in Nat
      BY <1>1, <1>2, <2>2 DEF TextHasSpentNothing
    <3> QED
      BY <1>3, <3>1
  <2> QED
    BY <1>1, <1>3, <1>4, <2>1, <2>2 DEF SpoiltWithinGrant
<1>8. TextHasSpentNothing' /\ UnknownHasNothing'
  BY <1>1, <1>2, <1>4 DEF TextHasSpentNothing, UnknownHasNothing
<1> QED
  BY <1>5, <1>6, <1>7, <1>8

\* An answer of the agent.
LEMMA AnswerKeepsInv ==
  ASSUME ThrottlerInv, NEW i \in Slot, NEW balance \in Balances,
         NEW spoilt \in SUBSET DOMAIN balance, Answer(i, balance, spoilt)
  PROVE  ThrottlerInv'
<1> USE DEF ThrottlerInv
<1> DEFINE entries == DOMAIN balance
<1>1. /\ fetches' = [fetches EXCEPT ![i] = {}]
      /\ known' = known \cup entries
      /\ nan' = nan \cup ((spoilt \cup (entries \ known)) \ Inherited)
      /\ credits' = [op \in Operation |-> IF op \in entries \ (nan' \cup Inherited)
           THEN credits[op] + balance[op] ELSE credits[op]]
      /\ granted' = [op \in Operation |-> IF op \in entries
           THEN granted[op] + balance[op] ELSE granted[op]]
      /\ UNCHANGED <<timer, uuid, allowed>>
  BY DEF Answer, Increment
<1>2. /\ credits \in [Operation -> Nat] /\ allowed \in [Operation -> Nat]
      /\ granted \in [Operation -> Nat]
      /\ known \subseteq Operation \ Accessor /\ nan \subseteq known
      /\ Accessor \subseteq Inherited
  BY ThrottlerAssumption DEF ThrottlerTypeOK
<1>3. /\ entries \subseteq Operation \ Accessor
      /\ \A op \in entries : balance[op] \in Nat
  BY ThrottlerAssumption DEF Balances
<1> HIDE DEF entries
<1>4. ThrottlerTypeOK'
  <2>1. known \subseteq known' /\ known' \subseteq Operation \ Accessor
    BY <1>1, <1>2, <1>3
  <2>2. nan' \subseteq known'
    BY <1>1, <1>2 DEF entries
  <2>3. credits' \in [Operation -> Nat] /\ granted' \in [Operation -> Nat]
    BY <1>1, <1>2, <1>3
  <2>4. fetches' \in [Slot -> SUBSET known']
    BY <1>1, <2>1 DEF ThrottlerTypeOK
  <2> QED
    BY <1>1, <2>1, <2>2, <2>3, <2>4 DEF ThrottlerTypeOK
<1>5. \A x \in Operation : Unit * allowed[x] \in Nat
  BY <1>2, OneMoreUnit
<1>6. CreditsConserved'
  <2> SUFFICES ASSUME NEW x \in Operation, x \notin nan' \cup Inherited
               PROVE  granted'[x] = credits'[x] + Unit * allowed[x]
    BY <1>1 DEF CreditsConserved
  <2>1. granted[x] = credits[x] + Unit * allowed[x]
    BY <1>1 DEF CreditsConserved
  <2>2. CASE x \in entries
    <3>1. granted'[x] = granted[x] + balance[x] /\ credits'[x] = credits[x] + balance[x]
      BY <1>1, <2>2
    <3>2. balance[x] \in Nat /\ credits[x] \in Nat /\ Unit * allowed[x] \in Nat
      BY <1>2, <1>3, <1>5, <2>2
    <3> HIDE DEF ThrottlerInv
    <3> QED
      BY ONLY <2>1, <3>1, <3>2
  <2>3. CASE x \notin entries
    BY <1>1, <2>1, <2>3
  <2> QED
    BY <2>2, <2>3
<1>7. SpoiltWithinGrant'
  <2> SUFFICES ASSUME NEW x \in nan'
               PROVE  Unit * allowed[x] <= granted'[x] + IF x \in Inherited THEN Unit ELSE 0
    BY <1>1 DEF SpoiltWithinGrant
  <2>1. x \in Operation /\ Unit \in Nat
    BY <1>4, ThrottlerAssumption DEF ThrottlerTypeOK
  <2>2. granted'[x] \in Nat /\ granted[x] \in Nat /\ granted'[x] >= granted[x]
    BY <1>1, <1>2, <1>3, <2>1
  <2>3. Unit * allowed[x] <= granted[x] + IF x \in Inherited THEN Unit ELSE 0
    <3>1. CASE x \in nan
      BY <3>1 DEF SpoiltWithinGrant
    <3>2. CASE x \notin nan
      <4>0. x \notin Inherited
        BY <1>1, <3>2
      <4>1. granted[x] = credits[x] + Unit * allowed[x] /\ credits[x] \in Nat
        BY <1>2, <2>1, <3>2, <4>0 DEF CreditsConserved
      <4>2. Unit * allowed[x] \in Nat
        BY <1>5, <2>1
      <4> QED
        BY <2>1, <4>1, <4>2
    <3> QED
      BY <3>1, <3>2
  <2>4. Unit * allowed[x] \in Nat
    BY <1>5, <2>1
  <2> QED
    BY ONLY <2>1, <2>2, <2>3, <2>4
<1>8. TextHasSpentNothing' /\ UnknownHasNothing'
  BY <1>1, <1>2, <1>3 DEF TextHasSpentNothing, UnknownHasNothing
<1> QED
  BY <1>4, <1>6, <1>7, <1>8

\* Steps that change neither credits nor what they are counted against.
LEMMA QuietKeepsInv ==
  ASSUME ThrottlerInv, UNCHANGED <<credits, nan, allowed, granted>>,
         known \subseteq known', ThrottlerTypeOK'
  PROVE  ThrottlerInv'
  BY DEF ThrottlerInv, CreditsConserved, SpoiltWithinGrant, TextHasSpentNothing,
     UnknownHasNothing

LEMMA NextKeepsThrottler == ThrottlerInv /\ [ThrottlerNext]_throttlerVars => ThrottlerInv'
<1> SUFFICES ASSUME ThrottlerInv, [ThrottlerNext]_throttlerVars PROVE ThrottlerInv'
  OBVIOUS
<1>0. ThrottlerTypeOK
  BY DEF ThrottlerInv
<1>1. CASE SetProcess
  <2>1. ThrottlerTypeOK'
    BY <1>0, <1>1 DEF SetProcess, ThrottlerTypeOK
  <2> QED
    BY <1>1, <2>1, QuietKeepsInv DEF SetProcess
<1>2. ASSUME NEW op \in Operation, IsAllowed(op) PROVE ThrottlerInv'
  <2>1. CASE FirstAsked(op)
    <3>1. ThrottlerTypeOK'
      BY <1>0, <2>1, ThrottlerAssumption DEF FirstAsked, ThrottlerTypeOK
    <3> QED
      BY <2>1, <3>1, QuietKeepsInv DEF FirstAsked
  <2>2. CASE Refused(op)
    <3>1. ThrottlerTypeOK'
      BY <1>0, <2>2 DEF Refused, ThrottlerTypeOK, throttlerVars
    <3> QED
      BY <2>2, <3>1, QuietKeepsInv DEF Refused, throttlerVars
  <2> QED
    BY <1>2, <2>1, <2>2, SpendKeepsInv, SpendInheritedKeepsInv DEF IsAllowed
<1>3. ASSUME FetchCredits, UNCHANGED <<uuid, known, credits, nan, allowed, granted>>,
             timer' \in {"initial", "running", "closed"}
      PROVE  ThrottlerInv'
  <2>1. fetches' \in [Slot -> SUBSET known]
    BY <1>0, <1>3 DEF FetchCredits, Asked, ThrottlerTypeOK
  <2>2. ThrottlerTypeOK'
    BY <1>0, <1>3, <2>1 DEF ThrottlerTypeOK
  <2> QED
    BY <1>3, <2>2, QuietKeepsInv
<1>4. CASE AfterInitialDelay
  BY <1>3, <1>4 DEF AfterInitialDelay
<1>5. CASE Refresh
  BY <1>3, <1>5 DEF Refresh
<1>6. ASSUME NEW i \in Slot, FetchEnds(i) PROVE ThrottlerInv'
  <2>1. CASE FetchFailed(i)
    <3>1. ThrottlerTypeOK'
      BY <1>0, <2>1 DEF FetchFailed, ThrottlerTypeOK
    <3> QED
      BY <2>1, <3>1, QuietKeepsInv DEF FetchFailed
  <2> QED
    BY <1>6, <2>1, AnswerKeepsInv DEF FetchEnds
<1>7. CASE Close
  <2>1. ThrottlerTypeOK'
    BY <1>0, <1>7 DEF Close, ThrottlerTypeOK
  <2> QED
    BY <1>7, <2>1, QuietKeepsInv DEF Close
<1>8. CASE UNCHANGED throttlerVars
  <2>1. ThrottlerTypeOK'
    BY <1>0, <1>8 DEF throttlerVars, ThrottlerTypeOK
  <2> QED
    BY <1>8, <2>1, QuietKeepsInv DEF throttlerVars
<1> QED
  BY <1>1, <1>2, <1>4, <1>5, <1>6, <1>7, <1>8 DEF ThrottlerNext

LEMMA InvWithinGrant == ThrottlerInv => DebugWithinGrant
<1> SUFFICES ASSUME ThrottlerInv, NEW op \in Operation \ Accessor
             PROVE  Unit * allowed[op] <= granted[op] + IF op \in Inherited THEN Unit ELSE 0
  BY DEF DebugWithinGrant
<1>1. CASE op \in nan
  BY <1>1 DEF ThrottlerInv, SpoiltWithinGrant
<1>2. CASE op \in Inherited \ nan
  <2>1. allowed[op] = 0 /\ granted[op] \in Nat /\ Unit \in Nat
    BY <1>2, ThrottlerAssumption DEF ThrottlerInv, ThrottlerTypeOK, TextHasSpentNothing
  <2> QED
    BY <1>2, <2>1
<1>3. CASE op \notin nan \cup Inherited
  <2>1. granted[op] = credits[op] + Unit * allowed[op]
    BY <1>3 DEF ThrottlerInv, CreditsConserved
  <2>2. credits[op] \in Nat /\ allowed[op] \in Nat
    BY DEF ThrottlerInv, ThrottlerTypeOK
  <2>3. Unit * allowed[op] \in Nat /\ Unit \in Nat
    BY <2>2, OneMoreUnit
  <2> QED
    BY <1>3, <2>1, <2>2, <2>3
<1> QED
  BY <1>1, <1>2, <1>3

-------------------------------------------------------------------------------

\* The invariant holds in every reachable state of the throttler.
THEOREM ThrottlerInvariance == ThrottlerSpec => []ThrottlerInv
  BY InitEstablishesThrottler, NextKeepsThrottler, PTL DEF ThrottlerSpec

\* What the agent granted to an operation is spent or left, for any overlap of
\* fetches and decisions, while its credits are a number
\* (remote_throttler.js).
THEOREM Conservation == ThrottlerSpec => []CreditsConserved
  BY ThrottlerInvariance, PTL DEF ThrottlerInv

\* Debug spans stay within the credits granted, but for one free span of a
\* name on Object.prototype; of '__proto__', which gets any number of them,
\* nothing is said (remote_throttler.js isAllowed).
THEOREM WithinGrant == ThrottlerSpec => []DebugWithinGrant
  BY ThrottlerInvariance, InvWithinGrant, PTL

\* Credits never become negative and only known operations are asked for.
THEOREM ThrottlerTypeCorrect == ThrottlerSpec => []ThrottlerTypeOK
  BY ThrottlerInvariance, PTL DEF ThrottlerInv

-------------------------------------------------------------------------------
(***************************************************************************)
(* Proofs about SpanSampling.                                              *)
(*                                                                         *)
(* The properties are not inductive: that a parent and its child agree     *)
(* says nothing of what setOperationName may still do to them.  IInv adds  *)
(* what makes them last: both are finalized, what was injected is          *)
(* finalized, a span that lost a tag is finalized unsampled or was forced, *)
(* one that was reported is finalized and sampled or was forced, and a     *)
(* span that took a credit is in debug.                                    *)
(*                                                                         *)
(* The argument: every call but _setSamplingPriority keeps the flags of a  *)
(* finalized context (FinalKept), and that call is recorded in the         *)
(* histories when it changes them.                                         *)
(***************************************************************************)

\* What is not started has not been reported and has taken no credit.
UnstartedInv == \A s \in Span : ~Started(s) => reports[s] = 0 /\ spent[s] = 0

LinkedInv ==
  \A l \in linked :
    /\ Started(l[1]) /\ Started(l[2])
    /\ Context(l[1]).final /\ Context(l[2]).final
    /\ Context(l[1]).sampled = Context(l[2]).sampled
    /\ Context(l[1]).debug = Context(l[2]).debug

SentInv ==
  \A x \in sent :
    /\ Started(x[1])
    /\ Context(x[1]).final
    /\ Context(x[1]).sampled = x[2]
    /\ Context(x[1]).debug = x[3]

RefusedInv ==
  \A s \in refused :
    /\ Started(s)
    /\ s \notin forced =>
         Context(s).final /\ ~Context(s).sampled /\ reports[s] = 0

ReportedInv ==
  \A s \in Span : reports[s] > 0 =>
    /\ Started(s)
    /\ s \notin forced => Context(s).final /\ Context(s).sampled

CreditInv ==
  \A s \in Span : /\ spent[s] <= 1
                  /\ spent[s] = 1 => Context(s).debug

IInv ==
  /\ TypeOK /\ UnstartedInv /\ LinkedInv /\ SentInv
  /\ RefusedInv /\ ReportedInv /\ CreditInv

\* The step keeps what the current context of x says, and its finalization.
Keeps(x) ==
  /\ Started(x)'
  /\ Context(x)'.sampled = Context(x).sampled
  /\ Context(x)'.debug = Context(x).debug
  /\ Context(x).final => Context(x)'.final

\* What _startInternalSpan does to the state: s begins with flags g, every
\* other span keeps what it says.
StartResult(s, g) ==
  /\ ~Started(s) /\ Started(s)'
  /\ Context(s)' = g
  /\ \A x \in Span \ {s} : /\ Started(x)' <=> Started(x)
                           /\ Started(x) => Keeps(x)
  /\ current' \in [Span -> 0..MaxContexts]
  /\ flags' \in [Span -> [Version -> Flags]]
  /\ metric' \in [Metric -> Nat]
  /\ refused' \subseteq Span
  /\ forced' \subseteq Span
  /\ spent' \in [Span -> Nat]
  /\ UNCHANGED <<reports, sent>>
  /\ UnstartedInv' /\ SentInv' /\ RefusedInv' /\ ReportedInv' /\ CreditInv'

\* The step keeps the finalized contexts of all spans but those in F.
FinalKept(F) ==
  \A x \in Span \ F : Started(x) /\ Context(x).final => Keeps(x)

-------------------------------------------------------------------------------

\* The flags of a started span are flags, and those a call makes of flags.
LEMMA FlagsTyped ==
  ASSUME TypeOK, NEW s \in Span, Started(s)
  PROVE  Context(s) \in Flags /\ current[s] \in Version
  BY SamplingAssumption DEF TypeOK, Context, Started, Version

LEMMA FinalizedTyped ==
  ASSUME NEW f \in Flags
  PROVE  /\ Finalized(f) \in Flags /\ Finalized(f).final
         /\ Finalized(f).sampled = f.sampled /\ Finalized(f).debug = f.debug
  BY DEF Flags, Finalized

LEMMA PriorityTyped ==
  ASSUME NEW f \in Flags, NEW priority \in Priority, NEW grant \in BOOLEAN
  PROVE  /\ WithPriority(f, priority, grant) \in Flags
         /\ f.debug => WithPriority(f, priority, grant).debug
         /\ Spends(f, priority, grant) => WithPriority(f, priority, grant).debug
         /\ Spends(f, priority, grant) => ~f.debug
         /\ f.final => WithPriority(f, priority, grant).final
         /\ priority # "absent" => WithPriority(f, priority, grant).final
  BY DEF Flags, Priority, WithPriority, Finalized, Spends

LEMMA CountedTyped ==
  ASSUME metric \in [Metric -> Nat], NEW names, Counted(names)
  PROVE  metric' \in [Metric -> Nat]
  BY DEF Counted

\* What _startInternalSpan does to the state, wherever s begins.
LEMMA StartInternalStep ==
  ASSUME IInv, NEW s \in Span, NEW f \in Flags,
         NEW others \in [Span -> [Version -> Flags]],
         NEW hadParent \in BOOLEAN, NEW rpcServer \in BOOLEAN,
         NEW priority \in Priority, NEW grant \in BOOLEAN,
         NEW taken \in {0, 1}, taken = 1 => f.debug,
         \A x \in Span : \A v \in Version :
           /\ others[x][v].sampled = flags[x][v].sampled
           /\ others[x][v].debug = flags[x][v].debug
           /\ flags[x][v].final => others[x][v].final,
         StartInternal(s, f, others, hadParent, rpcServer, priority, grant, taken)
  PROVE  StartResult(s, WithPriority(f, priority, grant))
<1> DEFINE g == WithPriority(f, priority, grant)
<1> USE SamplingAssumption
<1>1. /\ g \in Flags
      /\ f.debug => g.debug
      /\ Spends(f, priority, grant) => g.debug /\ ~f.debug
  BY PriorityTyped
<1>2. /\ ~Started(s)
      /\ current' = [current EXCEPT ![s] = 1]
      /\ flags' = [others EXCEPT ![s][1] = g]
      /\ refused' = IF Writeable(g) THEN refused ELSE refused \cup {s}
      /\ forced' = IF Forces(f, g) THEN forced \cup {s} ELSE forced
      /\ spent' = [spent EXCEPT ![s] =
                     taken + IF Spends(f, priority, grant) THEN 1 ELSE 0]
      /\ UNCHANGED <<reports, sent>>
  BY DEF StartInternal
<1>3. TypeOK
  BY DEF IInv
<1>4. 1 \in Version /\ current[s] = 0
  BY <1>2, <1>3 DEF Version, Started, TypeOK
<1>5. current' \in [Span -> 0..MaxContexts]
  BY <1>2, <1>3 DEF TypeOK
<1>6. flags' \in [Span -> [Version -> Flags]]
  BY <1>1, <1>2, <1>4
<1>7. Started(s)' /\ Context(s)' = g
  BY <1>2, <1>3, <1>4 DEF Started, Context, TypeOK
<1>8. \A x \in Span \ {s} : /\ Started(x)' <=> Started(x)
                            /\ Started(x) => Keeps(x)
  <2> TAKE x \in Span \ {s}
  <2>1. current'[x] = current[x] /\ flags'[x] = others[x]
    BY <1>2, <1>3 DEF TypeOK
  <2>2. ASSUME Started(x) PROVE Keeps(x)
    <3>1. current[x] \in Version
      BY <2>2, <1>3, FlagsTyped
    <3> QED BY <2>1, <2>2, <3>1 DEF Keeps, Started, Context
  <2> QED BY <2>1, <2>2 DEF Started
<1>10. metric' \in [Metric -> Nat]
  BY <1>3, CountedTyped DEF StartInternal, TypeOK
<1>11. refused' \subseteq Span /\ forced' \subseteq Span
  BY <1>2, <1>3 DEF TypeOK
<1>12. spent' \in [Span -> Nat]
  BY <1>2, <1>3 DEF TypeOK
<1>13. UnstartedInv'
  BY <1>2, <1>3, <1>7, <1>8 DEF UnstartedInv, IInv, TypeOK
<1>14. SentInv'
  <2> SUFFICES ASSUME NEW x \in sent
      PROVE  /\ Started(x[1])' /\ Context(x[1])'.final
             /\ Context(x[1])'.sampled = x[2] /\ Context(x[1])'.debug = x[3]
    BY <1>2 DEF SentInv
  <2>1. x[1] \in Span /\ Started(x[1]) /\ x[1] # s
    BY <1>2, <1>3 DEF IInv, SentInv, TypeOK
  <2> QED BY <2>1, <1>8 DEF Keeps, IInv, SentInv
<1>15. RefusedInv'
  <2> SUFFICES ASSUME NEW x \in refused'
      PROVE  /\ Started(x)'
             /\ x \notin forced' =>
                  Context(x)'.final /\ ~Context(x)'.sampled /\ reports'[x] = 0
    BY DEF RefusedInv
  <2>1. CASE x = s
    <3>1. ~Writeable(g)
      <4>1. s \notin refused
        BY <1>2 DEF IInv, RefusedInv
      <4> QED BY <2>1, <4>1, <1>2
    <3>2. reports'[s] = 0
      BY <1>2 DEF IInv, UnstartedInv
    <3> QED BY <2>1, <3>1, <3>2, <1>1, <1>7 DEF Writeable, Flags
  <2>2. CASE x # s
    <3>1. x \in refused /\ x \in Span \ {s}
      BY <2>2, <1>2, <1>3 DEF TypeOK
    <3>2. Started(x) /\ Keeps(x)
      BY <3>1, <1>8 DEF IInv, RefusedInv
    <3> QED BY <3>1, <3>2, <1>2, <2>2 DEF Keeps, IInv, RefusedInv
  <2> QED BY <2>1, <2>2
<1>16. CreditInv'
  <2> SUFFICES ASSUME NEW x \in Span
      PROVE  spent'[x] <= 1 /\ (spent'[x] = 1 => Context(x)'.debug)
    BY DEF CreditInv
  <2>1. CASE x = s
    BY <2>1, <1>1, <1>2, <1>3, <1>7 DEF TypeOK
  <2>2. CASE x # s
    <3>1. spent'[x] = spent[x]
      BY <2>2, <1>2, <1>3 DEF TypeOK
    <3>2. CASE Started(x)
      BY <3>1, <3>2, <2>2, <1>8 DEF Keeps, IInv, CreditInv
    <3>3. CASE ~Started(x)
      BY <3>1, <3>3 DEF IInv, UnstartedInv
    <3> QED BY <3>2, <3>3
  <2> QED BY <2>1, <2>2
<1>17. ReportedInv'
  <2> SUFFICES ASSUME NEW x \in Span, reports'[x] > 0
      PROVE  /\ Started(x)'
             /\ x \notin forced' => Context(x)'.final /\ Context(x)'.sampled
    BY DEF ReportedInv
  <2>1. reports[x] > 0 /\ x # s
    BY <1>2, <1>3 DEF IInv, UnstartedInv, TypeOK
  <2>2. Started(x) /\ Keeps(x)
    BY <2>1, <1>8 DEF IInv, ReportedInv
  <2> QED BY <2>1, <2>2, <1>2 DEF Keeps, IInv, ReportedInv
<1> QED
  BY <1>1, <1>2, <1>5, <1>6, <1>7, <1>8, <1>10, <1>11, <1>12, <1>13,
     <1>14, <1>15, <1>16, <1>17 DEF StartResult

-------------------------------------------------------------------------------

\* Links survive a start: the spans they join keep what they say.
LEMMA LinksKept ==
  ASSUME IInv, NEW s \in Span, ~Started(s),
         \A x \in Span \ {s} : Started(x) => Keeps(x),
         NEW l \in linked
  PROVE  /\ Started(l[1])' /\ Started(l[2])'
         /\ Context(l[1])'.final /\ Context(l[2])'.final
         /\ Context(l[1])'.sampled = Context(l[2])'.sampled
         /\ Context(l[1])'.debug = Context(l[2])'.debug
<1>1. l[1] \in Span \ {s} /\ l[2] \in Span \ {s}
  BY DEF IInv, TypeOK, LinkedInv
<1> QED BY <1>1 DEF Keeps, IInv, LinkedInv

LEMMA StartRootKeepsInv ==
  ASSUME IInv, NEW s \in Span, NEW orphan \in Orphan,
         NEW sampled \in BOOLEAN, NEW byId \in BOOLEAN,
         NEW rpcServer \in BOOLEAN, NEW priority \in Priority,
         NEW grant \in BOOLEAN,
         StartRoot(s, orphan, sampled, byId, rpcServer, priority, grant)
  PROVE  IInv'
<1> DEFINE debug == orphan = "debugId" /\ byId
           f == [sampled |-> sampled \/ debug, debug |-> debug, final |-> FALSE]
           taken == IF debug THEN 1 ELSE 0
<1>1. /\ StartInternal(s, f, flags, HadParent(orphan), rpcServer, priority,
                       grant, taken)
      /\ roots' = roots \cup {<<s, orphan>>}
      /\ UNCHANGED linked
  BY DEF StartRoot
<1>2. f \in Flags /\ taken \in {0, 1} /\ (taken = 1 => f.debug)
  BY DEF Flags
<1>3. flags \in [Span -> [Version -> Flags]]
  BY DEF IInv, TypeOK
<1>4. HadParent(orphan) \in BOOLEAN
  BY DEF HadParent
<1> HIDE DEF f, taken
<1>5. StartResult(s, WithPriority(f, priority, grant))
  BY <1>1, <1>2, <1>3, <1>4, StartInternalStep
<1>6. TypeOK'
  BY <1>1, <1>5 DEF IInv, TypeOK, StartResult
<1>7. LinkedInv'
  BY <1>1, <1>5, LinksKept DEF LinkedInv, StartResult
<1> QED BY <1>5, <1>6, <1>7 DEF IInv, StartResult

LEMMA StartJoinedKeepsInv ==
  ASSUME IInv, NEW s \in Span, NEW f \in Flags, NEW rpcServer \in BOOLEAN,
         NEW priority \in Priority, NEW grant \in BOOLEAN,
         StartJoined(s, f, rpcServer, priority, grant)
  PROVE  IInv'
<1> DEFINE h == Finalized(f)
           hadParent == TRUE
           taken == 0
<1>1. /\ StartInternal(s, h, flags, hadParent, rpcServer, priority, grant, taken)
      /\ UNCHANGED <<roots, linked>>
  BY DEF StartJoined
<1>2. h \in Flags
  BY FinalizedTyped
<1>3. flags \in [Span -> [Version -> Flags]]
  BY DEF IInv, TypeOK
<1>4. hadParent \in BOOLEAN /\ taken \in {0, 1} /\ taken # 1
  OBVIOUS
<1> HIDE DEF h, hadParent, taken
<1>5. StartResult(s, WithPriority(h, priority, grant))
  BY <1>1, <1>2, <1>3, <1>4, StartInternalStep
<1>6. TypeOK'
  BY <1>1, <1>5 DEF IInv, TypeOK, StartResult
<1>7. LinkedInv'
  BY <1>1, <1>5, LinksKept DEF LinkedInv, StartResult
<1> QED BY <1>5, <1>6, <1>7 DEF IInv, StartResult

LEMMA StartChildKeepsInv ==
  ASSUME IInv, NEW s \in Span, NEW p \in Span, NEW v \in Version,
         NEW rpcServer \in BOOLEAN, NEW priority \in Priority,
         NEW grant \in BOOLEAN,
         StartChild(s, p, v, rpcServer, priority, grant)
  PROVE  IInv'
<1> DEFINE f == Finalized(flags[p][v])
           g == WithPriority(f, priority, grant)
           others == FinalizeParent(p, v)
           hadParent == TRUE
           taken == 0
<1>1. /\ v <= current[p]
      /\ StartInternal(s, f, others, hadParent, rpcServer, priority, grant, taken)
      /\ linked' = IF v = current[p] /\ ~Forces(f, g)
                   THEN linked \cup {<<s, p>>} ELSE linked
      /\ UNCHANGED roots
  BY DEF StartChild
<1>2. flags \in [Span -> [Version -> Flags]]
  BY DEF IInv, TypeOK
<1>3. f \in Flags /\ f.final
      /\ f.sampled = flags[p][v].sampled /\ f.debug = flags[p][v].debug
  BY <1>2, FinalizedTyped
<1>4. /\ others \in [Span -> [Version -> Flags]]
      /\ others[p][v].final
      /\ \A x \in Span : \A w \in Version :
           /\ others[x][w].sampled = flags[x][w].sampled
           /\ others[x][w].debug = flags[x][w].debug
           /\ flags[x][w].final => others[x][w].final
  BY <1>2, FinalizedTyped DEF FinalizeParent
<1>4a. hadParent \in BOOLEAN /\ taken \in {0, 1} /\ taken # 1
  OBVIOUS
<1> HIDE DEF f, others, hadParent, taken
<1>5. StartResult(s, WithPriority(f, priority, grant))
  BY <1>1, <1>3, <1>4, <1>4a, StartInternalStep
<1>6. TypeOK'
  BY <1>1, <1>5 DEF IInv, TypeOK, StartResult
<1>7. ASSUME v = current[p], ~Forces(f, g)
      PROVE  /\ Started(p)'
             /\ Context(s)'.final /\ Context(p)'.final
             /\ Context(s)'.sampled = Context(p)'.sampled
             /\ Context(s)'.debug = Context(p)'.debug
  <2>1. Started(p) /\ p # s /\ Context(p) = flags[p][v]
    BY <1>5, <1>7 DEF Started, Context, Version, StartResult
  <2>2. Keeps(p)
    BY <2>1, <1>5 DEF StartResult
  <2>3. Context(p)'.final
    <3>1. flags'[p] = others[p] /\ current'[p] = current[p]
      BY <1>1, <1>4, <2>1 DEF StartInternal, IInv, TypeOK
    <3> QED BY <3>1, <1>4, <1>7 DEF Context
  <2>4. g.final /\ g.sampled = f.sampled /\ g.debug = f.debug
    BY <1>3, <1>7, PriorityTyped DEF Forces
  <2> QED BY <2>1, <2>2, <2>3, <2>4, <1>3, <1>5 DEF Keeps, StartResult
<1>8. LinkedInv'
  <2> SUFFICES ASSUME NEW l \in linked'
      PROVE  /\ Started(l[1])' /\ Started(l[2])'
             /\ Context(l[1])'.final /\ Context(l[2])'.final
             /\ Context(l[1])'.sampled = Context(l[2])'.sampled
             /\ Context(l[1])'.debug = Context(l[2])'.debug
    BY DEF LinkedInv
  <2>1. CASE l \in linked
    BY <2>1, <1>5, LinksKept DEF StartResult
  <2>2. CASE l \notin linked
    <3>1. l = <<s, p>> /\ v = current[p] /\ ~Forces(f, g)
      BY <2>2, <1>1
    <3> QED BY <3>1, <1>5, <1>7 DEF StartResult
  <2> QED BY <2>1, <2>2
<1> QED BY <1>5, <1>6, <1>8 DEF IInv, StartResult

-------------------------------------------------------------------------------

\* A call that keeps the finalized contexts, takes no debug flag away and
\* forces nothing keeps the invariant, if what it adds to the histories is
\* true of the contexts it leaves.
LEMMA FrameKeepsInv ==
  ASSUME IInv, TypeOK',
         \A x \in Span : Started(x)' <=> Started(x),
         FinalKept({}),
         \A x \in Span : Started(x) /\ Context(x).debug => Context(x)'.debug,
         UNCHANGED <<linked, forced, spent>>,
         \A x \in sent' \ sent :
           /\ Started(x[1])' /\ Context(x[1])'.final
           /\ Context(x[1])'.sampled = x[2] /\ Context(x[1])'.debug = x[3],
         \A x \in refused' \ refused :
           /\ Started(x)'
           /\ x \notin forced =>
                Context(x)'.final /\ ~Context(x)'.sampled /\ reports'[x] = 0,
         \A x \in Span : reports'[x] = reports[x] \/
           (Started(x)' /\ Context(x)'.final /\ Context(x)'.sampled)
  PROVE  IInv'
<1>1. UnstartedInv'
  <2> SUFFICES ASSUME NEW x \in Span, ~Started(x)'
      PROVE  reports'[x] = 0 /\ spent'[x] = 0
    BY DEF UnstartedInv
  <2> QED BY DEF IInv, UnstartedInv
<1>2. LinkedInv'
  <2> SUFFICES ASSUME NEW l \in linked
      PROVE  /\ Started(l[1])' /\ Started(l[2])'
             /\ Context(l[1])'.final /\ Context(l[2])'.final
             /\ Context(l[1])'.sampled = Context(l[2])'.sampled
             /\ Context(l[1])'.debug = Context(l[2])'.debug
    BY DEF LinkedInv
  <2>1. l[1] \in Span /\ l[2] \in Span
    BY DEF IInv, TypeOK
  <2> QED BY <2>1 DEF IInv, LinkedInv, FinalKept, Keeps
<1>3. SentInv'
  <2> SUFFICES ASSUME NEW x \in sent'
      PROVE  /\ Started(x[1])' /\ Context(x[1])'.final
             /\ Context(x[1])'.sampled = x[2] /\ Context(x[1])'.debug = x[3]
    BY DEF SentInv
  <2>1. CASE x \in sent
    <3>1. x[1] \in Span
      BY <2>1 DEF IInv, TypeOK
    <3> QED BY <2>1, <3>1 DEF IInv, SentInv, FinalKept, Keeps
  <2> QED BY <2>1
<1>4. RefusedInv'
  <2> SUFFICES ASSUME NEW x \in refused'
      PROVE  /\ Started(x)'
             /\ x \notin forced =>
                  Context(x)'.final /\ ~Context(x)'.sampled /\ reports'[x] = 0
    BY DEF RefusedInv
  <2>1. CASE x \in refused
    <3>1. x \in Span /\ Started(x)
      BY <2>1 DEF IInv, TypeOK, RefusedInv
    <3>2. CASE x \notin forced
      <4>1. Context(x).final /\ ~Context(x).sampled /\ reports[x] = 0
        BY <2>1, <3>2 DEF IInv, RefusedInv
      <4>2. Context(x)'.final /\ ~Context(x)'.sampled
        BY <3>1, <4>1 DEF FinalKept, Keeps
      <4> QED BY <3>1, <4>1, <4>2
    <3> QED BY <3>1, <3>2
  <2> QED BY <2>1
<1>5. ReportedInv'
  <2> SUFFICES ASSUME NEW x \in Span, reports'[x] > 0
      PROVE  /\ Started(x)'
             /\ x \notin forced => Context(x)'.final /\ Context(x)'.sampled
    BY DEF ReportedInv
  <2>1. CASE reports'[x] = reports[x]
    BY <2>1 DEF IInv, ReportedInv, FinalKept, Keeps
  <2> QED BY <2>1
<1>6. CreditInv'
  <2> SUFFICES ASSUME NEW x \in Span
      PROVE  spent[x] <= 1 /\ (spent[x] = 1 => Context(x)'.debug)
    BY DEF CreditInv
  <2>1. spent[x] <= 1 /\ (spent[x] = 1 => Started(x) /\ Context(x).debug)
    BY DEF IInv, CreditInv, UnstartedInv
  <2> QED BY <2>1
<1> QED BY <1>1, <1>2, <1>3, <1>4, <1>5, <1>6 DEF IInv

\* A call that only replaces the flags of the current context of s, by flags
\* that keep what was final and the debug flag, meets the frame.
LEMMA CurrentReplaced ==
  ASSUME TypeOK, NEW s \in Span, Started(s), NEW g \in Flags,
         flags' = [flags EXCEPT ![s][current[s]] = g],
         UNCHANGED current
  PROVE  /\ flags' \in [Span -> [Version -> Flags]]
         /\ Context(s)' = g
         /\ \A x \in Span : Started(x)' <=> Started(x)
         /\ \A x \in Span \ {s} : Context(x)' = Context(x)
<1>1. current[s] \in Version
  BY FlagsTyped
<1> QED BY <1>1 DEF TypeOK, Context, Started

LEMMA SetOperationNameKeepsInv ==
  ASSUME IInv, NEW s \in Span, NEW sampled \in BOOLEAN,
         SetOperationName(s, sampled)
  PROVE  IInv'
<1> DEFINE f == Context(s)
           g == Resampled(f, sampled)
<1>1. TypeOK /\ Started(s) /\ f \in Flags
  BY FlagsTyped DEF SetOperationName, IInv
<1>2. g \in Flags /\ (f.final => g = f) /\ (f.debug => g.debug)
  BY <1>1 DEF Resampled, Finalized, Flags
<1>3. /\ flags' = [flags EXCEPT ![s][current[s]] = g]
      /\ UNCHANGED <<current, reports, metric, roots, linked, sent, refused,
                     forced, spent>>
  BY DEF SetOperationName, Context
<1> HIDE DEF f, g
<1>4. /\ flags' \in [Span -> [Version -> Flags]]
      /\ Context(s)' = g
      /\ \A x \in Span : Started(x)' <=> Started(x)
      /\ \A x \in Span \ {s} : Context(x)' = Context(x)
  BY <1>1, <1>2, <1>3, CurrentReplaced
<1>5. TypeOK'
  BY <1>1, <1>3, <1>4 DEF TypeOK
<1>6. FinalKept({})
  BY <1>2, <1>4 DEF FinalKept, Keeps, f
<1>7. \A x \in Span : Started(x) /\ Context(x).debug => Context(x)'.debug
  BY <1>2, <1>4 DEF f
<1> QED BY <1>3, <1>4, <1>5, <1>6, <1>7, FrameKeepsInv

LEMMA WriteKeepsInv ==
  ASSUME IInv, NEW s \in Span, Write(s)
  PROVE  IInv'
<1>1. /\ TypeOK /\ Started(s)
      /\ refused' = IF Writeable(Context(s)) THEN refused ELSE refused \cup {s}
      /\ UNCHANGED <<current, flags, reports, metric, roots, linked, sent,
                     forced, spent>>
  BY DEF Write, IInv
<1>2. /\ \A x \in Span : Started(x)' <=> Started(x)
      /\ \A x \in Span : Context(x)' = Context(x)
  BY <1>1 DEF Started, Context
<1>3. TypeOK'
  BY <1>1 DEF TypeOK
<1>4. FinalKept({})
  BY <1>2 DEF FinalKept, Keeps
<1>5. \A x \in refused' \ refused :
        /\ Started(x)'
        /\ x \notin forced =>
             Context(x)'.final /\ ~Context(x)'.sampled /\ reports'[x] = 0
  <2> SUFFICES ASSUME ~Writeable(Context(s)), s \notin forced
      PROVE  Context(s).final /\ ~Context(s).sampled /\ reports[s] = 0
    BY <1>1, <1>2
  <2>1. Context(s).final /\ ~Context(s).sampled
    BY DEF Writeable
  <2>2. reports[s] = 0
    BY <1>1, <2>1 DEF IInv, ReportedInv, TypeOK
  <2> QED BY <2>1, <2>2
<1> QED BY <1>1, <1>2, <1>3, <1>4, <1>5, FrameKeepsInv

LEMMA SetBaggageItemKeepsInv ==
  ASSUME IInv, NEW s \in Span, SetBaggageItem(s)
  PROVE  IInv'
<1> DEFINE n == current[s] + 1
<1>1. /\ TypeOK /\ Started(s) /\ Context(s) \in Flags /\ n \in Version
      /\ current' = [current EXCEPT ![s] = n]
      /\ flags' = [flags EXCEPT ![s][n] = Context(s)]
      /\ UNCHANGED <<reports, metric, roots, linked, sent, refused, forced, spent>>
  <2>1. TypeOK /\ Started(s)
    BY DEF SetBaggageItem, IInv
  <2>2. Context(s) \in Flags
    BY <2>1, FlagsTyped
  <2>3. n \in Version
    BY <2>1, SamplingAssumption DEF SetBaggageItem, TypeOK, Version
  <2> QED BY <2>1, <2>2, <2>3 DEF SetBaggageItem, WithBaggageItem
<1>2. n \in 1..MaxContexts
  BY <1>1 DEF Version
<1> HIDE DEF n
<1>3. /\ \A x \in Span : Started(x)' <=> Started(x)
      /\ \A x \in Span : Started(x) => Context(x)' = Context(x)
  BY <1>1, <1>2 DEF TypeOK, Started, Context
<1>4. TypeOK'
  BY <1>1, <1>2, SamplingAssumption DEF TypeOK
<1>5. FinalKept({})
  BY <1>3 DEF FinalKept, Keeps
<1> QED BY <1>1, <1>3, <1>4, <1>5, FrameKeepsInv

LEMMA InjectKeepsInv ==
  ASSUME IInv, NEW s \in Span, NEW v \in Version, Inject(s, v)
  PROVE  IInv'
<1> DEFINE g == Injected(flags[s][v])
<1>1. /\ TypeOK /\ v <= current[s] /\ flags[s][v] \in Flags
      /\ flags' = [flags EXCEPT ![s][v] = g]
      /\ sent' = IF v = current[s]
                 THEN sent \cup {<<s, Context(s).sampled, Context(s).debug>>}
                 ELSE sent
      /\ UNCHANGED <<current, reports, metric, roots, linked, refused, forced,
                     spent>>
  BY DEF Inject, IInv, TypeOK
<1>2. /\ g \in Flags /\ g.final
      /\ g.sampled = flags[s][v].sampled /\ g.debug = flags[s][v].debug
  BY <1>1, FinalizedTyped DEF Injected
<1>3. Started(s)
  BY <1>1 DEF Started, Version, TypeOK
<1> HIDE DEF g
<1>4. flags' \in [Span -> [Version -> Flags]]
  BY <1>1, <1>2 DEF TypeOK
<1>5. \A x \in Span : /\ Started(x)' <=> Started(x)
                      /\ Started(x) => Keeps(x)
  <2> TAKE x \in Span
  <2>1. current'[x] = current[x]
    BY <1>1
  <2>2. ASSUME Started(x) PROVE Keeps(x)
    <3>1. current[x] \in Version
      BY <1>1, <2>2, FlagsTyped
    <3> QED BY <1>1, <1>2, <2>1, <2>2, <3>1 DEF TypeOK, Keeps, Started, Context
  <2> QED BY <2>1, <2>2 DEF Started
<1>6. v = current[s] => Context(s)'.final
  BY <1>1, <1>2 DEF TypeOK, Context
<1>7. TypeOK'
  <2>1. Context(s) \in Flags
    BY <1>1, <1>3, FlagsTyped
  <2>2. Context(s).sampled \in BOOLEAN /\ Context(s).debug \in BOOLEAN
    BY <2>1 DEF Flags
  <2>3. sent' \subseteq Span \X BOOLEAN \X BOOLEAN
    BY <1>1, <2>2 DEF TypeOK
  <2> QED BY <1>1, <1>4, <2>3 DEF TypeOK
<1>8. \A x \in sent' \ sent :
        /\ Started(x[1])' /\ Context(x[1])'.final
        /\ Context(x[1])'.sampled = x[2] /\ Context(x[1])'.debug = x[3]
  BY <1>1, <1>3, <1>5, <1>6 DEF Keeps
<1>9. FinalKept({})
  BY <1>5 DEF FinalKept
<1>10. \A x \in Span : Started(x) /\ Context(x).debug => Context(x)'.debug
  BY <1>5 DEF Keeps
<1> QED BY <1>1, <1>5, <1>7, <1>8, <1>9, <1>10, FrameKeepsInv

LEMMA FinishKeepsInv ==
  ASSUME IInv, NEW s \in Span, Finish(s)
  PROVE  IInv'
<1> DEFINE f == Context(s)
           g == Finalized(f)
<1>1. /\ TypeOK /\ Started(s) /\ reports[s] = 0
      /\ flags' = [flags EXCEPT ![s][current[s]] = g]
      /\ IF f.sampled
         THEN reports' = [reports EXCEPT ![s] = @ + 1]
         ELSE UNCHANGED reports
      /\ UNCHANGED <<current, roots, linked, sent, refused, forced, spent>>
  BY DEF Finish, Context, IInv
<1>2. f \in Flags
  BY <1>1, FlagsTyped
<1>3. g \in Flags /\ g.final /\ g.sampled = f.sampled /\ g.debug = f.debug
  BY <1>2, FinalizedTyped
<1>4. metric' \in [Metric -> Nat]
  BY <1>1, CountedTyped DEF Finish, TypeOK
<1> HIDE DEF f, g
<1>5. /\ flags' \in [Span -> [Version -> Flags]]
      /\ Context(s)' = g
      /\ \A x \in Span : Started(x)' <=> Started(x)
      /\ \A x \in Span \ {s} : Context(x)' = Context(x)
  BY <1>1, <1>3, CurrentReplaced
<1>6. TypeOK'
  BY <1>1, <1>4, <1>5 DEF TypeOK
<1>7. FinalKept({})
  BY <1>3, <1>5 DEF FinalKept, Keeps, f
<1>8. \A x \in Span : Started(x) /\ Context(x).debug => Context(x)'.debug
  BY <1>3, <1>5 DEF f
<1>9. \A x \in Span : reports'[x] = reports[x] \/
        (Started(x)' /\ Context(x)'.final /\ Context(x)'.sampled)
  BY <1>1, <1>3, <1>5 DEF TypeOK
<1> QED BY <1>1, <1>5, <1>6, <1>7, <1>8, <1>9, FrameKeepsInv

\* sampling.priority: what it changes, the histories leave out.
LEMMA SetPriorityKeepsInv ==
  ASSUME IInv, NEW s \in Span, NEW priority \in Priority, NEW grant \in BOOLEAN,
         SetPriority(s, priority, grant)
  PROVE  IInv'
<1> DEFINE f == Context(s)
           g == WithPriority(f, priority, grant)
           spends == Spends(f, priority, grant)
<1>1. /\ TypeOK /\ Started(s) /\ priority # "absent"
      /\ flags' = [flags EXCEPT ![s][current[s]] = g]
      /\ spent' = [spent EXCEPT ![s] = @ + IF spends THEN 1 ELSE 0]
      /\ refused' = IF Writeable(g) THEN refused ELSE refused \cup {s}
      /\ IF Forces(f, g)
         THEN /\ forced' = forced \cup {s}
              /\ linked' = {l \in linked : s \notin {l[1], l[2]}}
              /\ sent' = {x \in sent : x[1] # s}
         ELSE UNCHANGED <<forced, linked, sent>>
      /\ UNCHANGED <<current, reports, metric, roots>>
  BY DEF SetPriority, IInv
<1>2. f \in Flags
  BY <1>1, FlagsTyped
<1>3. /\ g \in Flags /\ g.final
      /\ f.debug => g.debug
      /\ spends => g.debug /\ ~f.debug
  BY <1>1, <1>2, PriorityTyped
<1> HIDE DEF f, g, spends
<1>4. /\ flags' \in [Span -> [Version -> Flags]]
      /\ Context(s)' = g
      /\ \A x \in Span : Started(x)' <=> Started(x)
      /\ \A x \in Span \ {s} : Context(x)' = Context(x)
  BY <1>1, <1>3, CurrentReplaced
<1>5. ~Forces(f, g) => Context(s)'.sampled = f.sampled /\ Context(s)'.debug = f.debug
  BY <1>4 DEF Forces
<1>6. Context(s)'.final
  BY <1>3, <1>4
<1>7. TypeOK'
  BY <1>1, <1>4 DEF TypeOK
<1>8. UnstartedInv'
  BY <1>1, <1>4 DEF IInv, UnstartedInv, TypeOK
<1>9. LinkedInv'
  <2> SUFFICES ASSUME NEW l \in linked'
      PROVE  /\ Started(l[1])' /\ Started(l[2])'
             /\ Context(l[1])'.final /\ Context(l[2])'.final
             /\ Context(l[1])'.sampled = Context(l[2])'.sampled
             /\ Context(l[1])'.debug = Context(l[2])'.debug
    BY DEF LinkedInv
  <2>1. l \in linked /\ l[1] \in Span /\ l[2] \in Span
    BY <1>1 DEF TypeOK
  <2>2. /\ Started(l[1]) /\ Started(l[2])
        /\ Context(l[1]).final /\ Context(l[2]).final
        /\ Context(l[1]).sampled = Context(l[2]).sampled
        /\ Context(l[1]).debug = Context(l[2]).debug
    BY <2>1 DEF IInv, LinkedInv
  <2>3. CASE Forces(f, g)
    BY <2>1, <2>2, <2>3, <1>1, <1>4
  <2>4. CASE ~Forces(f, g)
    BY <2>1, <2>2, <2>4, <1>4, <1>5, <1>6 DEF f
  <2> QED BY <2>3, <2>4
<1>10. SentInv'
  <2> SUFFICES ASSUME NEW x \in sent'
      PROVE  /\ Started(x[1])' /\ Context(x[1])'.final
             /\ Context(x[1])'.sampled = x[2] /\ Context(x[1])'.debug = x[3]
    BY DEF SentInv
  <2>1. x \in sent /\ x[1] \in Span
    BY <1>1 DEF TypeOK
  <2>2. /\ Started(x[1]) /\ Context(x[1]).final
        /\ Context(x[1]).sampled = x[2] /\ Context(x[1]).debug = x[3]
    BY <2>1 DEF IInv, SentInv
  <2>3. CASE Forces(f, g)
    BY <2>1, <2>2, <2>3, <1>1, <1>4
  <2>4. CASE ~Forces(f, g)
    BY <2>1, <2>2, <2>4, <1>4, <1>5, <1>6 DEF f
  <2> QED BY <2>3, <2>4
<1>11. RefusedInv'
  <2> SUFFICES ASSUME NEW x \in refused'
      PROVE  /\ Started(x)'
             /\ x \notin forced' =>
                  Context(x)'.final /\ ~Context(x)'.sampled /\ reports'[x] = 0
    BY DEF RefusedInv
  <2>1. x \in Span /\ reports'[x] = reports[x]
    BY <1>1 DEF TypeOK
  <2>2. CASE x # s
    <3>1. x \in refused
      BY <2>2, <1>1
    <3> QED BY <3>1, <2>1, <2>2, <1>1, <1>4 DEF IInv, RefusedInv
  <2>3. CASE x = s
    <3> SUFFICES ASSUME s \notin forced'
        PROVE  ~Context(s)'.sampled /\ reports[s] = 0
      BY <2>1, <2>3, <1>1, <1>4, <1>6
    <3>1. s \notin forced /\ ~Forces(f, g)
      BY <1>1
    <3>2. ~Context(s)'.sampled /\ ~f.sampled
      <4>1. CASE s \in refused
        BY <4>1, <3>1, <1>5 DEF IInv, RefusedInv, f
      <4>2. CASE s \notin refused
        <5>1. ~Writeable(g)
          BY <4>2, <2>3, <1>1
        <5> QED BY <5>1, <3>1, <1>4, <1>5 DEF Writeable
      <4> QED BY <4>1, <4>2
    <3>3. reports[s] = 0
      BY <3>1, <3>2, <1>1 DEF IInv, ReportedInv, TypeOK, f
    <3> QED BY <3>2, <3>3
  <2> QED BY <2>2, <2>3
<1>12. ReportedInv'
  <2> SUFFICES ASSUME NEW x \in Span, reports[x] > 0
      PROVE  /\ Started(x)'
             /\ x \notin forced' => Context(x)'.final /\ Context(x)'.sampled
    BY <1>1 DEF ReportedInv
  <2>1. Started(x) /\ (x \notin forced => Context(x).final /\ Context(x).sampled)
    BY DEF IInv, ReportedInv
  <2>2. CASE x # s
    BY <2>1, <2>2, <1>1, <1>4
  <2>3. CASE x = s
    BY <2>1, <2>3, <1>1, <1>4, <1>5, <1>6 DEF f
  <2> QED BY <2>2, <2>3
<1>13. CreditInv'
  <2> SUFFICES ASSUME NEW x \in Span
      PROVE  spent'[x] <= 1 /\ (spent'[x] = 1 => Context(x)'.debug)
    BY DEF CreditInv
  <2>1. spent[x] \in Nat /\ spent[x] <= 1 /\ (spent[x] = 1 => Context(x).debug)
    BY <1>1 DEF IInv, CreditInv, TypeOK
  <2>2. CASE x # s
    BY <2>1, <2>2, <1>1, <1>4 DEF TypeOK
  <2>3. CASE x = s
    BY <2>1, <2>3, <1>1, <1>3, <1>4 DEF TypeOK, f
  <2> QED BY <2>2, <2>3
<1> QED
  BY <1>7, <1>8, <1>9, <1>10, <1>11, <1>12, <1>13 DEF IInv

-------------------------------------------------------------------------------

LEMMA InitInv ==
  ASSUME Init
  PROVE  IInv
<1>1. TypeOK
  BY SamplingAssumption DEF Init, TypeOK, Flags
<1>2. /\ \A s \in Span : ~Started(s) /\ reports[s] = 0 /\ spent[s] = 0
      /\ linked = {} /\ sent = {} /\ refused = {}
  BY DEF Init, Started
<1> QED
  BY <1>1, <1>2 DEF IInv, UnstartedInv, LinkedInv, SentInv, RefusedInv,
     ReportedInv, CreditInv

LEMMA StutterKeepsInv ==
  ASSUME IInv, UNCHANGED vars
  PROVE  IInv'
BY DEF vars, IInv, TypeOK, UnstartedInv, LinkedInv, SentInv, RefusedInv,
   ReportedInv, CreditInv, Started, Context

LEMMA StepKeepsInv ==
  ASSUME IInv, [Next]_vars
  PROVE  IInv'
<1>1. CASE UNCHANGED vars
  BY <1>1, StutterKeepsInv
<1>2. CASE Next
  <2> PICK s \in Span :
        \/ Start(s)
        \/ \E sampled \in BOOLEAN : SetOperationName(s, sampled)
        \/ \E priority \in Priority, grant \in BOOLEAN :
             SetPriority(s, priority, grant)
        \/ Write(s)
        \/ SetBaggageItem(s)
        \/ \E v \in Version : Inject(s, v)
        \/ Finish(s)
    BY <1>2 DEF Next
  <2>1. CASE Start(s)
    <3> PICK rpcServer \in BOOLEAN, grant \in BOOLEAN, priority \in Priority :
          \/ \E orphan \in Orphan, sampled, byId \in BOOLEAN :
               StartRoot(s, orphan, sampled, byId, rpcServer, priority, grant)
          \/ \E f \in Flags : StartJoined(s, f, rpcServer, priority, grant)
          \/ \E p \in Span, v \in Version :
               StartChild(s, p, v, rpcServer, priority, grant)
      BY <2>1 DEF Start
    <3>1. CASE \E orphan \in Orphan, sampled, byId \in BOOLEAN :
                 StartRoot(s, orphan, sampled, byId, rpcServer, priority, grant)
      BY <3>1, StartRootKeepsInv
    <3>2. CASE \E f \in Flags : StartJoined(s, f, rpcServer, priority, grant)
      BY <3>2, StartJoinedKeepsInv
    <3>3. CASE \E p \in Span, v \in Version :
                 StartChild(s, p, v, rpcServer, priority, grant)
      BY <3>3, StartChildKeepsInv
    <3> QED BY <3>1, <3>2, <3>3
  <2>2. CASE \E sampled \in BOOLEAN : SetOperationName(s, sampled)
    BY <2>2, SetOperationNameKeepsInv
  <2>3. CASE \E priority \in Priority, grant \in BOOLEAN :
               SetPriority(s, priority, grant)
    BY <2>3, SetPriorityKeepsInv
  <2>4. CASE Write(s)
    BY <2>4, WriteKeepsInv
  <2>5. CASE SetBaggageItem(s)
    BY <2>5, SetBaggageItemKeepsInv
  <2>6. CASE \E v \in Version : Inject(s, v)
    BY <2>6, InjectKeepsInv
  <2>7. CASE Finish(s)
    BY <2>7, FinishKeepsInv
  <2> QED BY <2>1, <2>2, <2>3, <2>4, <2>5, <2>6, <2>7
<1> QED BY <1>1, <1>2

\* The inductive invariant holds in every state of the program.
THEOREM Invariance == Spec => []IInv
<1>1. Init => IInv
  BY InitInv
<1>2. IInv /\ [Next]_vars => IInv'
  BY StepKeepsInv
<1> QED BY <1>1, <1>2, PTL DEF Spec

\* The state of every span is one that the code can be in; none is reported
\* twice.
THEOREM TypeCorrect == Spec => []TypeOK
<1>1. IInv => TypeOK
  BY DEF IInv
<1> QED BY <1>1, Invariance, PTL

\* A child and its parent have one decision for good (startSpan finalizes
\* both contexts, and copies stay finalized).
THEOREM OneDecision == Spec => []ChildrenAgree
<1>1. IInv => ChildrenAgree
  BY DEF IInv, LinkedInv, ChildrenAgree
<1> QED BY <1>1, Invariance, PTL

\* What inject told another process stays true of the span.
THEOREM InjectedForGood == Spec => []InjectedAgrees
<1>1. IInv => InjectedAgrees
  BY DEF IInv, SentInv, InjectedAgrees
<1> QED BY <1>1, Invariance, PTL

\* No span is reported with a tag or a log missing, unless it was forced.
THEOREM CompleteReports == Spec => []ReportsAreComplete
<1>1. IInv => ReportsAreComplete
  BY DEF IInv, RefusedInv, ReportsAreComplete
<1> QED BY <1>1, Invariance, PTL

\* A span takes at most one credit of the debug throttler.
THEOREM OneCredit == Spec => []OneCreditPerSpan
<1>1. IInv => OneCreditPerSpan
  BY DEF IInv, CreditInv, OneCreditPerSpan
<1> QED BY <1>1, Invariance, PTL

-------------------------------------------------------------------------------
(* The counters.  IInv says nothing of them but their types; CountInv adds *)
(* that a trace that began here has its root among the started spans, so   *)
(* that a start counts a new span and a new root.                          *)

CountInv == (\A r \in roots : Started(r[1])) /\ MetricsMatch

\* The roots that count as traces started here.
Begun(R) == {r \in R : r[2] # "empty"}

LEMMA Sizes ==
  /\ \A S \in SUBSET Span :
       /\ Cardinality(S) \in Nat
       /\ \A s \in Span \ S : Cardinality(S \cup {s}) = Cardinality(S) + 1
  /\ \A R \in SUBSET (Span \X Orphan) :
       /\ Cardinality(R) \in Nat
       /\ \A r \in (Span \X Orphan) \ R : Cardinality(R \cup {r}) = Cardinality(R) + 1
<1>1. IsFiniteSet(Span) /\ IsFiniteSet(Orphan)
  <2>1. Orphan = {} \cup {"none"} \cup {"debugId"} \cup {"empty"}
    BY DEF Orphan
  <2> QED BY <2>1, SamplingAssumption, FS_EmptySet, FS_AddElement
<1>2. IsFiniteSet(Span \X Orphan)
  BY <1>1, FS_Product
<1> QED BY <1>1, <1>2, FS_Subset, FS_CardinalityType, FS_AddElement

LEMMA NamesOfMetrics ==
  /\ <<"spansFinished", TRUE>> \in Metric
  /\ <<"spansStarted", TRUE>> \in Metric /\ <<"spansStarted", FALSE>> \in Metric
  /\ <<"tracesStarted", TRUE>> \in Metric /\ <<"tracesStarted", FALSE>> \in Metric
BY DEF Metric

\* What _startInternalSpan counts.
StartCounted(s, hadParent) ==
  /\ metric'[<<"spansFinished", TRUE>>] = metric[<<"spansFinished", TRUE>>]
  /\ MetricSum("spansStarted")' = MetricSum("spansStarted") + 1
  /\ MetricSum("tracesStarted")' =
       MetricSum("tracesStarted") + IF hadParent THEN 0 ELSE 1
  /\ ~Started(s)
  /\ {x \in Span : Started(x)}' = {x \in Span : Started(x)} \cup {s}
  /\ \A x \in Span : Started(x) => Started(x)'
  /\ reports' = reports

LEMMA StartCounts ==
  ASSUME TypeOK, NEW s \in Span, NEW f \in Flags,
         NEW others \in [Span -> [Version -> Flags]],
         NEW hadParent \in BOOLEAN, NEW rpcServer \in BOOLEAN,
         NEW priority \in Priority, NEW grant \in BOOLEAN, NEW taken \in {0, 1},
         StartInternal(s, f, others, hadParent, rpcServer, priority, grant, taken)
  PROVE  StartCounted(s, hadParent)
<1> DEFINE g == WithPriority(f, priority, grant)
           names == {<<"spansStarted", g.sampled>>} \cup
                    IF ~hadParent THEN {<<"tracesStarted", g.sampled>>}
                    ELSE IF rpcServer THEN {<<"tracesJoined", g.sampled>>}
                    ELSE {}
<1>1. g.sampled \in BOOLEAN
  BY PriorityTyped DEF Flags
<1>2. /\ Counted(names) /\ ~Started(s) /\ reports' = reports
      /\ current' = [current EXCEPT ![s] = 1]
  BY DEF StartInternal
<1> HIDE DEF g
<1>3. \A m \in Metric :
        metric[m] \in Nat /\ metric'[m] = metric[m] + IF m \in names THEN 1 ELSE 0
  BY <1>2 DEF Counted, TypeOK
<1>4. \A b \in {TRUE, FALSE} :
        <<"spansStarted", b>> \in names <=> (b <=> g.sampled)
  BY <1>1
<1>5. \A b \in {TRUE, FALSE} :
        <<"tracesStarted", b>> \in names <=> ~hadParent /\ (b <=> g.sampled)
  BY <1>1
<1>6. <<"spansFinished", TRUE>> \notin names
  OBVIOUS
<1> HIDE DEF names
<1>7. /\ MetricSum("spansStarted")' = MetricSum("spansStarted") + 1
      /\ MetricSum("tracesStarted")' =
           MetricSum("tracesStarted") + IF hadParent THEN 0 ELSE 1
  <2> DEFINE up == metric[<<"spansStarted", TRUE>>]
             down == metric[<<"spansStarted", FALSE>>]
             in == metric[<<"tracesStarted", TRUE>>]
             out == metric[<<"tracesStarted", FALSE>>]
  <2>1. /\ up \in Nat /\ up' = up + IF <<"spansStarted", TRUE>> \in names THEN 1 ELSE 0
        /\ down \in Nat /\ down' = down + IF <<"spansStarted", FALSE>> \in names THEN 1 ELSE 0
    BY <1>3, NamesOfMetrics, Zenon
  <2>2. /\ in \in Nat /\ in' = in + IF <<"tracesStarted", TRUE>> \in names THEN 1 ELSE 0
        /\ out \in Nat /\ out' = out + IF <<"tracesStarted", FALSE>> \in names THEN 1 ELSE 0
    BY <1>3, NamesOfMetrics, Zenon
  <2>3. /\ MetricSum("spansStarted") = up + down
        /\ MetricSum("tracesStarted") = in + out
        /\ MetricSum("spansStarted")' = up' + down'
        /\ MetricSum("tracesStarted")' = in' + out'
    BY DEF MetricSum
  <2>4. /\ <<"spansStarted", TRUE>> \in names <=> g.sampled
        /\ <<"spansStarted", FALSE>> \in names <=> ~g.sampled
        /\ <<"tracesStarted", TRUE>> \in names <=> ~hadParent /\ g.sampled
        /\ <<"tracesStarted", FALSE>> \in names <=> ~hadParent /\ ~g.sampled
    BY <1>4, <1>5, Zenon
  <2> HIDE DEF up, down, in, out
  <2> QED BY <2>1, <2>2, <2>3, <2>4
<1>8. metric'[<<"spansFinished", TRUE>>] = metric[<<"spansFinished", TRUE>>]
  <2> DEFINE finished == metric[<<"spansFinished", TRUE>>]
             more == <<"spansFinished", TRUE>> \in names
  <2>1. finished \in Nat /\ finished' = finished + IF more THEN 1 ELSE 0
    BY <1>3, NamesOfMetrics, Zenon
  <2>2. ~more
    BY <1>6
  <2> HIDE DEF finished, more
  <2>3. finished' = finished
    BY <2>1, <2>2
  <2> QED BY <2>3 DEF finished
<1>9. \A x \in Span : Started(x)' <=> Started(x) \/ x = s
  BY <1>2 DEF Started, TypeOK
<1> QED BY <1>2, <1>7, <1>8, <1>9 DEF StartCounted

LEMMA StartKeepsCount ==
  ASSUME IInv, CountInv, NEW s \in Span, Start(s)
  PROVE  CountInv'
<1> PICK rpcServer \in BOOLEAN, grant \in BOOLEAN, priority \in Priority :
      \/ \E orphan \in Orphan, sampled, byId \in BOOLEAN :
           StartRoot(s, orphan, sampled, byId, rpcServer, priority, grant)
      \/ \E f \in Flags : StartJoined(s, f, rpcServer, priority, grant)
      \/ \E p \in Span, v \in Version :
           StartChild(s, p, v, rpcServer, priority, grant)
  BY DEF Start
<1>1. TypeOK
  BY DEF IInv
<1>2. CASE \E orphan \in Orphan, sampled, byId \in BOOLEAN :
             StartRoot(s, orphan, sampled, byId, rpcServer, priority, grant)
  <2> PICK orphan \in Orphan, sampled \in BOOLEAN, byId \in BOOLEAN :
        StartRoot(s, orphan, sampled, byId, rpcServer, priority, grant)
    BY <1>2
  <2> DEFINE debug == orphan = "debugId" /\ byId
             f == [sampled |-> sampled \/ debug, debug |-> debug, final |-> FALSE]
             hadParent == HadParent(orphan)
             taken == IF debug THEN 1 ELSE 0
  <2>1. /\ StartInternal(s, f, flags, hadParent, rpcServer, priority, grant, taken)
        /\ roots' = roots \cup {<<s, orphan>>}
    BY DEF StartRoot
  <2>2. f \in Flags
    BY DEF Flags
  <2>3. /\ hadParent \in BOOLEAN /\ (hadParent <=> orphan = "empty")
        /\ flags \in [Span -> [Version -> Flags]] /\ taken \in {0, 1}
    BY <1>1 DEF HadParent, TypeOK
  <2> HIDE DEF f, hadParent, taken
  <2>4. StartCounted(s, hadParent)
    BY <1>1, <2>1, <2>2, <2>3, StartCounts
  <2>5. s \in {x \in Span : Started(x)}'
    BY <2>4 DEF StartCounted
  <2>6. \A r \in roots' : Started(r[1])'
    BY <1>1, <2>1, <2>4, <2>5 DEF CountInv, TypeOK, StartCounted
  <2>7. Cardinality({x \in Span : Started(x)}') =
          Cardinality({x \in Span : Started(x)}) + 1
    BY <2>4, Sizes DEF StartCounted
  <2>8. Cardinality(Begun(roots')) =
          Cardinality(Begun(roots)) + IF hadParent THEN 0 ELSE 1
    <3>1. Begun(roots) \in SUBSET (Span \X Orphan) /\ <<s, orphan>> \in Span \X Orphan
      BY <1>1 DEF TypeOK, Begun
    <3>2. <<s, orphan>> \notin Begun(roots)
      BY <2>4 DEF CountInv, Begun, StartCounted
    <3>3. CASE hadParent
      <4>1. Begun(roots') = Begun(roots)
        BY <2>1, <2>3, <3>3 DEF Begun
      <4> QED BY <4>1, <3>1, <3>3, Sizes
    <3>4. CASE ~hadParent
      <4>1. Begun(roots') = Begun(roots) \cup {<<s, orphan>>}
        BY <2>1, <2>3, <3>4 DEF Begun
      <4> QED BY <4>1, <3>1, <3>2, <3>4, Sizes
    <3> QED BY <2>3, <3>3, <3>4
  <2> QED BY <2>4, <2>6, <2>7, <2>8 DEF CountInv, MetricsMatch, Begun, StartCounted
<1>3. CASE \/ \E f \in Flags : StartJoined(s, f, rpcServer, priority, grant)
           \/ \E p \in Span, v \in Version :
                StartChild(s, p, v, rpcServer, priority, grant)
  <2> DEFINE hadParent == TRUE
  <2> PICK f \in Flags, others \in [Span -> [Version -> Flags]], taken \in {0, 1} :
          /\ StartInternal(s, f, others, hadParent, rpcServer, priority, grant, taken)
          /\ roots' = roots
    <3>1. CASE \E f \in Flags : StartJoined(s, f, rpcServer, priority, grant)
      BY <3>1, <1>1, FinalizedTyped DEF StartJoined, TypeOK
    <3>2. CASE \E p \in Span, v \in Version :
                 StartChild(s, p, v, rpcServer, priority, grant)
      <4> PICK p \in Span, v \in Version :
            StartChild(s, p, v, rpcServer, priority, grant)
        BY <3>2
      <4>1. Finalized(flags[p][v]) \in Flags
        BY <1>1, FinalizedTyped DEF TypeOK
      <4>2. FinalizeParent(p, v) \in [Span -> [Version -> Flags]]
        BY <1>1, <4>1 DEF FinalizeParent, TypeOK
      <4> QED BY <4>1, <4>2 DEF StartChild
    <3> QED BY <1>3, <3>1, <3>2
  <2>2. hadParent \in BOOLEAN /\ hadParent
    OBVIOUS
  <2> HIDE DEF hadParent
  <2>3. StartCounted(s, hadParent)
    BY <1>1, <2>2, StartCounts
  <2>4. \A r \in roots' : Started(r[1])'
    BY <1>1, <2>3 DEF CountInv, TypeOK, StartCounted
  <2>5. Cardinality({x \in Span : Started(x)}') =
          Cardinality({x \in Span : Started(x)}) + 1
    BY <2>3, Sizes DEF StartCounted
  <2>6. MetricSum("tracesStarted") = Cardinality(Begun(roots))
        /\ Cardinality(Begun(roots)) \in Nat
    BY <1>1, Sizes DEF CountInv, MetricsMatch, TypeOK, Begun
  <2>7. MetricSum("tracesStarted")' = Cardinality(Begun(roots'))
    BY <2>2, <2>3, <2>6 DEF StartCounted
  <2> QED BY <2>3, <2>4, <2>5, <2>7 DEF CountInv, MetricsMatch, Begun, StartCounted
<1> QED BY <1>2, <1>3

LEMMA FinishKeepsCount ==
  ASSUME IInv, CountInv, NEW s \in Span, Finish(s)
  PROVE  CountInv'
<1>1. TypeOK /\ current' = current /\ roots' = roots
  BY DEF Finish, IInv
<1>2. {x \in Span : Started(x)}' = {x \in Span : Started(x)}
  BY <1>1 DEF Started
<1>3. \A r \in roots' : Started(r[1])'
  BY <1>1 DEF CountInv, Started
<1>4. CASE ~Context(s).sampled
  <2>1. UNCHANGED <<reports, metric>>
    BY <1>4 DEF Finish
  <2> QED BY <1>1, <1>2, <1>3, <2>1 DEF CountInv, MetricsMatch, MetricSum
<1>5. CASE Context(s).sampled
  <2>1. /\ reports[s] = 0 /\ reports' = [reports EXCEPT ![s] = @ + 1]
        /\ Counted({<<"spansFinished", TRUE>>})
    BY <1>5 DEF Finish
  <2> DEFINE Reported == {x \in Span : reports[x] > 0}
  <2>2. {x \in Span : reports'[x] > 0} = Reported \cup {s} /\ s \notin Reported
    BY <1>1, <2>1 DEF TypeOK
  <2>3. Cardinality({x \in Span : reports'[x] > 0}) = Cardinality(Reported) + 1
    BY <2>2, Sizes
  <2>4. \A m \in Metric :
          metric'[m] = metric[m] + IF m = <<"spansFinished", TRUE>> THEN 1 ELSE 0
    BY <2>1 DEF Counted
  <2>5. metric'[<<"spansFinished", TRUE>>] = metric[<<"spansFinished", TRUE>>] + 1
    BY <2>4, NamesOfMetrics, Zenon
  <2>6. \A m \in Metric : m # <<"spansFinished", TRUE>> => metric'[m] = metric[m]
    <3> SUFFICES ASSUME NEW m \in Metric, m # <<"spansFinished", TRUE>>
        PROVE  metric'[m] = metric[m]
      OBVIOUS
    <3> DEFINE counted == m = <<"spansFinished", TRUE>>
    <3>1. metric'[m] = metric[m] + IF counted THEN 1 ELSE 0
      BY <2>4, Zenon
    <3>2. metric[m] \in Nat /\ ~counted
      BY <1>1 DEF TypeOK
    <3> HIDE DEF counted
    <3> QED BY <3>1, <3>2
  <2>7. /\ <<"spansStarted", TRUE>> # <<"spansFinished", TRUE>>
        /\ <<"spansStarted", FALSE>> # <<"spansFinished", TRUE>>
        /\ <<"tracesStarted", TRUE>> # <<"spansFinished", TRUE>>
        /\ <<"tracesStarted", FALSE>> # <<"spansFinished", TRUE>>
    OBVIOUS
  <2>8. /\ MetricSum("spansStarted")' = MetricSum("spansStarted")
        /\ MetricSum("tracesStarted")' = MetricSum("tracesStarted")
    BY <2>6, <2>7, NamesOfMetrics, Zenon DEF MetricSum
  <2> QED BY <1>1, <1>2, <1>3, <2>3, <2>5, <2>8 DEF CountInv, MetricsMatch
<1> QED BY <1>4, <1>5

\* No other call counts, or starts a span.
LEMMA OthersKeepCount ==
  ASSUME IInv, CountInv, UNCHANGED <<metric, roots, reports>>,
         \A x \in Span : Started(x)' <=> Started(x)
  PROVE  CountInv'
<1>1. {x \in Span : Started(x)}' = {x \in Span : Started(x)}
  OBVIOUS
<1>2. \A r \in roots' : Started(r[1])'
  BY DEF CountInv, IInv, TypeOK
<1> QED BY <1>1, <1>2 DEF CountInv, MetricsMatch, MetricSum

LEMMA StepKeepsCount ==
  ASSUME IInv, CountInv, [Next]_vars
  PROVE  CountInv'
<1>1. CASE UNCHANGED vars
  BY <1>1, OthersKeepCount DEF vars, Started
<1>2. CASE Next
  <2> PICK s \in Span :
        \/ Start(s)
        \/ \E sampled \in BOOLEAN : SetOperationName(s, sampled)
        \/ \E priority \in Priority, grant \in BOOLEAN :
             SetPriority(s, priority, grant)
        \/ Write(s)
        \/ SetBaggageItem(s)
        \/ \E v \in Version : Inject(s, v)
        \/ Finish(s)
    BY <1>2 DEF Next
  <2>1. CASE Start(s)
    BY <2>1, StartKeepsCount
  <2>2. CASE \E sampled \in BOOLEAN : SetOperationName(s, sampled)
    BY <2>2, OthersKeepCount DEF SetOperationName, Started
  <2>3. CASE \E priority \in Priority, grant \in BOOLEAN :
               SetPriority(s, priority, grant)
    BY <2>3, OthersKeepCount DEF SetPriority, Started
  <2>4. CASE Write(s)
    BY <2>4, OthersKeepCount DEF Write, Started
  <2>5. CASE SetBaggageItem(s)
    <3>1. \A x \in Span : Started(x)' <=> Started(x)
      BY <2>5 DEF SetBaggageItem, Started, IInv, TypeOK
    <3> QED BY <2>5, <3>1, OthersKeepCount DEF SetBaggageItem
  <2>6. CASE \E v \in Version : Inject(s, v)
    BY <2>6, OthersKeepCount DEF Inject, Started
  <2>7. CASE Finish(s)
    BY <2>7, FinishKeepsCount
  <2> QED BY <2>1, <2>2, <2>3, <2>4, <2>5, <2>6, <2>7
<1> QED BY <1>1, <1>2

LEMMA InitCount ==
  ASSUME Init
  PROVE  CountInv
<1>1. /\ {s \in Span : reports[s] > 0} = {}
      /\ {s \in Span : Started(s)} = {}
      /\ roots = {} /\ Begun(roots) = {}
  BY DEF Init, Started, Begun
<1>2. \A m \in Metric : metric[m] = 0
  BY DEF Init
<1>3. /\ metric[<<"spansFinished", TRUE>>] = 0
      /\ metric[<<"spansStarted", TRUE>>] = 0 /\ metric[<<"spansStarted", FALSE>>] = 0
      /\ metric[<<"tracesStarted", TRUE>>] = 0 /\ metric[<<"tracesStarted", FALSE>>] = 0
  BY <1>2, NamesOfMetrics, Zenon
<1>4. MetricSum("spansStarted") = 0 /\ MetricSum("tracesStarted") = 0
  BY <1>3 DEF MetricSum
<1>5. Cardinality({}) = 0
  BY FS_EmptySet
<1> QED BY <1>1, <1>3, <1>4, <1>5 DEF CountInv, MetricsMatch, Begun

\* The counters are what they count, for any number of spans and calls
\* (_startInternalSpan and _report of tracer.js).
THEOREM CountersMatch == Spec => []MetricsMatch
<1>1. Init => IInv /\ CountInv
  BY InitInv, InitCount
<1>2. IInv /\ CountInv /\ [Next]_vars => (IInv /\ CountInv)'
  BY StepKeepsInv, StepKeepsCount
<1>3. IInv /\ CountInv => MetricsMatch
  BY DEF CountInv
<1> QED BY <1>1, <1>2, <1>3, PTL DEF Spec

===============================================================================
