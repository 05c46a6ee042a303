---------------------------- MODULE RemoteThrottler ----------------------------
(***************************************************************************)
(* src/throttler/remote_throttler.js: debug spans of an operation are      *)
(* allowed against credits that the agent grants.  isAllowed() spends one  *)
(* credit; a timer asks the agent for the credits of every known operation *)
(* and the answers, which may overtake each other, be malformed, be lost   *)
(* or come after close(), are added to what is left.                       *)
(*                                                                         *)
(* Credits are counted in fractions of UNIT_CREDIT, Unit of them to one.   *)
(* The agent is the environment.  An answer is what its entries, up to one *)
(* that throws, add up to for each operation they name, asked for or not:  *)
(* a balance, or NaN if one of them has none.  Balances are numbers, and   *)
(* the names of operations can be URL-encoded (line 130).                  *)
(***************************************************************************)
EXTENDS Integers, FiniteSets

CONSTANTS
  Operation,            \* names of operations
  Inherited,            \* those that are also names on Object.prototype, such
                        \* as 'constructor': `operation in {}` holds for them
  Accessor,             \* of those, '__proto__': what is assigned to it is
                        \* neither an object nor null, and is ignored
  Unit,                 \* UNIT_CREDIT in the fraction credits are counted in
  Balance,              \* balances the agent grants
  MaxOutstanding,       \* bound of the model: fetches not yet answered
  MaxGranted,           \* bound of the model: credits granted to an operation
  MaxFree               \* bound of the model: debug spans of an Accessor

ASSUME ThrottlerAssumption ==
  /\ Inherited \subseteq Operation
  /\ Accessor \subseteq Inherited
  /\ Unit \in Nat \ {0}
  /\ Balance \subseteq Nat
  /\ MaxOutstanding \in Nat \ {0}
  /\ MaxGranted \in Nat
  /\ MaxFree \in Nat

VARIABLES
  timer,                \* initial delay, running interval, or closed
  uuid,                 \* whether setProcess gave a uuid
  known,                \* own keys of _credits
  credits,              \* _credits[op], 0 when it is no number
  nan,                  \* operations whose _credits[op] is NaN
  fetches,              \* outstanding fetches: the operations each asks for
  allowed,              \* history: debug spans allowed so far
  granted               \* history: credits the answers brought

throttlerVars == <<timer, uuid, known, credits, nan, fetches, allowed, granted>>

Slot == 1..MaxOutstanding

-------------------------------------------------------------------------------

\* setProcess(), by Tracer's constructor.
SetProcess ==
  /\ ~uuid
  /\ uuid' = TRUE
  /\ UNCHANGED <<timer, known, credits, nan, fetches, allowed, granted>>

\* isAllowed(): an operation that is not `in` _credits is remembered, refused.
FirstAsked(op) ==
  /\ op \notin known \cup Inherited
  /\ known' = known \cup {op}
  /\ UNCHANGED <<timer, uuid, credits, nan, fetches, allowed, granted>>

\* A unit of credit is left.
HasCredit(op) == credits[op] >= Unit

\* Mutant: what is left is not written back.
LeftAfter_Same(credit) == credit

\* What is left of a credit once a debug span is allowed.
LeftAfter(credit) == credit - Unit

\* _isAllowed(): a unit of credit is left and is spent.
Spend(op) ==
  /\ op \in known \ (nan \cup Inherited)
  /\ HasCredit(op)
  /\ credits' = [credits EXCEPT ![op] = LeftAfter(@)]
  /\ allowed' = [allowed EXCEPT ![op] = @ + 1]
  /\ UNCHANGED <<timer, uuid, known, nan, fetches, granted>>

\* The own key, if any, that an assignment to _credits[op] makes.
KeptBy(op) == {op} \ Accessor

\* _isAllowed() of a name found on Object.prototype: its "credits" are what
\* is inherited, or the text an answer made of it, and not below the unit.
\* What is left is NaN; an Accessor does not keep even that.
SpendInherited(op) ==
  /\ op \in Inherited \ nan
  /\ op \in Accessor => allowed[op] < MaxFree
  /\ known' = known \cup KeptBy(op)
  /\ nan' = nan \cup KeptBy(op)
  /\ allowed' = [allowed EXCEPT ![op] = @ + 1]
  /\ UNCHANGED <<timer, uuid, credits, fetches, granted>>

\* _isAllowed(): not a unit of credit left, or NaN, which `|| 0` makes 0.
Refused(op) ==
  /\ op \in known
  /\ op \in nan \/ (op \notin Inherited /\ ~HasCredit(op))
  /\ UNCHANGED throttlerVars

IsAllowed(op) == FirstAsked(op) \/ Spend(op) \/ SpendInherited(op) \/ Refused(op)

\* Mutant: only operations that are out of credit are asked for.
Asked_OutOfCredit == {op \in known : ~HasCredit(op)}

\* The operations whose credits are asked for.
Asked == known

\* _refreshCredits(): asks, if there is something to ask for and the uuid is
\* set; the answer comes later.
FetchCredits ==
  IF uuid /\ Asked # {}
  THEN \E i \in Slot : /\ fetches[i] = {}
                       /\ fetches' = [fetches EXCEPT ![i] = Asked]
  ELSE UNCHANGED fetches

\* The initial delay is over: a first refresh, then one per interval.
AfterInitialDelay ==
  /\ timer = "initial"
  /\ timer' = "running"
  /\ FetchCredits
  /\ UNCHANGED <<uuid, known, credits, nan, allowed, granted>>

Refresh ==
  /\ timer = "running"
  /\ FetchCredits
  /\ UNCHANGED <<timer, uuid, known, credits, nan, allowed, granted>>

\* Mutant: the balances replace what is left.
Increment_Replace(old, balance) == balance

\* _incrementCredits() for one operation.
Increment(old, balance) == old + balance

\* What answers bring: a balance for some operations.  An entry for an
\* Accessor has no effect.
Balances == UNION {[ops -> Balance] : ops \in SUBSET (Operation \ Accessor)}

\* An answer to fetch i brings `balance`.  NaN is what becomes of the `spoilt`
\* and of a key that is new, undefined + balance; a NaN stays one: what is
\* brought is lost.  A name on Object.prototype becomes a text and stays one.
Answer(i, balance, spoilt) ==
  LET entries == DOMAIN balance
  IN /\ fetches[i] # {}
     /\ \A op \in entries : granted[op] + balance[op] <= MaxGranted
     /\ fetches' = [fetches EXCEPT ![i] = {}]
     /\ known' = known \cup entries
     /\ nan' = nan \cup ((spoilt \cup (entries \ known)) \ Inherited)
     /\ credits' = [op \in Operation |-> IF op \in entries \ (nan' \cup Inherited)
                      THEN Increment(credits[op], balance[op]) ELSE credits[op]]
     /\ granted' = [op \in Operation |-> IF op \in entries
                      THEN granted[op] + balance[op] ELSE granted[op]]
     /\ UNCHANGED <<timer, uuid, allowed>>

\* The request failed, its answer is not JSON or has no balances, or the
\* connection closed before the end of the answer (then without an event).
FetchFailed(i) ==
  /\ fetches[i] # {}
  /\ fetches' = [fetches EXCEPT ![i] = {}]
  /\ UNCHANGED <<timer, uuid, known, credits, nan, allowed, granted>>

\* close(), once or again: timers are cleared, fetches are not aborted.
Close ==
  /\ timer' = "closed"
  /\ UNCHANGED <<uuid, known, credits, nan, fetches, allowed, granted>>

-------------------------------------------------------------------------------

ThrottlerInit ==
  /\ timer = "initial"
  /\ uuid = FALSE
  /\ known = {}
  /\ credits = [op \in Operation |-> 0]
  /\ nan = {}
  /\ fetches = [i \in Slot |-> {}]
  /\ allowed = [op \in Operation |-> 0]
  /\ granted = [op \in Operation |-> 0]

FetchEnds(i) ==
  \/ FetchFailed(i)
  \/ \E balance \in Balances : \E spoilt \in SUBSET DOMAIN balance :
       Answer(i, balance, spoilt)

ThrottlerNext ==
  \/ SetProcess
  \/ \E op \in Operation : IsAllowed(op)
  \/ AfterInitialDelay
  \/ Refresh
  \/ \E i \in Slot : FetchEnds(i)
  \/ Close

ThrottlerSpec == ThrottlerInit /\ [][ThrottlerNext]_throttlerVars

\* The tracer sets the process, timers fire until close(), requests end.
ThrottlerFairness ==
  /\ WF_throttlerVars(SetProcess)
  /\ WF_throttlerVars(AfterInitialDelay)
  /\ WF_throttlerVars(Refresh)
  /\ \A i \in Slot : WF_throttlerVars(FetchEnds(i))

ThrottlerFairSpec == ThrottlerSpec /\ ThrottlerFairness

-------------------------------------------------------------------------------

ThrottlerTypeOK ==
  /\ timer \in {"initial", "running", "closed"}
  /\ uuid \in BOOLEAN
  /\ known \subseteq Operation \ Accessor
  /\ credits \in [Operation -> Nat]
  /\ nan \subseteq known
  /\ fetches \in [Slot -> SUBSET known]
  /\ allowed \in [Operation -> Nat]
  /\ granted \in [Operation -> Nat]

\* No credit is lost or made up, whatever fetches overlap with decisions: what
\* the agent granted to an operation has been spent or is left, unless its
\* credits are no number (remote_throttler.js _isAllowed, _incrementCredits).
CreditsConserved ==
  \A op \in Operation \ (nan \cup Inherited) : granted[op] = credits[op] + Unit * allowed[op]

\* No more debug spans are allowed than the agent granted credits for.  A name
\* on Object.prototype gets one for nothing, and '__proto__' any number: of it
\* nothing is said (remote_throttler.js isAllowed).
DebugWithinGrant ==
  \A op \in Operation \ Accessor :
    Unit * allowed[op] <= granted[op] + IF op \in Inherited THEN Unit ELSE 0

\* An operation that was refused is asked for in the end, if the throttler
\* is not closed before (remote_throttler.js isAllowed: "Credits for the
\* operation will be asynchronously fetched").
CreditsAreFetched ==
  \A op \in Operation :
    op \in known ~> (timer = "closed" \/ \E i \in Slot : op \in fetches[i])

===============================================================================
