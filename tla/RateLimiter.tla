------------------------------ MODULE RateLimiter ------------------------------
(***************************************************************************)
(* src/rate_limiter.js: a leaky bucket.  Its balance grows with the clock, *)
(* up to a maximum, and an item that costs no more than the balance is     *)
(* paid from it.  The operators take a limiter and return it changed.      *)
(*                                                                         *)
(* A credit is CreditUnit units and time is counted in ticks: both are     *)
(* floating point numbers in the code.                                     *)
(***************************************************************************)
EXTENDS Integers

CONSTANTS
  CreditUnit,           \* units of one credit, the cost of one sample
  Second                \* ticks of one second

ASSUME RateLimiterAssumption ==
  /\ CreditUnit \in Nat \ {0}
  /\ Second \in Nat \ {0}

Least(x, y) == IF x <= y THEN x ELSE y

\* rate is _creditsPerSecond, as units per tick.
Limiter == [balance : Int, max : Nat \ {0}, rate : Nat, tick : Nat]

\* The balance at clock `now`, with nothing paid since lastTick.
BalanceAt(l, now) == Least(l.balance + (now - l.tick) * l.rate, l.max)

\* Mutant: lastTick only moves when something is paid.
Ticked_Never(l, now) == [l EXCEPT !.balance = BalanceAt(l, now)]

\* _updateBalance.  A clock that was set back takes from the balance.
Ticked(l, now) == [l EXCEPT !.balance = BalanceAt(l, now), !.tick = now]

\* Mutant: off by one, the balance must exceed the cost.
Affordable_More(balance) == balance > CreditUnit

\* checkCredit: the balance covers the item.
Affordable(balance) == balance >= CreditUnit

\* checkCredit, when it is paid.
Paid(l, now) == [Ticked(l, now) EXCEPT !.balance = @ - CreditUnit]

\* The same proportion of a different maximum; the model rounds down.
Scaled(balance, from, to) == (to * balance) \div from

\* update
Adjusted(l, rate, max, now) ==
  [balance |-> Scaled(BalanceAt(l, now), l.max, max),
   max |-> max, rate |-> rate, tick |-> now]

===============================================================================
