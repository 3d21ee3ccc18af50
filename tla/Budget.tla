------------------------------- MODULE Budget -------------------------------
(***************************************************************************)
(* probe/privacy.py, class DPAccountant: the account kept for one probe.   *)
(* Pure operators on the pair (current_spend, window_start_time).          *)
(***************************************************************************)
EXTENDS Integers

CONSTANTS
  DailyBudget,   \* daily_budget, in units of epsilon
  Epsilon,       \* FLUSH_EPSILON
  Day            \* 24 hours in units of the model's clock

ASSUME BudgetAssumption ==
  /\ Epsilon \in Nat \ {0}
  /\ DailyBudget \in Nat /\ DailyBudget >= Epsilon
  /\ Day \in Nat \ {0}

Account == [spent : 0 .. DailyBudget, start : Nat]

Fresh(now) == [spent |-> 0, start |-> now]

DueLate(acct, now) == now - acct.start > Day

\* The window is due when a full day has passed since it began.
Due(acct, now) == now - acct.start >= Day

ResetIfNeeded(acct, now) == IF Due(acct, now) THEN Fresh(now) ELSE acct

AffordableBefore(acct) == acct.spent <= DailyBudget

\* spend() refuses before it changes anything.
Affordable(acct) == acct.spent + Epsilon <= DailyBudget

Charged(acct) == [acct EXCEPT !.spent = @ + Epsilon]

\* Flushes that fit in one window.
FlushesPerWindow == DailyBudget \div Epsilon

\* recommended_flush_interval_seconds, rounded up to the clock's unit.
RecommendedInterval == (Day + FlushesPerWindow - 1) \div FlushesPerWindow
=============================================================================
