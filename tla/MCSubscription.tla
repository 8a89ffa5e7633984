--------------------------- MODULE MCSubscription ---------------------------
\* Small instances of Subscription for TLC.
EXTENDS Subscription

\* Two tariffs, the days scaled down.
ShortPlans == [monthly |-> 2, yearly |-> 3]
PlanNames == {"monthly", "yearly"}
=============================================================================
