---------------------------- MODULE Subscription ----------------------------
(***************************************************************************)
(* The paid subscription of one tutor: service/subscription.go over        *)
(* repository/subscription.go.                                             *)
(*                                                                         *)
(* Every server instance runs RenewDue when it starts and then daily: for  *)
(* each subscription that is due it settles the unfinished attempts of     *)
(* earlier days, claims today's attempt by inserting a row and charges the *)
(* card.  Meanwhile the tutor pays, cancels or changes the plan, and the   *)
(* payment provider delivers callbacks.  Each statement and each call of   *)
(* the provider is a step.  The subscriptions of a run do not touch each   *)
(* other: those that a run serves before this tutor's only make it late.   *)
(***************************************************************************)
EXTENDS Integers, FiniteSets

CONSTANTS Instances,     \* server processes
          Plans,         \* the tariffs
          planDays,      \* the days each of them lasts: 30 and 365
          NoPlan,        \* NULL, a trial or no change of plan
          NoOrder,       \* no order in hand
          TrialDays,     \* the trial: 30 days
          DunningDays,   \* how long after its end a period is retried: 8 days
          MaxDay,        \* bound: days
          MaxCheckouts   \* bound: checkouts

\* A period is longer than the time in which its predecessor is retried.
ASSUME SubscriptionAssumption ==
  /\ planDays \in [Plans -> Nat]
  /\ \A plan \in Plans : planDays[plan] >= DunningDays
  /\ NoPlan \notin Plans
  /\ TrialDays \in Nat /\ DunningDays \in Nat \ {0}
  /\ MaxDay \in Nat /\ MaxCheckouts \in Nat

Days == 0..MaxDay

\* order_id: "tutor:period end:today" for a renewal, random for a checkout.
Renewals == [end : Nat, day : Days]
Checkouts == [checkout : 1..MaxCheckouts]
Orders == Renewals \cup Checkouts

VARIABLES
  day,       \* today
  sub,       \* the row of table subscriptions
  payments,  \* table subscription_payments, by order_id
  provider,  \* what the payment provider knows of each order (external)
  job        \* where RenewDue is on each instance, and its local variables

vars == <<day, sub, payments, provider, job>>

\* autopay and card_token are only ever set and cleared together.
Subscriptions ==
  [plan : Plans \cup {NoPlan}, end : Nat, autopay : BOOLEAN, pending : Plans \cup {NoPlan}]
Payments == [plan : Plans, status : {"pending", "success", "failed"}]

\* "none": never heard of.  "asked": neither taken nor declined yet.
Fates == {"none", "asked", "taken", "declined"}

Stages == {"off", "listed", "checking", "charging", "asking", "closing", "activating"}
Jobs == [at : Stages, due : Subscriptions, today : Days,
         prior : SUBSET Renewals, order : Renewals \cup {NoOrder}]

Trial == [plan |-> NoPlan, end |-> TrialDays, autopay |-> FALSE, pending |-> NoPlan]
Off == [at |-> "off", due |-> Trial, today |-> 0, prior |-> {}, order |-> NoOrder]

TypeOK ==
  /\ day \in Days
  /\ sub \in Subscriptions
  /\ DOMAIN payments \subseteq Orders /\ DOMAIN provider = DOMAIN payments
  /\ \A o \in DOMAIN payments : payments[o] \in Payments /\ provider[o] \in Fates
  /\ job \in [Instances -> Jobs]

\* CreateTrialTx
Init ==
  /\ day = 0
  /\ sub = Trial
  /\ payments = <<>> /\ provider = <<>>
  /\ job = [i \in Instances |-> Off]

-----------------------------------------------------------------------------
(* The statements of repository/subscription.go *)

Put(f, x, v) == [y \in DOMAIN f \cup {x} |-> IF y = x THEN v ELSE f[y]]

InsertPendingPayment(o, plan, fate) ==
  /\ payments' = Put(payments, o, [plan |-> plan, status |-> "pending"])
  /\ provider' = Put(provider, o, fate)

MarkPaymentFailed(o) ==
  payments' = IF payments[o].status = "pending"
              THEN [payments EXCEPT ![o].status = "failed"] ELSE payments

\* Mutant: the condition on the status is missing.
MarkSuccessAlways(o, paid) ==
  /\ payments' = [payments EXCEPT ![o].status = "success"]
  /\ sub' = paid

\* MarkSuccessAndStartPeriod, MarkSuccessAndRenew: one transaction, without
\* effect if the row is settled already.
MarkSuccess(o, paid) ==
  IF payments[o].status = "pending"
  THEN payments' = [payments EXCEPT ![o].status = "success"] /\ sub' = paid
  ELSE UNCHANGED <<payments, sub>>

-----------------------------------------------------------------------------
(* RenewDue *)

To(i, stage) == job' = [job EXCEPT ![i].at = stage]
End(i) == job' = [job EXCEPT ![i] = Off]

\* ListDueAutopay, and the date that will be in the key of the attempt.
ListDueAutopay(i) ==
  /\ job[i].at = "off"
  /\ sub.autopay /\ sub.end <= day /\ day < sub.end + DunningDays
  /\ job' = [job EXCEPT ![i] = [Off EXCEPT !.at = "listed", !.due = sub, !.today = day]]
  /\ UNCHANGED <<day, sub, payments, provider>>

TodaysOrder(i) == [end |-> job[i].due.end, day |-> job[i].today]

\* Mutant: earlier attempts are not looked at.
NoPriorPayments(i) ==
  /\ job[i].at = "listed"
  /\ job' = [job EXCEPT ![i].at = "checking"]
  /\ UNCHANGED <<day, sub, payments, provider>>

\* ListPeriodPayments: the attempts of other days that are still open.
ListPeriodPayments(i) ==
  /\ job[i].at = "listed"
  /\ job' = [job EXCEPT
       ![i].at = "checking",
       ![i].prior = {o \in DOMAIN payments \cap Renewals :
                       /\ o.end = job[i].due.end /\ o # TodaysOrder(i)
                       /\ payments[o].status = "pending"}]
  /\ UNCHANGED <<day, sub, payments, provider>>

\* What CheckStatus may answer: the truth, once there is one, or nothing.
CheckStatus(o) ==
  {"unknown"} \cup (IF provider[o] = "taken" THEN {"success"} ELSE {})
              \cup (IF provider[o] = "declined" THEN {"failed"} ELSE {})

\* Mutant: no answer is taken for a failed payment.
UnknownIsFailed(answer) == IF answer = "success" THEN "activating" ELSE "closing"

\* Only a definite answer settles an attempt.
Verdict(answer) ==
  CASE answer = "success" -> "activating"
    [] answer = "failed"  -> "closing"
    [] OTHER              -> "off"

\* The answer about order o decides how the run goes on.
Settle(i, o) ==
  /\ \E answer \in CheckStatus(o) :
       job' = [job EXCEPT ![i] = IF Verdict(answer) = "off" THEN Off
                                 ELSE [@ EXCEPT !.at = Verdict(answer), !.order = o]]
  /\ UNCHANGED <<day, sub, payments, provider>>

\* Recovery of an earlier day's attempt.
CheckPrior(i) ==
  job[i].at = "checking" /\ \E o \in job[i].prior : Settle(i, o)

\* MarkPaymentFailed; its error is ignored.  The run goes on with the other
\* attempts, or is over if this was its own.
Close(i) ==
  LET o == job[i].order IN
  /\ job[i].at = "closing"
  /\ MarkPaymentFailed(o) \/ UNCHANGED payments
  /\ IF o = TodaysOrder(i) THEN End(i)
     ELSE job' = [job EXCEPT ![i].at = "checking", ![i].order = NoOrder, ![i].prior = @ \ {o}]
  /\ UNCHANGED <<day, sub, provider>>

\* The plan of the next period.
NextPlan(due) == IF due.pending # NoPlan THEN due.pending ELSE due.plan

\* INSERT ... ON CONFLICT DO NOTHING: whoever inserts today's row charges.
Claim(i) ==
  LET o == TodaysOrder(i) IN
  /\ job[i].at = "checking" /\ job[i].prior = {}
  /\ IF o \in DOMAIN payments
     THEN End(i) /\ UNCHANGED <<payments, provider>>
     ELSE /\ InsertPendingPayment(o, NextPlan(job[i].due), "none")
          /\ job' = [job EXCEPT ![i].at = "charging", ![i].order = o]
  /\ UNCHANGED <<day, sub>>

\* The provider takes the money, or the call fails: declined, timed out before
\* or after it was decided, or never received.
Charge(i) ==
  LET o == job[i].order IN
  /\ job[i].at = "charging"
  /\ \/ provider' = [provider EXCEPT ![o] = "taken"] /\ To(i, "activating")
     \/ \E fate \in Fates :
          provider' = [provider EXCEPT ![o] = fate] /\ To(i, "asking")
  /\ UNCHANGED <<day, sub, payments>>

\* Reconciliation after a failed call.
CheckCharge(i) == job[i].at = "asking" /\ Settle(i, job[i].order)

\* The period is counted from the end that was read when the run began.
MarkSuccessAndRenew(i) ==
  LET o == job[i].order
      plan == payments[o].plan
  IN
  /\ job[i].at = "activating"
  /\ MarkSuccess(o, [sub EXCEPT !.plan = plan, !.pending = NoPlan,
                                !.end = job[i].due.end + planDays[plan]])
  /\ End(i)
  /\ UNCHANGED <<day, provider>>

\* A statement fails and the tutor is left for the next run, or the process
\* dies.
Stop(i) ==
  /\ job[i].at # "off" /\ End(i)
  /\ UNCHANGED <<day, sub, payments, provider>>

-----------------------------------------------------------------------------
(* The tutor, the provider and the clock *)

\* Checkout: a row, then InitPayment, which may fail.
Checkout(o, plan) ==
  /\ o \notin DOMAIN payments
  /\ \E fate \in {"none", "asked"} : InsertPendingPayment(o, plan, fate)
  /\ UNCHANGED <<day, sub, job>>

Cancel ==
  /\ sub' = [sub EXCEPT !.autopay = FALSE, !.pending = NoPlan]
  /\ UNCHANGED <<day, payments, provider, job>>

ChangePlan(plan) ==
  /\ sub' = [sub EXCEPT !.pending = plan]
  /\ UNCHANGED <<day, payments, provider, job>>

\* External: a payment that was asked for is decided.
Decide(o) ==
  /\ provider[o] = "asked"
  /\ \E fate \in {"taken", "declined"} : provider' = [provider EXCEPT ![o] = fate]
  /\ UNCHANGED <<day, sub, payments, job>>

\* HandleWebhook: the provider reports a checkout, late, or more than once.
HandleWebhook(o) ==
  LET plan == payments[o].plan IN
  /\ \/ /\ provider[o] = "taken"
        /\ MarkSuccess(o, [plan |-> plan, end |-> day + planDays[plan],
                           autopay |-> TRUE, pending |-> NoPlan])
     \/ provider[o] = "declined" /\ MarkPaymentFailed(o) /\ UNCHANGED sub
  /\ UNCHANGED <<day, provider, job>>

NextDay ==
  /\ day < MaxDay
  /\ day' = day + 1
  /\ UNCHANGED <<sub, payments, provider, job>>

RenewDue(i) ==
  \/ ListDueAutopay(i) \/ ListPeriodPayments(i) \/ CheckPrior(i) \/ Close(i)
  \/ Claim(i) \/ Charge(i) \/ CheckCharge(i) \/ MarkSuccessAndRenew(i) \/ Stop(i)

Next ==
  \/ \E i \in Instances : RenewDue(i)
  \/ \E o \in Checkouts, plan \in Plans : Checkout(o, plan)
  \/ \E o \in DOMAIN payments : Decide(o)
  \/ \E o \in DOMAIN payments \cap Checkouts : HandleWebhook(o)
  \/ \E plan \in Plans : ChangePlan(plan)
  \/ Cancel \/ NextDay

Spec == Init /\ [][Next]_vars
-----------------------------------------------------------------------------
(* Properties *)

\* The card is charged at most once for a period, whichever answers get lost,
\* wherever the process dies and however long a run takes.  The design wants
\* this of any number of instances that run the job at once; it holds of one.
\* The types go along.
NoDoubleCharge ==
  TypeOK /\ \A o, u \in DOMAIN payments \cap Renewals :
    (o.end = u.end /\ provider[o] = "taken" /\ provider[u] = "taken") => o = u

\* Nobody is given a period for which no money was taken, and a row that is
\* closed as failed has no money behind it.
SettledByTruth ==
  \A o \in DOMAIN payments :
    /\ payments[o].status = "success" => provider[o] = "taken"
    /\ payments[o].status = "failed" => provider[o] = "declined"

\* One payment buys one period: the end moves only in a step that settles a
\* payment that was open, however often a callback or a recovery repeats it.
OnePeriodPerPayment ==
  [][sub'.end # sub.end =>
       \E o \in DOMAIN payments :
         payments[o].status = "pending" /\ payments'[o].status = "success"]_vars

\* Not a property of the code, though the design promises that a new plan
\* applies with the next charge: a choice would be dropped only by Cancel, by a
\* new checkout or because it took effect; a renewal under way drops it too.
PlanChangeIsApplied ==
  [][\A i \in Instances :
       (MarkSuccessAndRenew(i) /\ sub.pending # NoPlan /\ sub'.pending = NoPlan)
         => sub'.plan = sub.pending]_vars
=============================================================================
