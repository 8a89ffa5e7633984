--------------------------- MODULE PaymentProofs -----------------------------
(***************************************************************************)
(* What holds of money.  Subscription: MoneyInv holds of any number of     *)
(* instances, what is settled is settled by the provider's word; OnceInv   *)
(* needs that only one instance runs the job, a period is charged once.    *)
(* TutorScreens: what the screens of payments, students and courses show   *)
(* as fresh is right in all that the hooks promise to refresh, and one     *)
(* opening of the payment form makes one payment.                          *)
(***************************************************************************)
EXTENDS Subscription, TutorScreens, TLAPS

-----------------------------------------------------------------------------
(* Subscription: the parts of the invariants *)

\* Renewals among the rows of subscription_payments.
Attempts == DOMAIN payments \cap Renewals

\* Who pays by himself has a plan, also the one whom a run has read.
PayersHavePlans ==
  /\ sub.autopay => sub.plan \in Plans
  /\ \A i \in Instances : job[i].at # "off" => job[i].due.plan \in Plans

\* The rows a run holds exist.
RunsHoldRows ==
  \A i \in Instances :
    /\ job[i].prior \subseteq DOMAIN payments
    /\ job[i].at \in {"charging", "asking", "closing", "activating"} => job[i].order \in Attempts

\* Whoever inserted a row charges it, and nobody else does.
ClaimerCharges ==
  \A i \in Instances : job[i].at = "charging" =>
    /\ provider[job[i].order] = "none"
    /\ \A j \in Instances : (job[j].at = "charging" /\ job[j].order = job[i].order) => i = j

\* A run settles an attempt on the provider's word.
RunsKnowFates ==
  \A i \in Instances :
    /\ job[i].at = "activating" => provider[job[i].order] = "taken"
    /\ job[i].at = "closing" => provider[job[i].order] = "declined"

MoneyInv ==
  /\ TypeOK /\ PayersHavePlans /\ RunsHoldRows /\ ClaimerCharges /\ RunsKnowFates
  /\ SettledByTruth

\* A period is not charged before it has ended.
ChargedWhenDue ==
  /\ \A o \in Attempts : o.end <= day
  /\ \A i \in Instances : job[i].at # "off" => job[i].due.end <= day

\* A renewal that was settled moved the end, and a run that began later began
\* with a later end.
RenewedMovesEnd ==
  \A o \in Attempts : payments[o].status = "success" =>
    /\ o.end < sub.end
    /\ \A i \in Instances : job[i].at # "off" => o.end < job[i].due.end

\* What a run settles is of the period it renews.
RunsStayInPeriod ==
  \A i \in Instances :
    /\ \A o \in job[i].prior : o.end = job[i].due.end
    /\ job[i].at \in {"charging", "asking", "closing", "activating"} =>
         job[i].order.end = job[i].due.end

\* Past the listing, the other attempts of the period are in hand or declined.
OthersInHand ==
  \A i \in Instances : job[i].at \notin {"off", "listed"} =>
    \A o \in Attempts :
      (o.end = job[i].due.end /\ o # TodaysOrder(i)) => o \in job[i].prior \/ provider[o] = "declined"

\* Of two attempts at a period one is declined.
OneOpenAttempt ==
  \A o, u \in Attempts :
    (o.end = u.end /\ o # u) => provider[o] = "declined" \/ provider[u] = "declined"

OnceInv ==
  /\ MoneyInv /\ ChargedWhenDue /\ RenewedMovesEnd /\ RunsStayInPeriod
  /\ OthersInHand /\ OneOpenAttempt
-----------------------------------------------------------------------------
(* Lemmas about the operators *)

\* The key of a renewal is never the key of a checkout.
LEMMA OrdersApart == ASSUME NEW o \in Renewals PROVE o \notin Checkouts
  <1>1. DOMAIN o = {"end", "day"}
    BY DEF Renewals
  <1>2. o \in Checkouts => DOMAIN o = {"checkout"}
    BY DEF Checkouts
  <1>3. "end" # "checkout"
    OBVIOUS
  <1>4. QED
    BY <1>1, <1>2, <1>3

\* Settling a row changes its status and nothing else.
LEMMA MarkedRow ==
  ASSUME TypeOK, NEW o \in DOMAIN payments, NEW s \in {"success", "failed"},
         payments' = [payments EXCEPT ![o].status = s]
  PROVE  /\ DOMAIN payments' = DOMAIN payments
         /\ payments'[o].status = s /\ payments'[o].plan = payments[o].plan
         /\ payments'[o] \in Payments
         /\ \A u \in DOMAIN payments \ {o} : payments'[u] = payments[u]
  BY DEF TypeOK, Payments

\* A row that is entered.
LEMMA EnteredRow ==
  ASSUME TypeOK, NEW o \in Orders \ DOMAIN payments, NEW plan \in Plans, NEW fate \in Fates,
         InsertPendingPayment(o, plan, fate)
  PROVE  /\ DOMAIN payments' = DOMAIN payments \cup {o} /\ DOMAIN provider' = DOMAIN payments'
         /\ payments'[o] = [plan |-> plan, status |-> "pending"] /\ provider'[o] = fate
         /\ \A u \in DOMAIN payments : payments'[u] = payments[u] /\ provider'[u] = provider[u]
         /\ DOMAIN payments' \subseteq Orders
         /\ \A u \in DOMAIN payments' : payments'[u] \in Payments /\ provider'[u] \in Fates
  <1>1. /\ DOMAIN payments' = DOMAIN payments \cup {o} /\ DOMAIN provider' = DOMAIN payments'
        /\ payments'[o] = [plan |-> plan, status |-> "pending"] /\ provider'[o] = fate
        /\ \A u \in DOMAIN payments : payments'[u] = payments[u] /\ provider'[u] = provider[u]
    <2>1. payments' = Put(payments, o, [plan |-> plan, status |-> "pending"])
          /\ provider' = Put(provider, o, fate)
      BY DEF InsertPendingPayment
    <2>2. /\ DOMAIN payments' = DOMAIN payments \cup {o}
          /\ payments'[o] = [plan |-> plan, status |-> "pending"]
          /\ \A u \in DOMAIN payments \ {o} : payments'[u] = payments[u]
      BY <2>1 DEF Put
    <2>3. /\ DOMAIN provider' = DOMAIN provider \cup {o} /\ provider'[o] = fate
          /\ \A u \in DOMAIN provider \ {o} : provider'[u] = provider[u]
      BY <2>1 DEF Put
    <2>4. QED
      BY <2>2, <2>3 DEF TypeOK
  <1>2. QED
    BY <1>1 DEF TypeOK, Payments

LEMMA OffType == Off \in Jobs /\ Trial \in Subscriptions
  BY SubscriptionAssumption DEF Off, Jobs, Trial, Subscriptions, Stages, Days
-----------------------------------------------------------------------------
(* MoneyInv *)

\* One run goes on to j; no fate that is known changes.
LEMMA RunGoesOn ==
  ASSUME MoneyInv, NEW i \in Instances, NEW j \in Jobs, job' = [job EXCEPT ![i] = j],
         DOMAIN payments \subseteq DOMAIN payments',
         \A o \in DOMAIN payments : provider'[o] = provider[o],
         j.at # "off" => j.due.plan \in Plans,
         j.prior \subseteq DOMAIN payments',
         j.at \in {"charging", "asking", "closing", "activating"} =>
           j.order \in DOMAIN payments' \cap Renewals,
         j.at = "charging" => provider'[j.order] = "none" /\ j.order \notin DOMAIN payments,
         j.at = "activating" => provider'[j.order] = "taken",
         j.at = "closing" => provider'[j.order] = "declined",
         sub'.autopay => sub'.plan \in Plans
  PROVE  /\ job' \in [Instances -> Jobs] /\ job'[i] = j
         /\ \A k \in Instances \ {i} : job'[k] = job[k]
         /\ PayersHavePlans' /\ RunsHoldRows' /\ ClaimerCharges' /\ RunsKnowFates'
  <1>1. /\ job' \in [Instances -> Jobs] /\ job'[i] = j
        /\ \A k \in Instances \ {i} : job'[k] = job[k]
    BY DEF MoneyInv, TypeOK
  <1>2. PayersHavePlans'
    BY <1>1 DEF MoneyInv, PayersHavePlans
  <1>3. RunsHoldRows'
    BY <1>1 DEF MoneyInv, RunsHoldRows, Attempts
  <1>4. \A k \in Instances : job[k].at \in {"charging", "closing", "activating"} =>
          job[k].order \in DOMAIN payments /\ provider'[job[k].order] = provider[job[k].order]
    BY DEF MoneyInv, RunsHoldRows, Attempts
  <1>5. ClaimerCharges'
    BY <1>1, <1>4 DEF MoneyInv, ClaimerCharges
  <1>6. RunsKnowFates'
    BY <1>1, <1>4 DEF MoneyInv, RunsKnowFates
  <1>7. QED
    BY <1>1, <1>2, <1>3, <1>5, <1>6

\* The same, where nothing else happens.
LEMMA OnlyTheRun ==
  ASSUME MoneyInv, NEW i \in Instances, NEW j \in Jobs, job' = [job EXCEPT ![i] = j],
         UNCHANGED <<day, sub, payments, provider>>,
         j.at # "off" => j.due.plan \in Plans,
         j.prior \subseteq DOMAIN payments,
         j.at \in {"asking", "closing", "activating"} => j.order \in Attempts,
         j.at # "charging",
         j.at = "activating" => provider[j.order] = "taken",
         j.at = "closing" => provider[j.order] = "declined"
  PROVE  MoneyInv'
  <1>1. /\ job' \in [Instances -> Jobs]
        /\ PayersHavePlans' /\ RunsHoldRows' /\ ClaimerCharges' /\ RunsKnowFates'
    BY RunGoesOn DEF Attempts, MoneyInv, PayersHavePlans
  <1>2. TypeOK' /\ SettledByTruth'
    BY <1>1 DEF MoneyInv, TypeOK, SettledByTruth
  <1>3. QED
    BY <1>1, <1>2 DEF MoneyInv

\* What each step of a run makes of the run.
LEMMA ListedRun ==
  ASSUME MoneyInv, NEW i \in Instances, ListDueAutopay(i)
  PROVE  \E j \in Jobs : /\ job' = [job EXCEPT ![i] = j]
                         /\ j.at = "listed" /\ j.due = sub /\ j.today = day /\ j.prior = {}
  <1> DEFINE j == [Off EXCEPT !.at = "listed", !.due = sub, !.today = day]
  <1>1. j \in Jobs /\ j.at = "listed" /\ j.due = sub /\ j.today = day /\ j.prior = {}
    BY OffType DEF MoneyInv, TypeOK, Jobs, Stages, Off
  <1>2. job' = [job EXCEPT ![i] = j]
    BY DEF ListDueAutopay
  <1>3. QED
    BY <1>1, <1>2

\* The attempts of other days at the same period that are still open.
Open(i) == {o \in Attempts : /\ o.end = job[i].due.end /\ o # TodaysOrder(i)
                             /\ payments[o].status = "pending"}

LEMMA CheckedRun ==
  ASSUME MoneyInv, NEW i \in Instances, ListPeriodPayments(i)
  PROVE  \E j \in Jobs : /\ job' = [job EXCEPT ![i] = j]
                         /\ j.at = "checking" /\ j.due = job[i].due /\ j.today = job[i].today
                         /\ j.prior = Open(i)
  <1> DEFINE j == [job[i] EXCEPT !.at = "checking", !.prior = Open(i)]
  <1>1. Open(i) \subseteq Renewals
    BY DEF Open, Attempts
  <1>2. j \in Jobs /\ j.at = "checking" /\ j.due = job[i].due /\ j.today = job[i].today
        /\ j.prior = Open(i)
    BY <1>1 DEF MoneyInv, TypeOK, Jobs, Stages
  <1>3. job' = [job EXCEPT ![i] = j]
    BY DEF ListPeriodPayments, Open, Attempts
  <1>4. QED
    BY <1>2, <1>3

\* The answer about o is the truth or nothing.
LEMMA SettledRun ==
  ASSUME MoneyInv, NEW i \in Instances, NEW o \in Attempts, Settle(i, o), job[i].at # "off"
  PROVE  \/ job' = [job EXCEPT ![i] = Off]
         \/ \E j \in Jobs : /\ job' = [job EXCEPT ![i] = j]
                            /\ \/ j.at = "activating" /\ provider[o] = "taken"
                               \/ j.at = "closing" /\ provider[o] = "declined"
                            /\ j.due = job[i].due /\ j.today = job[i].today
                            /\ j.prior = job[i].prior /\ j.order = o
  <1>1. PICK answer \in CheckStatus(o) :
          job' = [job EXCEPT ![i] = IF Verdict(answer) = "off" THEN Off
                                    ELSE [@ EXCEPT !.at = Verdict(answer), !.order = o]]
    BY DEF Settle
  <1>2. \/ Verdict(answer) = "off"
        \/ Verdict(answer) = "activating" /\ provider[o] = "taken"
        \/ Verdict(answer) = "closing" /\ provider[o] = "declined"
    BY DEF CheckStatus, Verdict
  <1> DEFINE j == [job[i] EXCEPT !.at = Verdict(answer), !.order = o]
  <1>3. CASE Verdict(answer) = "off"
    BY <1>1, <1>3
  <1>4. CASE Verdict(answer) \in {"activating", "closing"}
    <2>1. job' = [job EXCEPT ![i] = j]
      BY <1>1, <1>4
    <2>2. /\ j \in Jobs /\ j.at = Verdict(answer) /\ j.order = o
          /\ j.due = job[i].due /\ j.today = job[i].today /\ j.prior = job[i].prior
      BY <1>4 DEF MoneyInv, TypeOK, Jobs, Stages, Attempts
    <2>3. QED
      BY <1>2, <1>4, <2>1, <2>2
  <1>5. QED
    BY <1>2, <1>3, <1>4

\* An attempt is closed, or stays open because the statement failed.
LEMMA ClosedRun ==
  ASSUME MoneyInv, NEW i \in Instances, Close(i)
  PROVE  LET o == job[i].order IN
         /\ o \in Attempts /\ provider[o] = "declined"
         /\ \/ payments' = payments
            \/ payments[o].status = "pending" /\ payments' = [payments EXCEPT ![o].status = "failed"]
         /\ \/ job' = [job EXCEPT ![i] = Off]
            \/ \E j \in Jobs : /\ job' = [job EXCEPT ![i] = j]
                               /\ j.at = "checking" /\ j.due = job[i].due /\ j.today = job[i].today
                               /\ j.prior = job[i].prior \ {o}
  <1> DEFINE o == job[i].order
             j == [job[i] EXCEPT !.at = "checking", !.order = NoOrder, !.prior = @ \ {o}]
  <1>1. o \in Attempts /\ provider[o] = "declined"
    BY DEF Close, MoneyInv, RunsHoldRows, RunsKnowFates
  <1>2. \/ payments' = payments
        \/ payments[o].status = "pending" /\ payments' = [payments EXCEPT ![o].status = "failed"]
    BY DEF Close, MarkPaymentFailed
  <1>3. /\ j \in Jobs /\ j.at = "checking" /\ j.due = job[i].due /\ j.today = job[i].today
        /\ j.prior = job[i].prior \ {o}
    BY DEF MoneyInv, TypeOK, Jobs, Stages
  <1>4. job' = [job EXCEPT ![i] = Off] \/ job' = [job EXCEPT ![i] = j]
    BY DEF Close, End
  <1>5. QED
    BY <1>1, <1>2, <1>3, <1>4

\* Today's attempt is there already, or it is inserted and will be charged.
LEMMA ClaimedRun ==
  ASSUME MoneyInv, NEW i \in Instances, Claim(i)
  PROVE  LET o == TodaysOrder(i) IN
         \/ job' = [job EXCEPT ![i] = Off] /\ UNCHANGED <<payments, provider>>
         \/ /\ o \in Renewals \ DOMAIN payments /\ job[i].prior = {}
            /\ InsertPendingPayment(o, NextPlan(job[i].due), "none")
            /\ NextPlan(job[i].due) \in Plans
            /\ \E j \in Jobs : /\ job' = [job EXCEPT ![i] = j]
                               /\ j.at = "charging" /\ j.due = job[i].due /\ j.today = job[i].today
                               /\ j.prior = {} /\ j.order = o
  <1> DEFINE o == TodaysOrder(i)
             j == [job[i] EXCEPT !.at = "charging", !.order = o]
  <1>1. CASE o \in DOMAIN payments
    BY <1>1 DEF Claim, End
  <1>2. CASE o \notin DOMAIN payments
    <2>1. o \in Renewals
      BY DEF TodaysOrder, MoneyInv, TypeOK, Jobs, Subscriptions, Renewals, Days
    <2>2. NextPlan(job[i].due) \in Plans
      BY DEF NextPlan, Claim, MoneyInv, PayersHavePlans, TypeOK, Jobs, Subscriptions
    <2>3. /\ job[i].prior = {} /\ InsertPendingPayment(o, NextPlan(job[i].due), "none")
          /\ job' = [job EXCEPT ![i] = j]
      BY <1>2 DEF Claim
    <2>4. /\ j \in Jobs /\ j.at = "charging" /\ j.due = job[i].due /\ j.today = job[i].today
          /\ j.prior = {} /\ j.order = o
      BY <2>1, <2>3 DEF MoneyInv, TypeOK, Jobs, Stages
    <2>5. QED
      BY <1>2, <2>1, <2>2, <2>3, <2>4
  <1>3. QED
    BY <1>1, <1>2

\* The money is taken, or the run will ask for the outcome.
LEMMA ChargedRun ==
  ASSUME MoneyInv, NEW i \in Instances, Charge(i)
  PROVE  LET o == job[i].order IN
         /\ o \in Attempts /\ provider[o] = "none" /\ job[i].at = "charging"
         /\ \E fate \in Fates, j \in Jobs :
              /\ provider' = [provider EXCEPT ![o] = fate] /\ job' = [job EXCEPT ![i] = j]
              /\ (j.at = "activating" /\ fate = "taken") \/ j.at = "asking"
              /\ j.due = job[i].due /\ j.today = job[i].today
              /\ j.prior = job[i].prior /\ j.order = o
  <1> DEFINE o == job[i].order
             j(stage) == [job[i] EXCEPT !.at = stage]
  <1>1. o \in Attempts /\ provider[o] = "none" /\ job[i].at = "charging"
    BY DEF Charge, MoneyInv, RunsHoldRows, ClaimerCharges
  <1>2. \A stage \in {"activating", "asking"} :
          /\ j(stage) \in Jobs /\ j(stage).at = stage /\ j(stage).due = job[i].due
          /\ j(stage).today = job[i].today
          /\ j(stage).prior = job[i].prior /\ j(stage).order = o
    BY DEF MoneyInv, TypeOK, Jobs, Stages
  <1>3. \E fate \in Fates : /\ provider' = [provider EXCEPT ![o] = fate]
                            /\ \/ fate = "taken" /\ job' = [job EXCEPT ![i] = j("activating")]
                               \/ job' = [job EXCEPT ![i] = j("asking")]
    BY DEF Charge, To, Fates
  <1>4. QED
    BY <1>1, <1>2, <1>3

\* The open attempt becomes a period, once.
LEMMA Renewed ==
  ASSUME MoneyInv, NEW i \in Instances, MarkSuccessAndRenew(i)
  PROVE  LET o == job[i].order IN
         /\ o \in Attempts /\ provider[o] = "taken" /\ payments[o].plan \in Plans
         /\ job' = [job EXCEPT ![i] = Off] /\ job[i].at = "activating"
         /\ \/ UNCHANGED <<payments, sub>>
            \/ /\ payments[o].status = "pending"
               /\ payments' = [payments EXCEPT ![o].status = "success"]
               /\ sub' \in Subscriptions /\ sub'.plan \in Plans
               /\ sub'.end = job[i].due.end + planDays[payments[o].plan]
  <1> DEFINE o == job[i].order
             plan == payments[o].plan
             after == [sub EXCEPT !.plan = plan, !.pending = NoPlan,
                                 !.end = job[i].due.end + planDays[plan]]
  <1>1. o \in Attempts /\ provider[o] = "taken"
    BY DEF MarkSuccessAndRenew, MoneyInv, RunsHoldRows, RunsKnowFates
  <1>2. plan \in Plans
    BY <1>1 DEF Attempts, MoneyInv, TypeOK, Payments
  <1>3. job[i].due.end \in Nat /\ planDays[plan] \in Nat
    BY <1>2, SubscriptionAssumption DEF MoneyInv, TypeOK, Jobs, Subscriptions
  <1>4. job[i].due.end + planDays[plan] \in Nat
    BY <1>3
  <1>5. after \in Subscriptions /\ after.plan = plan /\ after.end = job[i].due.end + planDays[plan]
    BY <1>2, <1>4 DEF MoneyInv, TypeOK, Subscriptions
  <1>6. /\ job' = [job EXCEPT ![i] = Off] /\ job[i].at = "activating"
        /\ \/ UNCHANGED <<payments, sub>>
           \/ /\ payments[o].status = "pending"
              /\ payments' = [payments EXCEPT ![o].status = "success"] /\ sub' = after
    BY DEF MarkSuccessAndRenew, MarkSuccess, End
  <1> HIDE DEF after
  <1>7. QED
    BY <1>1, <1>2, <1>5, <1>6

\* A row settled as the provider's fate has it.
LEMMA SettledRow ==
  ASSUME MoneyInv, NEW o \in DOMAIN payments, UNCHANGED provider,
         \/ payments' = [payments EXCEPT ![o].status = "success"] /\ provider[o] = "taken"
         \/ payments' = [payments EXCEPT ![o].status = "failed"] /\ provider[o] = "declined"
         \/ payments' = payments
  PROVE  /\ SettledByTruth' /\ DOMAIN payments' = DOMAIN payments
         /\ \A u \in DOMAIN payments' : payments'[u] \in Payments /\ payments'[u].plan = payments[u].plan
  <1>1. CASE payments' = payments
    BY <1>1 DEF MoneyInv, TypeOK, SettledByTruth
  <1>2. CASE \E s \in {"success", "failed"} :
               /\ payments' = [payments EXCEPT ![o].status = s]
               /\ s = "success" => provider[o] = "taken"
               /\ s = "failed" => provider[o] = "declined"
    <2>1. PICK s \in {"success", "failed"} :
               /\ payments' = [payments EXCEPT ![o].status = s]
               /\ s = "success" => provider[o] = "taken"
               /\ s = "failed" => provider[o] = "declined"
      BY <1>2
    <2>2. /\ DOMAIN payments' = DOMAIN payments
          /\ payments'[o].status = s /\ payments'[o].plan = payments[o].plan
          /\ payments'[o] \in Payments
          /\ \A u \in DOMAIN payments \ {o} : payments'[u] = payments[u]
      BY <2>1, MarkedRow DEF MoneyInv
    <2>3. QED
      BY <2>1, <2>2 DEF MoneyInv, TypeOK, SettledByTruth
  <1>3. QED
    BY <1>1, <1>2

LEMMA MoneyInit == Init => MoneyInv
  <1> SUFFICES ASSUME Init PROVE MoneyInv
    OBVIOUS
  <1>1. \A i \in Instances : job[i] = Off /\ job[i].at = "off" /\ job[i].prior = {}
    BY DEF Init, Off
  <1>2. DOMAIN payments = {} /\ DOMAIN provider = {}
    BY DEF Init
  <1>3. TypeOK
    BY <1>2, OffType, SubscriptionAssumption DEF Init, TypeOK, Days
  <1>4. QED
    BY <1>1, <1>2, <1>3
       DEF Init, Trial, MoneyInv, PayersHavePlans, RunsHoldRows, ClaimerCharges, RunsKnowFates,
           SettledByTruth

\* Steps of a run that leave the tables alone.
LEMMA QuietRunStep ==
  ASSUME MoneyInv, NEW i \in Instances,
         ListDueAutopay(i) \/ ListPeriodPayments(i) \/ CheckPrior(i) \/ CheckCharge(i) \/ Stop(i)
  PROVE  MoneyInv'
  <1>1. Off \in Jobs /\ Off.at = "off" /\ Off.prior = {}
    BY OffType DEF Off
  <1>2. ASSUME job' = [job EXCEPT ![i] = Off], UNCHANGED <<day, sub, payments, provider>>
        PROVE  MoneyInv'
    BY <1>1, <1>2, OnlyTheRun
  <1>3. job[i].at # "off" => job[i].due.plan \in Plans
    BY DEF MoneyInv, PayersHavePlans
  <1>4. CASE ListDueAutopay(i)
    <2>1. sub.plan \in Plans
      BY <1>4 DEF ListDueAutopay, MoneyInv, PayersHavePlans
    <2>2. UNCHANGED <<day, sub, payments, provider>>
      BY <1>4 DEF ListDueAutopay
    <2>3. QED
      BY <1>4, <2>1, <2>2, ListedRun, OnlyTheRun
  <1>5. CASE ListPeriodPayments(i)
    <2>1. Open(i) \subseteq DOMAIN payments
      BY DEF Open, Attempts
    <2>2. UNCHANGED <<day, sub, payments, provider>> /\ job[i].at = "listed"
      BY <1>5 DEF ListPeriodPayments
    <2>3. QED
      BY <1>3, <1>5, <2>1, <2>2, CheckedRun, OnlyTheRun
  <1>6. CASE CheckPrior(i) \/ CheckCharge(i)
    <2>1. job[i].prior \subseteq DOMAIN payments
      BY DEF MoneyInv, RunsHoldRows
    <2>2. PICK o \in Attempts : Settle(i, o)
      BY <1>6 DEF CheckPrior, CheckCharge, MoneyInv, RunsHoldRows, Attempts, TypeOK, Jobs
    <2>3. UNCHANGED <<day, sub, payments, provider>> /\ job[i].at # "off"
      BY <1>6, <2>2 DEF Settle, CheckPrior, CheckCharge
    <2>4. CASE job' = [job EXCEPT ![i] = Off]
      BY <1>2, <2>3, <2>4
    <2>5. CASE \E j \in Jobs : /\ job' = [job EXCEPT ![i] = j]
                               /\ \/ j.at = "activating" /\ provider[o] = "taken"
                                  \/ j.at = "closing" /\ provider[o] = "declined"
                               /\ j.due = job[i].due /\ j.today = job[i].today
                               /\ j.prior = job[i].prior /\ j.order = o
      <3>1. PICK j \in Jobs : /\ job' = [job EXCEPT ![i] = j]
                              /\ \/ j.at = "activating" /\ provider[o] = "taken"
                                 \/ j.at = "closing" /\ provider[o] = "declined"
                              /\ j.due = job[i].due /\ j.prior = job[i].prior /\ j.order = o
        BY <2>5
      <3>2. QED
        BY <1>3, <2>1, <2>3, <3>1, OnlyTheRun
    <2>6. QED
      BY <2>2, <2>3, <2>4, <2>5, SettledRun
  <1>7. CASE Stop(i)
    BY <1>2, <1>7 DEF Stop, End
  <1>8. QED
    BY <1>4, <1>5, <1>6, <1>7

LEMMA CloseStep == ASSUME MoneyInv, NEW i \in Instances, Close(i) PROVE MoneyInv'
  <1> DEFINE o == job[i].order
  <1>1. /\ o \in Attempts /\ provider[o] = "declined" /\ UNCHANGED <<day, sub, provider>>
        /\ payments' = payments \/ payments' = [payments EXCEPT ![o].status = "failed"]
    BY ClosedRun DEF Close
  <1>2. /\ SettledByTruth' /\ DOMAIN payments' = DOMAIN payments
        /\ \A u \in DOMAIN payments' : payments'[u] \in Payments
    BY <1>1, SettledRow DEF Attempts
  <1>3. PICK j \in Jobs : /\ job' = [job EXCEPT ![i] = j] /\ j.prior \subseteq job[i].prior
                          /\ j.at = "off" \/ (j.at = "checking" /\ j.due = job[i].due)
    BY ClosedRun, OffType DEF Off
  <1>4. /\ job[i].due.plan \in Plans /\ job[i].prior \subseteq DOMAIN payments
        /\ sub.autopay => sub.plan \in Plans
    BY DEF Close, MoneyInv, PayersHavePlans, RunsHoldRows
  <1>5. /\ job' \in [Instances -> Jobs]
        /\ PayersHavePlans' /\ RunsHoldRows' /\ ClaimerCharges' /\ RunsKnowFates'
    <2>1. /\ DOMAIN payments \subseteq DOMAIN payments' /\ j.prior \subseteq DOMAIN payments'
          /\ \A u \in DOMAIN payments : provider'[u] = provider[u]
          /\ j.at # "off" => j.due.plan \in Plans
          /\ j.at \notin {"charging", "asking", "closing", "activating"}
          /\ sub'.autopay => sub'.plan \in Plans
      BY <1>1, <1>2, <1>3, <1>4
    <2>2. QED
      BY <1>3, <2>1, RunGoesOn
  <1>6. TypeOK'
    BY <1>1, <1>2, <1>5 DEF MoneyInv, TypeOK
  <1>7. QED
    BY <1>2, <1>5, <1>6 DEF MoneyInv

LEMMA ClaimStep == ASSUME MoneyInv, NEW i \in Instances, Claim(i) PROVE MoneyInv'
  <1> DEFINE o == TodaysOrder(i)
  <1>1. UNCHANGED <<day, sub>> /\ job[i].at = "checking"
    BY DEF Claim
  <1>2. CASE job' = [job EXCEPT ![i] = Off] /\ UNCHANGED <<payments, provider>>
    BY <1>1, <1>2, OffType, OnlyTheRun DEF Off
  <1>3. CASE /\ o \in Renewals \ DOMAIN payments /\ job[i].prior = {}
             /\ InsertPendingPayment(o, NextPlan(job[i].due), "none")
             /\ NextPlan(job[i].due) \in Plans
             /\ \E j \in Jobs : /\ job' = [job EXCEPT ![i] = j]
                                /\ j.at = "charging" /\ j.due = job[i].due /\ j.today = job[i].today
                                /\ j.prior = {} /\ j.order = o
    <2>1. /\ DOMAIN payments' = DOMAIN payments \cup {o} /\ DOMAIN provider' = DOMAIN payments'
          /\ payments'[o] = [plan |-> NextPlan(job[i].due), status |-> "pending"]
          /\ provider'[o] = "none"
          /\ \A u \in DOMAIN payments : payments'[u] = payments[u] /\ provider'[u] = provider[u]
          /\ DOMAIN payments' \subseteq Orders
          /\ \A u \in DOMAIN payments' : payments'[u] \in Payments /\ provider'[u] \in Fates
      BY <1>3, EnteredRow DEF MoneyInv, Orders, Fates
    <2>2. PICK j \in Jobs : /\ job' = [job EXCEPT ![i] = j]
                            /\ j.at = "charging" /\ j.due = job[i].due
                            /\ j.prior = {} /\ j.order = o
      BY <1>3
    <2>3. job[i].due.plan \in Plans /\ (sub.autopay => sub.plan \in Plans)
      BY <1>1 DEF MoneyInv, PayersHavePlans
    <2> HIDE DEF o
    <2>4. /\ job' \in [Instances -> Jobs]
          /\ PayersHavePlans' /\ RunsHoldRows' /\ ClaimerCharges' /\ RunsKnowFates'
      BY <1>1, <1>3, <2>1, <2>2, <2>3, RunGoesOn
    <2>5. TypeOK'
      BY <1>1, <2>1, <2>4 DEF MoneyInv, TypeOK
    <2>6. SettledByTruth'
      BY <2>1 DEF MoneyInv, SettledByTruth
    <2>7. QED
      BY <2>4, <2>5, <2>6 DEF MoneyInv
  <1>4. QED
    BY <1>2, <1>3, ClaimedRun

\* The claimed row is still nobody else's when its fate is decided.
LEMMA ChargeStep == ASSUME MoneyInv, NEW i \in Instances, Charge(i) PROVE MoneyInv'
  <1> DEFINE o == job[i].order
  <1>1. PICK fate \in Fates, j \in Jobs :
          /\ provider' = [provider EXCEPT ![o] = fate] /\ job' = [job EXCEPT ![i] = j]
          /\ (j.at = "activating" /\ fate = "taken") \/ j.at = "asking"
          /\ j.due = job[i].due /\ j.prior = job[i].prior /\ j.order = o
    BY ChargedRun
  <1>2. o \in Attempts /\ provider[o] = "none" /\ job[i].at = "charging" /\ UNCHANGED <<day, sub, payments>>
    BY ChargedRun DEF Charge
  <1>3. /\ job' \in [Instances -> Jobs] /\ job'[i] = j
        /\ \A k \in Instances \ {i} : job'[k] = job[k]
    BY <1>1 DEF MoneyInv, TypeOK
  <1>4. /\ DOMAIN provider' = DOMAIN payments /\ provider'[o] = fate
        /\ \A u \in DOMAIN payments \ {o} : provider'[u] = provider[u]
    BY <1>1, <1>2 DEF Attempts, MoneyInv, TypeOK
  <1> HIDE DEF o
  <1>5. TypeOK'
    BY <1>2, <1>3, <1>4 DEF MoneyInv, TypeOK
  <1>6. \A k \in Instances \ {i} :
          /\ job[k].at = "charging" => job[k].order # o
          /\ job[k].at \in {"activating", "closing"} => job[k].order # o
    <2>1. o = job[i].order
      BY DEF o
    <2>2. QED
      BY <1>2, <2>1 DEF MoneyInv, ClaimerCharges, RunsKnowFates
  <1>7. PayersHavePlans' /\ RunsHoldRows'
    BY <1>1, <1>2, <1>3 DEF MoneyInv, PayersHavePlans, RunsHoldRows, Attempts
  <1>8. \A k \in Instances : job[k].at \in {"charging", "closing", "activating"} =>
          job[k].order \in DOMAIN payments
    BY DEF MoneyInv, RunsHoldRows, Attempts
  <1>9. ClaimerCharges'
    BY <1>1, <1>3, <1>4, <1>6, <1>8 DEF MoneyInv, ClaimerCharges
  <1>10. RunsKnowFates'
    BY <1>1, <1>3, <1>4, <1>6, <1>8 DEF MoneyInv, RunsKnowFates
  <1>11. SettledByTruth'
    BY <1>2, <1>4 DEF MoneyInv, SettledByTruth
  <1>12. QED
    BY <1>5, <1>7, <1>9, <1>10, <1>11 DEF MoneyInv

LEMMA RenewStep == ASSUME MoneyInv, NEW i \in Instances, MarkSuccessAndRenew(i) PROVE MoneyInv'
  <1> DEFINE o == job[i].order
  <1>1. /\ o \in Attempts /\ provider[o] = "taken" /\ UNCHANGED <<day, provider>>
        /\ job' = [job EXCEPT ![i] = Off]
        /\ payments' = payments \/ payments' = [payments EXCEPT ![o].status = "success"]
        /\ sub' = sub \/ (sub' \in Subscriptions /\ sub'.plan \in Plans)
    BY Renewed DEF MarkSuccessAndRenew
  <1>2. /\ SettledByTruth' /\ DOMAIN payments' = DOMAIN payments
        /\ \A u \in DOMAIN payments' : payments'[u] \in Payments
    BY <1>1, SettledRow DEF Attempts
  <1>3. sub' \in Subscriptions /\ (sub'.autopay => sub'.plan \in Plans)
    BY <1>1 DEF MoneyInv, TypeOK, PayersHavePlans
  <1>4. Off \in Jobs /\ Off.at = "off" /\ Off.prior = {}
    BY OffType DEF Off
  <1>5. /\ job' \in [Instances -> Jobs]
        /\ PayersHavePlans' /\ RunsHoldRows' /\ ClaimerCharges' /\ RunsKnowFates'
    BY <1>1, <1>2, <1>3, <1>4, RunGoesOn
  <1>6. TypeOK'
    BY <1>1, <1>2, <1>3, <1>5 DEF MoneyInv, TypeOK
  <1>7. QED
    BY <1>2, <1>5, <1>6 DEF MoneyInv

\* The runs stay where they are; no fate that is settled changes.
LEMMA RunsStay ==
  ASSUME MoneyInv, job' = job, DOMAIN payments \subseteq DOMAIN payments',
         \A o \in DOMAIN payments : provider[o] # "asked" => provider'[o] = provider[o],
         sub'.autopay => sub'.plan \in Plans
  PROVE  PayersHavePlans' /\ RunsHoldRows' /\ ClaimerCharges' /\ RunsKnowFates'
  <1>1. \A k \in Instances : job[k].at \in {"charging", "closing", "activating"} =>
          job[k].order \in DOMAIN payments /\ provider'[job[k].order] = provider[job[k].order]
    BY DEF MoneyInv, RunsHoldRows, ClaimerCharges, RunsKnowFates, Attempts
  <1>2. PayersHavePlans'
    BY DEF MoneyInv, PayersHavePlans
  <1>3. RunsHoldRows'
    BY DEF MoneyInv, RunsHoldRows, Attempts
  <1>4. ClaimerCharges'
    BY <1>1 DEF MoneyInv, ClaimerCharges
  <1>5. RunsKnowFates'
    BY <1>1 DEF MoneyInv, RunsKnowFates
  <1>6. QED
    BY <1>2, <1>3, <1>4, <1>5

LEMMA CheckoutStep ==
  ASSUME MoneyInv, NEW o \in Checkouts, NEW plan \in Plans, Checkout(o, plan) PROVE MoneyInv'
  <1>1. PICK fate \in {"none", "asked"} : InsertPendingPayment(o, plan, fate)
    BY DEF Checkout
  <1>2. /\ DOMAIN payments' = DOMAIN payments \cup {o} /\ DOMAIN provider' = DOMAIN payments'
        /\ payments'[o] = [plan |-> plan, status |-> "pending"]
        /\ \A u \in DOMAIN payments : payments'[u] = payments[u] /\ provider'[u] = provider[u]
        /\ DOMAIN payments' \subseteq Orders
        /\ \A u \in DOMAIN payments' : payments'[u] \in Payments /\ provider'[u] \in Fates
    BY <1>1, EnteredRow DEF MoneyInv, Orders, Fates, Checkout
  <1>3. UNCHANGED <<day, sub, job>> /\ (sub.autopay => sub.plan \in Plans)
    BY DEF Checkout, MoneyInv, PayersHavePlans
  <1>4. PayersHavePlans' /\ RunsHoldRows' /\ ClaimerCharges' /\ RunsKnowFates'
    BY <1>2, <1>3, RunsStay
  <1>5. TypeOK' /\ SettledByTruth'
    BY <1>2, <1>3 DEF MoneyInv, TypeOK, SettledByTruth
  <1>6. QED
    BY <1>4, <1>5 DEF MoneyInv

LEMMA DecideStep == ASSUME MoneyInv, NEW o \in DOMAIN payments, Decide(o) PROVE MoneyInv'
  <1>1. PICK fate \in {"taken", "declined"} : provider' = [provider EXCEPT ![o] = fate]
    BY DEF Decide
  <1>2. provider[o] = "asked" /\ UNCHANGED <<day, sub, payments, job>> /\ (sub.autopay => sub.plan \in Plans)
    BY DEF Decide, MoneyInv, PayersHavePlans
  <1>3. /\ DOMAIN provider' = DOMAIN payments /\ provider'[o] = fate
        /\ \A u \in DOMAIN payments \ {o} : provider'[u] = provider[u]
    BY <1>1 DEF MoneyInv, TypeOK
  <1>4. PayersHavePlans' /\ RunsHoldRows' /\ ClaimerCharges' /\ RunsKnowFates'
    BY <1>2, <1>3, RunsStay
  <1>5. TypeOK'
    BY <1>2, <1>3 DEF MoneyInv, TypeOK, Fates
  <1>6. SettledByTruth'
    BY <1>2, <1>3 DEF MoneyInv, SettledByTruth
  <1>7. QED
    BY <1>4, <1>5, <1>6 DEF MoneyInv

\* A callback about a checkout settles it once and starts a period from today.
LEMMA Reported ==
  ASSUME MoneyInv, NEW o \in DOMAIN payments, HandleWebhook(o)
  PROVE  \/ UNCHANGED <<payments, sub>>
         \/ /\ UNCHANGED sub /\ provider[o] = "declined"
            /\ payments' = [payments EXCEPT ![o].status = "failed"]
         \/ /\ provider[o] = "taken" /\ payments[o].status = "pending"
            /\ payments' = [payments EXCEPT ![o].status = "success"]
            /\ payments[o].plan \in Plans
            /\ sub' \in Subscriptions /\ sub'.plan \in Plans
            /\ sub'.end = day + planDays[payments[o].plan]
  <1> DEFINE plan == payments[o].plan
             after == [plan |-> plan, end |-> day + planDays[plan], autopay |-> TRUE, pending |-> NoPlan]
  <1>1. plan \in Plans /\ day \in Nat
    BY SubscriptionAssumption DEF MoneyInv, TypeOK, Payments, Days
  <1>2. planDays[plan] \in Nat
    BY <1>1, SubscriptionAssumption
  <1>3. after \in Subscriptions /\ after.plan = plan /\ after.end = day + planDays[plan]
    BY <1>1, <1>2 DEF Subscriptions
  <1>4. \/ /\ provider[o] = "taken"
           /\ \/ UNCHANGED <<payments, sub>>
              \/ /\ payments[o].status = "pending"
                 /\ payments' = [payments EXCEPT ![o].status = "success"] /\ sub' = after
        \/ /\ provider[o] = "declined" /\ UNCHANGED sub
           /\ payments' = payments \/ payments' = [payments EXCEPT ![o].status = "failed"]
    BY DEF HandleWebhook, MarkSuccess, MarkPaymentFailed
  <1> HIDE DEF after
  <1>5. QED
    BY <1>1, <1>3, <1>4

LEMMA WebhookStep ==
  ASSUME MoneyInv, NEW o \in DOMAIN payments, HandleWebhook(o) PROVE MoneyInv'
  <1>1. /\ UNCHANGED <<day, provider, job>>
        /\ \/ payments' = [payments EXCEPT ![o].status = "success"] /\ provider[o] = "taken"
           \/ payments' = [payments EXCEPT ![o].status = "failed"] /\ provider[o] = "declined"
           \/ payments' = payments
        /\ sub' = sub \/ (sub' \in Subscriptions /\ sub'.plan \in Plans)
    BY Reported DEF HandleWebhook
  <1>2. /\ SettledByTruth' /\ DOMAIN payments' = DOMAIN payments
        /\ \A u \in DOMAIN payments' : payments'[u] \in Payments
    BY <1>1, SettledRow
  <1>3. sub' \in Subscriptions /\ (sub'.autopay => sub'.plan \in Plans)
    BY <1>1 DEF MoneyInv, TypeOK, PayersHavePlans
  <1>4. PayersHavePlans' /\ RunsHoldRows' /\ ClaimerCharges' /\ RunsKnowFates'
    BY <1>1, <1>2, <1>3, RunsStay
  <1>5. TypeOK'
    BY <1>1, <1>2, <1>3 DEF MoneyInv, TypeOK
  <1>6. QED
    BY <1>2, <1>4, <1>5 DEF MoneyInv

\* The tutor's choices and the clock.
LEMMA ChoiceStep ==
  ASSUME MoneyInv, Cancel \/ NextDay \/ \E plan \in Plans : ChangePlan(plan)
  PROVE  /\ MoneyInv' /\ sub'.end = sub.end /\ UNCHANGED <<payments, provider, job>>
         /\ day \in Nat /\ day' \in Nat /\ day <= day'
  <1>1. UNCHANGED <<payments, provider, job>>
    BY DEF Cancel, NextDay, ChangePlan
  <1>2. day \in Nat /\ day' \in Days /\ day' \in Nat /\ day <= day'
    BY SubscriptionAssumption DEF Cancel, NextDay, ChangePlan, MoneyInv, TypeOK, Days
  <1>3. sub' \in Subscriptions /\ sub'.end = sub.end /\ (sub'.autopay => sub'.plan \in Plans)
    <2>1. sub \in Subscriptions /\ (sub.autopay => sub.plan \in Plans)
      BY DEF MoneyInv, TypeOK, PayersHavePlans
    <2>2. CASE Cancel
      BY <2>1, <2>2 DEF Cancel, Subscriptions
    <2>3. CASE NextDay
      BY <2>1, <2>3 DEF NextDay
    <2>4. CASE \E plan \in Plans : ChangePlan(plan)
      BY <2>1, <2>4 DEF ChangePlan, Subscriptions
    <2>5. QED
      BY <2>2, <2>3, <2>4
  <1>4. PayersHavePlans' /\ RunsHoldRows' /\ ClaimerCharges' /\ RunsKnowFates'
    BY <1>1, <1>3, RunsStay
  <1>5. TypeOK' /\ SettledByTruth'
    BY <1>1, <1>2, <1>3 DEF MoneyInv, TypeOK, SettledByTruth
  <1>6. QED
    BY <1>1, <1>2, <1>3, <1>4, <1>5 DEF MoneyInv

LEMMA MoneyStep == MoneyInv /\ [Next]_vars => MoneyInv'
  <1> SUFFICES ASSUME MoneyInv, [Next]_vars PROVE MoneyInv'
    OBVIOUS
  <1>1. ASSUME NEW i \in Instances, RenewDue(i) PROVE MoneyInv'
    BY <1>1, QuietRunStep, CloseStep, ClaimStep, ChargeStep, RenewStep DEF RenewDue
  <1>2. ASSUME NEW o \in Checkouts, NEW plan \in Plans, Checkout(o, plan) PROVE MoneyInv'
    BY <1>2, CheckoutStep
  <1>3. ASSUME NEW o \in DOMAIN payments, Decide(o) \/ HandleWebhook(o) PROVE MoneyInv'
    BY <1>3, DecideStep, WebhookStep
  <1>4. CASE Cancel \/ NextDay \/ \E plan \in Plans : ChangePlan(plan)
    BY <1>4, ChoiceStep
  <1>5. CASE UNCHANGED vars
    BY <1>5 DEF vars, MoneyInv, TypeOK, PayersHavePlans, RunsHoldRows, ClaimerCharges,
                RunsKnowFates, SettledByTruth, Attempts
  <1>6. QED
    BY <1>1, <1>2, <1>3, <1>4, <1>5 DEF Next
-----------------------------------------------------------------------------
(* OnceInv, where one instance runs the job *)

\* At most one instance runs the job.
Alone == \A i, j \in Instances : i = j

\* A run that has begun goes on or ends; the tables are as they were, save for
\* an attempt that is closed.
LEMMA OnceRun ==
  ASSUME OnceInv, MoneyInv', NEW i \in Instances, NEW j \in Jobs,
         job' = [job EXCEPT ![i] = j], UNCHANGED <<day, sub, provider>>,
         DOMAIN payments' = DOMAIN payments,
         \A o \in DOMAIN payments : payments'[o].status = "success" => payments[o].status = "success",
         j.at # "off" => /\ job[i].at # "off" /\ j.due = job[i].due /\ j.today = job[i].today
                         /\ \A o \in j.prior : o.end = j.due.end,
         j.at = "off" => j.prior = {},
         j.at # "listed",
         j.at \in {"charging", "asking", "closing", "activating"} => j.order.end = j.due.end,
         j.at # "off" => \A o \in Attempts : (o.end = j.due.end /\ o # TodaysOrder(i)) =>
                           o \in j.prior \/ provider[o] = "declined"
  PROVE  OnceInv'
  <1>1. /\ job'[i] = j /\ \A k \in Instances \ {i} : job'[k] = job[k]
        /\ Attempts' = Attempts
    BY DEF OnceInv, MoneyInv, TypeOK, Attempts
  <1>2. ChargedWhenDue'
    BY <1>1 DEF OnceInv, ChargedWhenDue
  <1>3. RenewedMovesEnd'
    BY <1>1 DEF OnceInv, RenewedMovesEnd, Attempts
  <1>4. RunsStayInPeriod'
    BY <1>1 DEF OnceInv, RunsStayInPeriod
  <1>5. OthersInHand'
    <2>1. j.at # "off" => TodaysOrder(i)' = TodaysOrder(i)
      BY <1>1 DEF TodaysOrder
    <2>2. \A k \in Instances \ {i} : TodaysOrder(k)' = TodaysOrder(k)
      BY <1>1 DEF TodaysOrder
    <2>3. QED
      BY <1>1, <2>1, <2>2 DEF OnceInv, OthersInHand
  <1>6. OneOpenAttempt'
    BY <1>1 DEF OnceInv, OneOpenAttempt
  <1>7. QED
    BY <1>2, <1>3, <1>4, <1>5, <1>6 DEF OnceInv

LEMMA OnceInit == Init => OnceInv
  <1> SUFFICES ASSUME Init PROVE OnceInv
    OBVIOUS
  <1>1. Attempts = {}
    BY DEF Init, Attempts
  <1>2. \A i \in Instances : job[i].at = "off" /\ job[i].prior = {}
    BY DEF Init, Off
  <1>3. QED
    BY <1>1, <1>2, MoneyInit
       DEF OnceInv, ChargedWhenDue, RenewedMovesEnd, RunsStayInPeriod, OthersInHand, OneOpenAttempt

\* A run begins with the end as it is, which is later than any that was renewed.
LEMMA OnceList ==
  ASSUME OnceInv, MoneyInv', NEW i \in Instances, ListDueAutopay(i) PROVE OnceInv'
  <1>1. PICK j \in Jobs : /\ job' = [job EXCEPT ![i] = j]
                          /\ j.at = "listed" /\ j.due = sub /\ j.prior = {}
    BY ListedRun DEF OnceInv
  <1>2. UNCHANGED <<day, sub, payments, provider>> /\ sub.end <= day
    BY DEF ListDueAutopay
  <1>3. /\ job'[i] = j /\ \A k \in Instances \ {i} : job'[k] = job[k]
        /\ Attempts' = Attempts
    BY <1>1, <1>2 DEF OnceInv, MoneyInv, TypeOK, Attempts
  <1>4. ChargedWhenDue' /\ RenewedMovesEnd'
    BY <1>1, <1>2, <1>3 DEF OnceInv, ChargedWhenDue, RenewedMovesEnd
  <1>5. RunsStayInPeriod' /\ OneOpenAttempt'
    BY <1>1, <1>2, <1>3 DEF OnceInv, RunsStayInPeriod, OneOpenAttempt
  <1>6. OthersInHand'
    <2>1. \A k \in Instances \ {i} : TodaysOrder(k)' = TodaysOrder(k)
      BY <1>3 DEF TodaysOrder
    <2>2. QED
      BY <1>1, <1>2, <1>3, <2>1 DEF OnceInv, OthersInHand
  <1>7. QED
    BY <1>4, <1>5, <1>6 DEF OnceInv

\* Whoever is not listed as open is declined: a renewal that succeeded would
\* have moved the end.
LEMMA OncePrior ==
  ASSUME OnceInv, MoneyInv', NEW i \in Instances, ListPeriodPayments(i) PROVE OnceInv'
  <1>1. PICK j \in Jobs : /\ job' = [job EXCEPT ![i] = j]
                          /\ j.at = "checking" /\ j.due = job[i].due /\ j.today = job[i].today
                          /\ j.prior = Open(i)
    BY CheckedRun DEF OnceInv
  <1>2. UNCHANGED <<day, sub, payments, provider>> /\ job[i].at = "listed"
    BY DEF ListPeriodPayments
  <1>3. ASSUME NEW o \in Attempts, o.end = j.due.end, o # TodaysOrder(i)
        PROVE  o \in j.prior \/ provider[o] = "declined"
    <2>1. payments[o].status \in {"pending", "success", "failed"}
      BY DEF OnceInv, MoneyInv, TypeOK, Payments, Attempts
    <2>2. CASE payments[o].status = "pending"
      BY <1>1, <1>3, <2>2 DEF Open
    <2>3. CASE payments[o].status = "failed"
      BY <2>3 DEF OnceInv, MoneyInv, SettledByTruth, Attempts
    <2>4. CASE payments[o].status = "success"
      <3>1. o.end < job[i].due.end
        BY <1>2, <2>4 DEF OnceInv, RenewedMovesEnd
      <3>2. o.end \in Nat /\ job[i].due.end \in Nat
        BY DEF Attempts, Renewals, OnceInv, MoneyInv, TypeOK, Jobs, Subscriptions
      <3>3. QED
        BY <1>1, <1>3, <3>1, <3>2
    <2>5. QED
      BY <2>1, <2>2, <2>3, <2>4
  <1>4. \A o \in j.prior : o.end = j.due.end
    BY <1>1 DEF Open
  <1>5. QED
    BY <1>1, <1>2, <1>3, <1>4, OnceRun

LEMMA OnceSettle ==
  ASSUME OnceInv, MoneyInv', NEW i \in Instances, CheckPrior(i) \/ CheckCharge(i) PROVE OnceInv'
  <1>1. PICK o \in Attempts : Settle(i, o) /\ o.end = job[i].due.end
    BY DEF CheckPrior, CheckCharge, OnceInv, RunsStayInPeriod, MoneyInv, RunsHoldRows, Attempts,
           TypeOK, Jobs
  <1>2. UNCHANGED <<day, sub, payments, provider>> /\ job[i].at \notin {"off", "listed"}
    BY <1>1 DEF Settle, CheckPrior, CheckCharge
  <1>3. CASE job' = [job EXCEPT ![i] = Off]
    BY <1>2, <1>3, OffType, OnceRun DEF Off
  <1>4. CASE \E j \in Jobs : /\ job' = [job EXCEPT ![i] = j] /\ j.at \in {"activating", "closing"}
                             /\ j.due = job[i].due /\ j.today = job[i].today
                             /\ j.prior = job[i].prior /\ j.order = o
    <2>1. PICK j \in Jobs : /\ job' = [job EXCEPT ![i] = j] /\ j.at \in {"activating", "closing"}
                            /\ j.due = job[i].due /\ j.today = job[i].today
                            /\ j.prior = job[i].prior /\ j.order = o
      BY <1>4
    <2>2. \A u \in j.prior : u.end = j.due.end
      BY <2>1 DEF OnceInv, RunsStayInPeriod
    <2>3. \A u \in Attempts : (u.end = j.due.end /\ u # TodaysOrder(i)) =>
             u \in j.prior \/ provider[u] = "declined"
      BY <1>2, <2>1 DEF OnceInv, OthersInHand
    <2>4. QED
      BY <1>1, <1>2, <2>1, <2>2, <2>3, OnceRun
  <1>5. QED
    BY <1>1, <1>2, <1>3, <1>4, SettledRun DEF OnceInv

LEMMA OnceStop == ASSUME OnceInv, MoneyInv', NEW i \in Instances, Stop(i) PROVE OnceInv'
  <1>1. job' = [job EXCEPT ![i] = Off] /\ UNCHANGED <<day, sub, payments, provider>>
    BY DEF Stop, End
  <1>2. QED
    BY <1>1, OffType, OnceRun DEF Off

LEMMA OnceClose == ASSUME OnceInv, MoneyInv', NEW i \in Instances, Close(i) PROVE OnceInv'
  <1> DEFINE o == job[i].order
  <1>1. /\ o \in Attempts /\ provider[o] = "declined" /\ UNCHANGED <<day, sub, provider>>
        /\ payments' = payments \/ payments' = [payments EXCEPT ![o].status = "failed"]
        /\ job[i].at = "closing"
    BY ClosedRun DEF Close, OnceInv
  <1>2. /\ DOMAIN payments' = DOMAIN payments
        /\ \A u \in DOMAIN payments :
             payments'[u].status = "success" => payments[u].status = "success"
    <2>1. CASE payments' = payments
      BY <2>1
    <2>2. CASE payments' = [payments EXCEPT ![o].status = "failed"]
      <3>1. /\ DOMAIN payments' = DOMAIN payments /\ payments'[o].status = "failed"
            /\ \A u \in DOMAIN payments \ {o} : payments'[u] = payments[u]
        BY <1>1, <2>2, MarkedRow DEF OnceInv, MoneyInv, Attempts
      <3>2. QED
        BY <3>1
    <2>3. QED
      BY <1>1, <2>1, <2>2
  <1>3. CASE job' = [job EXCEPT ![i] = Off]
    BY <1>1, <1>2, <1>3, OffType, OnceRun DEF Off
  <1>4. CASE \E j \in Jobs : /\ job' = [job EXCEPT ![i] = j]
                             /\ j.at = "checking" /\ j.due = job[i].due /\ j.today = job[i].today
                             /\ j.prior = job[i].prior \ {o}
    <2>1. PICK j \in Jobs : /\ job' = [job EXCEPT ![i] = j]
                            /\ j.at = "checking" /\ j.due = job[i].due /\ j.today = job[i].today
                            /\ j.prior = job[i].prior \ {o}
      BY <1>4
    <2>2. \A u \in j.prior : u.end = j.due.end
      BY <2>1 DEF OnceInv, RunsStayInPeriod
    <2>3. \A u \in Attempts : (u.end = j.due.end /\ u # TodaysOrder(i)) =>
             u \in j.prior \/ provider[u] = "declined"
      BY <1>1, <2>1 DEF OnceInv, OthersInHand
    <2> HIDE DEF o
    <2>4. QED
      BY <1>1, <1>2, <2>1, <2>2, <2>3, OnceRun
  <1>5. QED
    BY <1>3, <1>4, ClosedRun DEF OnceInv

\* A run claims today's attempt when every other one is declined.
LEMMA OnceClaim ==
  ASSUME OnceInv, MoneyInv', Alone, NEW i \in Instances, Claim(i) PROVE OnceInv'
  <1> DEFINE o == TodaysOrder(i)
  <1>1. CASE job' = [job EXCEPT ![i] = Off] /\ UNCHANGED <<payments, provider>>
    <2>1. UNCHANGED <<day, sub>>
      BY DEF Claim
    <2>2. QED
      BY <1>1, <2>1, OffType, OnceRun DEF Off
  <1>2. CASE /\ o \in Renewals \ DOMAIN payments /\ job[i].prior = {}
             /\ InsertPendingPayment(o, NextPlan(job[i].due), "none")
             /\ NextPlan(job[i].due) \in Plans
             /\ \E j \in Jobs : /\ job' = [job EXCEPT ![i] = j]
                                /\ j.at = "charging" /\ j.due = job[i].due /\ j.today = job[i].today
                                /\ j.prior = {} /\ j.order = o
    <2>1. PICK j \in Jobs : /\ job' = [job EXCEPT ![i] = j]
                            /\ j.at = "charging" /\ j.due = job[i].due /\ j.today = job[i].today
                            /\ j.prior = {} /\ j.order = o
      BY <1>2
    <2>2. /\ job' \in [Instances -> Jobs] /\ job'[i] = j /\ \A k \in Instances : k = i
          /\ UNCHANGED <<day, sub>> /\ job[i].at = "checking"
      BY <2>1 DEF Alone, Claim, OnceInv, MoneyInv, TypeOK
    <2>3. /\ DOMAIN payments' = DOMAIN payments \cup {o}
          /\ payments'[o].status = "pending"
          /\ \A u \in DOMAIN payments : payments'[u] = payments[u] /\ provider'[u] = provider[u]
      <3> DEFINE plan == NextPlan(job[i].due)
      <3>1. /\ TypeOK /\ o \in Orders \ DOMAIN payments /\ plan \in Plans /\ "none" \in Fates
            /\ InsertPendingPayment(o, plan, "none")
        BY <1>2 DEF OnceInv, MoneyInv, Orders, Fates
      <3> HIDE DEF o, plan
      <3>2. /\ DOMAIN payments' = DOMAIN payments \cup {o}
            /\ payments'[o] = [plan |-> plan, status |-> "pending"]
            /\ \A u \in DOMAIN payments : payments'[u] = payments[u] /\ provider'[u] = provider[u]
        BY <3>1, EnteredRow
      <3>3. QED
        BY <3>2
    <2>4. o.end = job[i].due.end /\ o = TodaysOrder(i)'
      BY <2>1, <2>2 DEF TodaysOrder
    <2>5. Attempts' = Attempts \cup {o} /\ Attempts \subseteq DOMAIN payments
      BY <1>2, <2>3 DEF Attempts
    <2>6. \A u \in Attempts : u.end = o.end => provider[u] = "declined" /\ provider'[u] = "declined"
      <3>1. \A u \in Attempts : u # o
        BY <1>2 DEF Attempts
      <3>2. QED
        BY <1>2, <2>2, <2>3, <2>4, <2>5, <3>1 DEF OnceInv, OthersInHand
    <2> HIDE DEF o
    <2>7. ChargedWhenDue' /\ RunsStayInPeriod'
      BY <2>1, <2>2, <2>4, <2>5 DEF OnceInv, ChargedWhenDue, RunsStayInPeriod
    <2>8. RenewedMovesEnd'
      BY <2>1, <2>2, <2>3, <2>5 DEF OnceInv, RenewedMovesEnd
    <2>9. OthersInHand'
      BY <2>1, <2>2, <2>4, <2>5, <2>6 DEF OthersInHand
    <2>10. OneOpenAttempt'
      BY <2>3, <2>5, <2>6 DEF OnceInv, OneOpenAttempt
    <2>11. QED
      BY <2>7, <2>8, <2>9, <2>10 DEF OnceInv
  <1>3. QED
    BY <1>1, <1>2, ClaimedRun DEF OnceInv

\* A charge concerns the attempt in hand, which nobody had charged: the others
\* of the period are declined.
LEMMA OnceCharge == ASSUME OnceInv, MoneyInv', NEW i \in Instances, Charge(i) PROVE OnceInv'
  <1> DEFINE o == job[i].order
  <1>1. PICK fate \in Fates, j \in Jobs :
          /\ provider' = [provider EXCEPT ![o] = fate] /\ job' = [job EXCEPT ![i] = j]
          /\ j.at \in {"activating", "asking"}
          /\ j.due = job[i].due /\ j.today = job[i].today
          /\ j.prior = job[i].prior /\ j.order = o
    BY ChargedRun DEF OnceInv
  <1>2. /\ o \in Attempts /\ provider[o] = "none" /\ job[i].at = "charging"
        /\ UNCHANGED <<day, sub, payments>>
    BY ChargedRun DEF OnceInv, Charge
  <1>3. /\ job'[i] = j /\ \A k \in Instances \ {i} : job'[k] = job[k]
        /\ Attempts' = Attempts
        /\ \A u \in Attempts \ {o} : provider'[u] = provider[u]
    BY <1>1, <1>2 DEF OnceInv, MoneyInv, TypeOK, Attempts
  <1>4. \A u \in Attempts : provider[u] = "declined" => provider'[u] = "declined"
    BY <1>2, <1>3
  <1> HIDE DEF o
  <1>5. ChargedWhenDue' /\ RenewedMovesEnd'
    BY <1>1, <1>2, <1>3 DEF OnceInv, ChargedWhenDue, RenewedMovesEnd
  <1>6. RunsStayInPeriod'
    BY <1>1, <1>2, <1>3 DEF o, OnceInv, RunsStayInPeriod
  <1>7. OthersInHand'
    <2>1. \A k \in Instances : TodaysOrder(k)' = TodaysOrder(k) /\ job'[k].due = job[k].due
                               /\ job'[k].prior = job[k].prior
      BY <1>1, <1>3 DEF TodaysOrder
    <2>2. \A k \in Instances : job'[k].at \notin {"off", "listed"} => job[k].at \notin {"off", "listed"}
      BY <1>2, <1>3
    <2>3. QED
      BY <1>3, <1>4, <2>1, <2>2 DEF OnceInv, OthersInHand
  <1>8. OneOpenAttempt'
    BY <1>3, <1>4 DEF OnceInv, OneOpenAttempt
  <1>9. QED
    BY <1>5, <1>6, <1>7, <1>8 DEF OnceInv

\* The end moves past the period that was renewed, and nobody else has read the
\* old one.
LEMMA OnceRenew ==
  ASSUME OnceInv, MoneyInv', Alone, NEW i \in Instances, MarkSuccessAndRenew(i) PROVE OnceInv'
  <1> DEFINE o == job[i].order
             plan == payments[o].plan
  <1>1. /\ o \in Attempts /\ plan \in Plans /\ job[i].at = "activating"
        /\ job' = [job EXCEPT ![i] = Off] /\ UNCHANGED <<day, provider>>
        /\ \/ UNCHANGED <<payments, sub>>
           \/ /\ payments' = [payments EXCEPT ![o].status = "success"]
              /\ sub'.end = job[i].due.end + planDays[plan]
    BY Renewed DEF OnceInv, MarkSuccessAndRenew
  <1>2. \A k \in Instances : job'[k].at = "off" /\ job'[k].prior = {}
    BY <1>1 DEF Alone, OnceInv, MoneyInv, TypeOK, Off
  <1>3. DOMAIN payments' = DOMAIN payments /\ Attempts' = Attempts
    BY <1>1 DEF Attempts
  <1>4. \A u \in Attempts : payments'[u].status = "success" => u.end < sub'.end
    <2>1. CASE UNCHANGED <<payments, sub>>
      BY <2>1 DEF OnceInv, RenewedMovesEnd
    <2>2. CASE /\ payments' = [payments EXCEPT ![o].status = "success"]
               /\ sub'.end = job[i].due.end + planDays[plan]
      <3>1. \A u \in Attempts \ {o} : payments'[u] = payments[u]
        BY <1>1, <2>2 DEF Attempts
      <3>2. o.end = job[i].due.end
        BY <1>1 DEF OnceInv, RunsStayInPeriod
      <3>3. \A u \in Attempts \ {o} : payments'[u].status = "success" => u.end < job[i].due.end
        BY <1>1, <3>1 DEF OnceInv, RenewedMovesEnd
      <3>4. job[i].due.end \in Nat /\ \A u \in Attempts : u.end \in Nat
        BY DEF OnceInv, MoneyInv, TypeOK, Jobs, Subscriptions, Attempts, Renewals
      <3>5. planDays[plan] \in Nat /\ planDays[plan] > 0
        BY <1>1, SubscriptionAssumption
      <3> HIDE DEF o, plan
      <3>6. job[i].due.end < sub'.end /\ sub'.end \in Nat
        BY <2>2, <3>4, <3>5
      <3>7. QED
        BY <3>2, <3>3, <3>4, <3>6
    <2>3. QED
      BY <1>1, <2>1, <2>2
  <1>5. ChargedWhenDue' /\ RenewedMovesEnd' /\ RunsStayInPeriod' /\ OthersInHand'
    BY <1>1, <1>2, <1>3, <1>4
       DEF OnceInv, ChargedWhenDue, RenewedMovesEnd, RunsStayInPeriod, OthersInHand
  <1>6. OneOpenAttempt'
    BY <1>1, <1>3 DEF OnceInv, OneOpenAttempt
  <1>7. QED
    BY <1>5, <1>6 DEF OnceInv

\* What does not touch the attempts and no run notices.
LEMMA OnceElsewhere ==
  ASSUME OnceInv, MoneyInv', UNCHANGED job, Attempts' = Attempts,
         \A o \in Attempts : payments'[o] = payments[o],
         \A o \in Attempts : provider[o] = "declined" => provider'[o] = "declined",
         day \in Nat, day' \in Nat, day <= day',
         \A o \in Attempts : o.end < sub.end => o.end < sub'.end
  PROVE  OnceInv'
  <1>1. \A i \in Instances : job[i].due.end \in Nat
    BY DEF OnceInv, MoneyInv, TypeOK, Jobs, Subscriptions
  <1>2. \A o \in Attempts : o.end \in Nat
    BY DEF Attempts, Renewals
  <1>3. ChargedWhenDue'
    BY <1>1, <1>2 DEF OnceInv, ChargedWhenDue
  <1>4. RenewedMovesEnd'
    BY DEF OnceInv, RenewedMovesEnd
  <1>5. RunsStayInPeriod'
    BY DEF OnceInv, RunsStayInPeriod
  <1>6. OthersInHand'
    BY DEF OnceInv, OthersInHand, TodaysOrder
  <1>7. OneOpenAttempt'
    BY DEF OnceInv, OneOpenAttempt
  <1>8. QED
    BY <1>3, <1>4, <1>5, <1>6, <1>7 DEF OnceInv

LEMMA OnceCheckout ==
  ASSUME OnceInv, MoneyInv', NEW o \in Checkouts, NEW plan \in Plans, Checkout(o, plan)
  PROVE  OnceInv'
  <1>1. PICK fate \in {"none", "asked"} : InsertPendingPayment(o, plan, fate)
    BY DEF Checkout
  <1>2. /\ DOMAIN payments' = DOMAIN payments \cup {o}
        /\ \A u \in DOMAIN payments : payments'[u] = payments[u] /\ provider'[u] = provider[u]
    BY <1>1, EnteredRow DEF OnceInv, MoneyInv, Orders, Fates, Checkout
  <1>3. o \notin Renewals
    BY OrdersApart
  <1>4. Attempts' = Attempts /\ Attempts \subseteq DOMAIN payments
    BY <1>2, <1>3 DEF Attempts
  <1>5. UNCHANGED <<day, sub, job>> /\ day \in Nat
    BY SubscriptionAssumption DEF Checkout, OnceInv, MoneyInv, TypeOK, Days
  <1>6. QED
    BY <1>2, <1>4, <1>5, OnceElsewhere

\* What is decided was asked for, and so the others of its period are declined.
LEMMA OnceDecide ==
  ASSUME OnceInv, MoneyInv', NEW o \in DOMAIN payments, Decide(o) PROVE OnceInv'
  <1>1. provider[o] = "asked" /\ UNCHANGED <<day, sub, payments, job>>
        /\ \A u \in DOMAIN payments \ {o} : provider'[u] = provider[u]
    BY DEF Decide, OnceInv, MoneyInv, TypeOK
  <1>2. Attempts' = Attempts /\ Attempts \subseteq DOMAIN payments /\ day \in Nat
    BY <1>1, SubscriptionAssumption DEF Attempts, OnceInv, MoneyInv, TypeOK, Days
  <1>3. \A u \in Attempts : provider[u] = "declined" => provider'[u] = "declined"
    BY <1>1, <1>2
  <1>4. QED
    BY <1>1, <1>2, <1>3, OnceElsewhere

\* A checkout starts a period today: past the end of whatever was charged.
LEMMA OnceWebhook ==
  ASSUME OnceInv, MoneyInv', NEW o \in DOMAIN payments \cap Checkouts, HandleWebhook(o)
  PROVE  OnceInv'
  <1> DEFINE plan == payments[o].plan
  <1>1. UNCHANGED <<day, provider, job>> /\ day \in Nat
    BY SubscriptionAssumption DEF HandleWebhook, OnceInv, MoneyInv, TypeOK, Days
  <1>2. \/ payments' = payments
        \/ \E s \in {"success", "failed"} : payments' = [payments EXCEPT ![o].status = s]
    BY Reported DEF OnceInv
  <1>3. sub' = sub \/ (plan \in Plans /\ sub'.end = day + planDays[plan])
    BY Reported DEF OnceInv
  <1>4. \A u \in Attempts : u # o
    BY OrdersApart DEF Attempts
  <1>5. Attempts' = Attempts /\ \A u \in Attempts : payments'[u] = payments[u]
    BY <1>2, <1>4 DEF Attempts
  <1>6. \A u \in Attempts : u.end < sub.end => u.end < sub'.end
    <2>1. CASE sub' = sub
      BY <2>1
    <2>2. CASE plan \in Plans /\ sub'.end = day + planDays[plan]
      <3>1. planDays[plan] \in Nat /\ planDays[plan] > 0
        BY <2>2, SubscriptionAssumption
      <3>2. \A u \in Attempts : u.end \in Nat /\ u.end <= day
        BY DEF Attempts, Renewals, OnceInv, ChargedWhenDue
      <3> HIDE DEF plan
      <3>3. QED
        BY <1>1, <2>2, <3>1, <3>2
    <2>3. QED
      BY <1>3, <2>1, <2>2
  <1>7. QED
    BY <1>1, <1>5, <1>6, OnceElsewhere

LEMMA OnceChoice ==
  ASSUME OnceInv, Cancel \/ NextDay \/ \E plan \in Plans : ChangePlan(plan) PROVE OnceInv'
  <1>1. /\ MoneyInv' /\ sub'.end = sub.end /\ UNCHANGED <<payments, provider, job>>
        /\ day \in Nat /\ day' \in Nat /\ day <= day'
    BY ChoiceStep DEF OnceInv
  <1>2. Attempts' = Attempts
    BY <1>1 DEF Attempts
  <1>3. QED
    BY <1>1, <1>2, OnceElsewhere

LEMMA OnceStep == ASSUME Alone, OnceInv, [Next]_vars PROVE OnceInv'
  <1>1. MoneyInv'
    BY MoneyStep DEF OnceInv
  <1>2. ASSUME NEW i \in Instances, RenewDue(i) PROVE OnceInv'
    BY <1>1, <1>2, OnceList, OncePrior, OnceSettle, OnceClose, OnceClaim, OnceCharge, OnceRenew, OnceStop
       DEF RenewDue
  <1>3. ASSUME NEW o \in Checkouts, NEW plan \in Plans, Checkout(o, plan) PROVE OnceInv'
    BY <1>1, <1>3, OnceCheckout
  <1>4. ASSUME NEW o \in DOMAIN payments, Decide(o) PROVE OnceInv'
    BY <1>1, <1>4, OnceDecide
  <1>5. ASSUME NEW o \in DOMAIN payments \cap Checkouts, HandleWebhook(o) PROVE OnceInv'
    BY <1>1, <1>5, OnceWebhook
  <1>6. CASE Cancel \/ NextDay \/ \E plan \in Plans : ChangePlan(plan)
    BY <1>6, OnceChoice
  <1>7. CASE UNCHANGED vars
    <2>1. day \in Nat
      BY SubscriptionAssumption DEF OnceInv, MoneyInv, TypeOK, Days
    <2>2. UNCHANGED <<day, sub, payments, provider, job>> /\ Attempts' = Attempts
      BY <1>7 DEF vars, Attempts
    <2>3. QED
      BY <1>1, <2>1, <2>2, OnceElsewhere
  <1>8. QED
    BY <1>2, <1>3, <1>4, <1>5, <1>6, <1>7 DEF Next
-----------------------------------------------------------------------------
(* The theorems *)

\* Whatever the interleaving of several instances, the tutor, the callbacks and
\* the crashes: rows and runs agree with what the payment provider did.
THEOREM MoneyInvariant == Spec => []MoneyInv
  <1>1. Init => MoneyInv
    BY MoneyInit
  <1>2. MoneyInv /\ [Next]_vars => MoneyInv'
    BY MoneyStep
  <1>3. QED
    BY <1>1, <1>2, PTL DEF Spec

\* Nobody is given a period for which no money was taken, and a row closed as
\* failed has no money behind it: for any number of instances.
THEOREM SettlementIsTrue == Spec => []SettledByTruth
  <1>1. MoneyInv => SettledByTruth
    BY DEF MoneyInv
  <1>2. QED
    BY <1>1, MoneyInvariant, PTL

\* The end of the paid period moves only in a step that settles an open payment:
\* repeated callbacks and recoveries renew nothing twice.
THEOREM PaymentBuysOnePeriod == Spec => OnePeriodPerPayment
  <1> DEFINE Bought == sub'.end # sub.end =>
        \E o \in DOMAIN payments :
          payments[o].status = "pending" /\ payments'[o].status = "success"
  <1>1. ASSUME MoneyInv, Next PROVE Bought
    <2>1. ASSUME NEW i \in Instances, RenewDue(i), ~ MarkSuccessAndRenew(i) PROVE Bought
      BY <2>1 DEF RenewDue, ListDueAutopay, ListPeriodPayments, CheckPrior, Close, Claim, Charge,
                  CheckCharge, Stop, Settle
    <2>2. ASSUME NEW i \in Instances, MarkSuccessAndRenew(i) PROVE Bought
      <3> DEFINE o == job[i].order
      <3>1. /\ o \in Attempts
            /\ \/ UNCHANGED <<payments, sub>>
               \/ /\ payments[o].status = "pending"
                  /\ payments' = [payments EXCEPT ![o].status = "success"]
        BY <1>1, <2>2, Renewed
      <3> HIDE DEF o
      <3>2. QED
        BY <1>1, <3>1, MarkedRow DEF MoneyInv, Attempts
    <2>3. ASSUME NEW o \in DOMAIN payments, HandleWebhook(o) PROVE Bought
      <3>1. \/ UNCHANGED sub
            \/ /\ payments[o].status = "pending"
               /\ payments' = [payments EXCEPT ![o].status = "success"]
        BY <1>1, <2>3, Reported
      <3>2. QED
        BY <1>1, <3>1, MarkedRow DEF MoneyInv
    <2>4. ASSUME NEW o \in Checkouts, NEW plan \in Plans, Checkout(o, plan) PROVE Bought
      BY <2>4 DEF Checkout
    <2>5. ASSUME NEW o \in DOMAIN payments, Decide(o) PROVE Bought
      BY <2>5 DEF Decide
    <2>6. CASE Cancel \/ NextDay \/ \E plan \in Plans : ChangePlan(plan)
      BY <1>1, <2>6, ChoiceStep
    <2>7. QED
      BY <1>1, <2>1, <2>2, <2>3, <2>4, <2>5, <2>6 DEF Next
  <1>2. MoneyInv /\ [Next]_vars => [Bought]_vars
    BY <1>1
  <1>3. QED
    BY <1>2, MoneyInvariant, PTL DEF Spec, OnePeriodPerPayment

\* Where one instance runs the job, a period is charged at most once, however
\* answers get lost, the process dies or a run drags on over days.
THEOREM ChargedOnce == ASSUME Alone PROVE Spec => []NoDoubleCharge
  <1>1. OnceInv => NoDoubleCharge
    BY DEF OnceInv, MoneyInv, OneOpenAttempt, NoDoubleCharge, Attempts
  <1>2. OnceInv /\ [Next]_vars => OnceInv'
    BY OnceStep
  <1>3. QED
    BY <1>1, <1>2, OnceInit, PTL DEF Spec

-----------------------------------------------------------------------------
(* TutorScreens: the tables *)

\* The hooks promise that a change of the fact resets the query.
OnPromise == view \in Promised[fact]

\* A handler that changes the fact keeps the promise.
Covered(changes, tells) == OnPromise /\ fact \in changes => view \in tells

LEMMA ReadsTable ==
  ASSUME view \in Views, fact \in Reads[view]
  PROVE  \/ view = "overview" /\ fact \in {"name", "people", "course", "enrolled", "payments", "lessons", "dropped", "pauses"}
         \/ view = "pauses" /\ fact \in {"pauses"}
         \/ view = "roster" /\ fact \in {"name", "people"}
         \/ view = "course" /\ fact \in {"course", "courses"}
         \/ view = "balance" /\ fact \in {"payments", "lessons", "dropped", "pauses"}
         \/ view = "enrolments" /\ fact \in {"name", "enrolled"}
         \/ view = "coursePayments" /\ fact \in {"payments", "name"}
         \/ view = "paymentsList" /\ fact \in {"payments", "name"}
         \/ view = "debts" /\ fact \in {"payments", "lessons", "dropped", "pauses", "course", "name", "schedule"}
         \/ view = "lessons" /\ fact \in {"lessons", "dropped", "payments"}
         \/ view = "marks" /\ fact \in {"marks"}
         \/ view = "calendar" /\ fact \in {"lessons", "dropped", "payments", "schedule", "name"}
  BY DEF Views, Tree, Reads

LEMMA UnderTable ==
  /\ Under({"payments"}) = {"coursePayments", "paymentsList", "debts"}
  /\ Under({"courses"}) = {"course", "balance", "enrolments"}
  /\ Under({"students"}) = {"overview", "pauses", "roster"}
  /\ Under({"students", "courses", "calendar"}) =
       {"overview", "pauses", "roster", "course", "balance", "enrolments", "calendar"}
  /\ Under({"payments", "courses", "lessons", "calendar"}) =
       {"coursePayments", "paymentsList", "debts", "course", "balance", "enrolments",
        "lessons", "marks", "calendar"}
  <1>1. Under({"payments"}) = {"coursePayments", "paymentsList", "debts"}
    BY DEF Under, Views, Tree
  <1>2. Under({"courses"}) = {"course", "balance", "enrolments"}
    BY DEF Under, Views, Tree
  <1>3. Under({"students"}) = {"overview", "pauses", "roster"}
    BY DEF Under, Views, Tree
  <1>4. Under({"students", "courses", "calendar"}) =
          {"overview", "pauses", "roster", "course", "balance", "enrolments", "calendar"}
    BY DEF Under, Views, Tree
  <1>5. Under({"payments", "courses", "lessons", "calendar"}) =
          {"coursePayments", "paymentsList", "debts", "course", "balance", "enrolments",
           "lessons", "marks", "calendar"}
    BY DEF Under, Views, Tree
  <1>6. QED
    BY <1>1, <1>2, <1>3, <1>4, <1>5

\* The promises, spelt out.
LEMMA PromiseTable ==
  ASSUME view \in Views, fact \in Reads[view], OnPromise
  PROVE  \/ fact = "payments" /\ view \in {"coursePayments", "paymentsList", "debts"}
         \/ fact = "pauses" /\ view \in {"overview", "pauses", "balance", "debts"}
         \/ fact = "lessons" /\ view \in {"lessons", "calendar"}
         \/ fact = "schedule" /\ view = "calendar"
         \/ fact \in {"people", "name"} /\ view \in {"overview", "pauses", "roster"}
         \/ fact \in {"course", "courses"} /\ view \in {"course", "balance", "enrolments"}
         \/ fact = "enrolled" /\ view = "enrolments"
         \/ fact = "marks" /\ view = "marks"
  BY ReadsTable, UnderTable DEF OnPromise, Promised

\* Every change a handler makes, with what it tells.
LEMMA CoverageTable ==
  ASSUME view \in Views, fact \in Reads[view]
  PROVE  /\ Covered({"payments"}, invalidateMoney(TRUE, TRUE))
         /\ Covered({"payments"}, invalidateMoney(TRUE, FALSE))
         /\ Covered({"payments"}, invalidateMoney(FALSE, TRUE))
         /\ Covered({"payments"}, invalidateMoney(FALSE, FALSE))
         /\ Covered({"pauses", "lessons"}, invalidateAfterPause)
         /\ Covered({"pauses"}, invalidateAfterPause)
         /\ Covered({"course"}, Under({"courses"}))
         /\ Covered({"courses"}, Under({"courses"}))
         /\ Covered({"course", "courses"}, Under({"courses"}))
         /\ Covered({"course", "courses", "dropped"}, Under({"courses"}))
         /\ Covered({"enrolled"}, {"enrolments"})
         /\ Covered({"lessons"}, invalidateLessonViews(TRUE))
         /\ Covered({"lessons"}, invalidateLessonViews(FALSE))
         /\ Covered({"marks"}, {"marks"})
         /\ Covered({"name"}, Under({"students"}))
         /\ Covered({"people"}, Under({"students"}))
         /\ Covered({"people", "courses", "schedule"},
                    Under({"students", "courses", "calendar"}))
         /\ Covered({"people", "course", "courses", "enrolled", "dropped"},
                    Under({"students", "courses", "calendar"}))
  <1>1. Covered({"payments"}, invalidateMoney(TRUE, TRUE))
    BY PromiseTable, UnderTable DEF Covered, invalidateMoney
  <1>2. Covered({"payments"}, invalidateMoney(TRUE, FALSE))
    BY PromiseTable, UnderTable DEF Covered, invalidateMoney
  <1>3. Covered({"payments"}, invalidateMoney(FALSE, TRUE))
    BY PromiseTable, UnderTable DEF Covered, invalidateMoney
  <1>4. Covered({"payments"}, invalidateMoney(FALSE, FALSE))
    BY PromiseTable, UnderTable DEF Covered, invalidateMoney
  <1>5. Covered({"pauses", "lessons"}, invalidateAfterPause)
    BY PromiseTable, UnderTable DEF Covered, invalidateAfterPause
  <1>6. Covered({"pauses"}, invalidateAfterPause)
    BY PromiseTable, UnderTable DEF Covered, invalidateAfterPause
  <1>7. Covered({"course"}, Under({"courses"}))
    BY PromiseTable, UnderTable DEF Covered
  <1>8. Covered({"courses"}, Under({"courses"}))
    BY PromiseTable, UnderTable DEF Covered
  <1>9. Covered({"course", "courses"}, Under({"courses"}))
    BY PromiseTable, UnderTable DEF Covered
  <1>10. Covered({"course", "courses", "dropped"}, Under({"courses"}))
    BY PromiseTable, UnderTable DEF Covered
  <1>11. Covered({"enrolled"}, {"enrolments"})
    BY PromiseTable DEF Covered
  <1>12. Covered({"lessons"}, invalidateLessonViews(TRUE))
    BY PromiseTable DEF Covered, invalidateLessonViews
  <1>13. Covered({"lessons"}, invalidateLessonViews(FALSE))
    BY PromiseTable DEF Covered, invalidateLessonViews
  <1>14. Covered({"marks"}, {"marks"})
    BY PromiseTable DEF Covered
  <1>15. Covered({"name"}, Under({"students"}))
    BY PromiseTable, UnderTable DEF Covered
  <1>16. Covered({"people"}, Under({"students"}))
    BY PromiseTable, UnderTable DEF Covered
  <1>17. Covered({"people", "courses", "schedule"},
                 Under({"students", "courses", "calendar"}))
    BY PromiseTable, UnderTable DEF Covered
  <1>18. Covered({"people", "course", "courses", "enrolled", "dropped"},
                 Under({"students", "courses", "calendar"}))
    BY PromiseTable, UnderTable DEF Covered
  <1>19. QED
    BY <1>1, <1>2, <1>3, <1>4, <1>5, <1>6, <1>7, <1>8, <1>9, <1>10, <1>11, <1>12, <1>13,
       <1>14, <1>15, <1>16, <1>17, <1>18

-----------------------------------------------------------------------------
(* TutorScreens: types *)

Change == [changes : BOOLEAN, tells : BOOLEAN, stage : {"none", "sent", "done"},
           next : {"none", "archive", "enrol"}, form : BOOLEAN, pays : BOOLEAN]
Entry == [held : BOOLEAN, stale : BOOLEAN, lag : Outdated]
Request == [at : {"no", "sent", "read"}, lag : Outdated]
Form == [mode : {"closed", "new", "edit"}, mine : BOOLEAN, busy : BOOLEAN]

\* On a promise, what a change makes wrong is told to the query.
Truthful(promise, j) == promise /\ j.changes => j.tells

ScreensTypes ==
  /\ view \in Views /\ fact \in Reads[view] /\ page \in Pages
  /\ cache \in Entry /\ get \in Request /\ jobs \in [Slots -> Change] /\ form \in Form
  /\ excuse \in BOOLEAN /\ paid \in 0..2
  /\ form.mode = "edit" => page \in {"card", "course", "payments"}
  /\ \A s \in Slots : Truthful(OnPromise, jobs[s])

\* A change is under way that was not before.
AddsJob(s, j) ==
  /\ jobs[s].stage = "none" /\ jobs' = [jobs EXCEPT ![s] = j]
  /\ j.stage = "sent" /\ Truthful(OnPromise, j)

LEMMA NoJobType == NoJob \in Change /\ Truthful(OnPromise, NoJob) /\ NoJob.stage = "none" /\ ~NoJob.pays
  BY DEF NoJob, Change, Truthful

LEMMA JobType ==
  ASSUME NEW changes, NEW tells, NEW next \in {"none", "archive", "enrol"},
         Covered(changes, tells)
  PROVE  /\ Job(changes, tells, next) \in Change
         /\ Truthful(OnPromise, Job(changes, tells, next))
         /\ Job(changes, tells, next).stage = "sent"
         /\ Job(changes, tells, next).pays = FALSE
  <1>1. (fact \in changes) \in BOOLEAN /\ (view \in tells) \in BOOLEAN
    OBVIOUS
  <1>2. Job(changes, tells, next) \in Change
    BY <1>1 DEF Job, Change
  <1>3. Truthful(OnPromise, Job(changes, tells, next))
    BY DEF Truthful, Job, Covered
  <1>4. QED
    BY <1>2, <1>3 DEF Job

LEMMA SendsStep ==
  ASSUME NEW p, NEW changes, NEW tells, Covered(changes, tells),
         Sends(p, changes, tells)
  PROVE  /\ \E s \in Slots : \E j \in Change : AddsJob(s, j) /\ ~j.pays
         /\ UNCHANGED <<view, fact, page, cache, get, form, paid, excuse>>
  <1> DEFINE j == Job(changes, tells, "none")
  <1>1. j \in Change /\ Truthful(OnPromise, j) /\ j.stage = "sent" /\ ~j.pays
    BY JobType
  <1>2. Starts(j) /\ UNCHANGED <<view, fact, page, cache, get, form, paid, excuse>>
    BY DEF Sends
  <1> HIDE DEF j
  <1>3. QED
    BY <1>1, <1>2 DEF Starts, AddsJob

LEMMA HandlersStep ==
  ASSUME view \in Views, fact \in Reads[view], Handlers
  PROVE  /\ \E s \in Slots : \E j \in Change : AddsJob(s, j) /\ ~j.pays
         /\ UNCHANGED <<view, fact, page, cache, get, form, paid, excuse>>
  <1>1. CASE BulkPay
    BY <1>1, CoverageTable, SendsStep DEF BulkPay
  <1>2. CASE DeleteOnCard \/ DeleteOnCourse \/ DeleteOnPayments
    BY <1>2, CoverageTable, SendsStep DEF DeleteOnCard, DeleteOnCourse, DeleteOnPayments
  <1>3. CASE Freeze \/ Unfreeze
    BY <1>3, CoverageTable, SendsStep DEF Freeze, Unfreeze
  <1>4. CASE EditPrice \/ RestoreCourse \/ Enrol \/ Unenrol
    BY <1>4, CoverageTable, SendsStep DEF EditPrice, RestoreCourse, Enrol, Unenrol
  <1>5. CASE LessonOnCard \/ LessonsOnCourse \/ SaveMarks
    BY <1>5, CoverageTable, SendsStep DEF LessonOnCard, LessonsOnCourse, SaveMarks
  <1>6. CASE CreateGroup
    <2> DEFINE j == Job({"courses"}, Under({"courses"}), "enrol")
    <2>1. j \in Change /\ Truthful(OnPromise, j) /\ j.stage = "sent" /\ ~j.pays
      BY JobType, CoverageTable
    <2>2. Starts(j) /\ UNCHANGED <<view, fact, page, cache, get, form, paid, excuse>>
      BY <1>6 DEF CreateGroup
    <2> HIDE DEF j
    <2>3. QED
      BY <2>1, <2>2 DEF Starts, AddsJob
  <1>7. ASSUME NEW p \in Pages, EditCourse(p) \/ ArchiveCourse(p)
        PROVE  /\ \E s \in Slots : \E j \in Change : AddsJob(s, j) /\ ~j.pays
               /\ UNCHANGED <<view, fact, page, cache, get, form, paid, excuse>>
    BY <1>7, CoverageTable, SendsStep DEF EditCourse, ArchiveCourse
  <1>8. ASSUME NEW p \in Pages, EditStudent(p) \/ RestoreStudent(p) \/ Onboard(p)
        PROVE  /\ \E s \in Slots : \E j \in Change : AddsJob(s, j) /\ ~j.pays
               /\ UNCHANGED <<view, fact, page, cache, get, form, paid, excuse>>
    BY <1>8, CoverageTable, SendsStep DEF EditStudent, RestoreStudent, Onboard
  <1>9. ASSUME NEW p \in Pages, RemoveStudent(p)
        PROVE  /\ \E s \in Slots : \E j \in Change : AddsJob(s, j) /\ ~j.pays
               /\ UNCHANGED <<view, fact, page, cache, get, form, paid, excuse>>
    <2> DEFINE j == Job({"people", "course", "courses", "enrolled", "dropped"},
                        Under({"students", "courses", "calendar"}), "archive")
    <2>1. j \in Change /\ Truthful(OnPromise, j) /\ j.stage = "sent" /\ ~j.pays
      BY JobType, CoverageTable
    <2>2. Starts(j) /\ UNCHANGED <<view, fact, page, cache, get, form, paid, excuse>>
      BY <1>9 DEF RemoveStudent
    <2> HIDE DEF j
    <2>3. QED
      BY <2>1, <2>2 DEF Starts, AddsJob
  <1>10. QED
    BY <1>1, <1>2, <1>3, <1>4, <1>5, <1>6, <1>7, <1>8, <1>9 DEF Handlers

\* The payment form sends its request.
LEMMA SaveFormStep ==
  ASSUME ScreensTypes, SaveForm
  PROVE  /\ \E s \in Slots : \E j \in Change : AddsJob(s, j) /\ j.pays = form.mine
         /\ ~form.busy /\ form' = [form EXCEPT !.busy = form.mine]
         /\ UNCHANGED <<view, fact, page, cache, get, paid, excuse>>
  <1>1. Starts(Payment) /\ form.mode # "closed" /\ ~form.busy
    BY DEF SaveForm, MaySave
  <1>2. form.mode \in {"new", "edit"} /\ form.mine \in BOOLEAN
    BY <1>1 DEF ScreensTypes, Form
  <1>3. PICK of \in Change : /\ Truthful(OnPromise, of) /\ of.stage = "sent"
                             /\ Payment = [of EXCEPT !.form = TRUE, !.pays = form.mine]
    <2>1. CASE form.mode = "new" \/ page = "card"
      <3>1. Payment = [Job({"payments"}, invalidateMoney(TRUE, TRUE), "none")
                         EXCEPT !.form = TRUE, !.pays = form.mine]
        BY <2>1 DEF Payment
      <3>2. QED
        BY <3>1, JobType, CoverageTable DEF ScreensTypes
    <2>2. CASE form.mode = "edit" /\ page = "course"
      <3>1. Payment = [Job({"payments"}, invalidateMoney(TRUE, FALSE), "none")
                         EXCEPT !.form = TRUE, !.pays = form.mine]
        BY <2>2 DEF Payment
      <3>2. QED
        BY <3>1, JobType, CoverageTable DEF ScreensTypes
    <2>3. CASE form.mode = "edit" /\ page = "payments"
      <3>1. Payment = [Job({"payments"}, invalidateMoney(FALSE, FALSE), "none")
                         EXCEPT !.form = TRUE, !.pays = form.mine]
        BY <2>3 DEF Payment
      <3>2. QED
        BY <3>1, JobType, CoverageTable DEF ScreensTypes
    <2>4. QED
      BY <1>2, <2>1, <2>2, <2>3 DEF ScreensTypes
  <1>4. Payment \in Change /\ Truthful(OnPromise, Payment) /\ Payment.stage = "sent" /\ Payment.pays = form.mine
    BY <1>2, <1>3 DEF Change, Truthful
  <1>5. QED
    BY <1>1, <1>4 DEF Starts, AddsJob, SaveForm

\* What a change and a missed word do to what is known of an answer.
LEMMA LagFacts ==
  ASSUME NEW lag \in Outdated, NEW j \in Change
  PROVE  /\ Behind(lag, j) \in Outdated
         /\ Behind(lag, j).behind <=> lag.behind \/ j.changes
         /\ Behind(lag, j).missed = lag.missed
         /\ Missed(lag) \in Outdated
         /\ Missed(lag).behind = lag.behind
         /\ lag.behind => Missed(lag).missed
  <1>1. (lag.behind \/ j.changes) \in BOOLEAN /\ (lag.missed \/ lag.behind) \in BOOLEAN
    OBVIOUS
  <1>2. QED
    BY <1>1 DEF Behind, Missed, Outdated, Change

LEMMA UpToDateType == UpToDate \in Outdated /\ ~UpToDate.behind
  BY DEF UpToDate, Outdated

LEMMA AddsStep ==
  ASSUME ScreensTypes, NEW s \in Slots, NEW j \in Change, AddsJob(s, j)
  PROVE  /\ jobs' \in [Slots -> Change] /\ \A t \in Slots : Truthful(OnPromise, jobs'[t])
         /\ jobs'[s] = j /\ \A t \in Slots : t # s => jobs'[t] = jobs[t]
  <1>1. jobs' \in [Slots -> Change] /\ jobs'[s] = j /\ \A t \in Slots : t # s => jobs'[t] = jobs[t]
    BY DEF ScreensTypes, AddsJob
  <1>2. QED
    BY <1>1 DEF ScreensTypes, AddsJob

\* Its slot is handed on to another change, or freed.
LEMMA SlotStep ==
  ASSUME ScreensTypes, NEW s \in Slots, NEW j \in Change, Truthful(OnPromise, j), jobs' = [jobs EXCEPT ![s] = j]
  PROVE  /\ jobs' \in [Slots -> Change] /\ \A t \in Slots : Truthful(OnPromise, jobs'[t])
         /\ jobs'[s] = j /\ \A t \in Slots : t # s => jobs'[t] = jobs[t]
  BY DEF ScreensTypes

LEMMA ThemType ==
  ASSUME view \in Views, fact \in Reads[view]
  PROVE  /\ EnrolThem \in Change /\ Truthful(OnPromise, EnrolThem) /\ EnrolThem.stage = "sent" /\ ~EnrolThem.pays
         /\ ArchiveThem \in Change /\ Truthful(OnPromise, ArchiveThem) /\ ArchiveThem.stage = "sent" /\ ~ArchiveThem.pays
  BY JobType, CoverageTable DEF EnrolThem, ArchiveThem

\* A change that has landed is what it was, but done.
LEMMA LandsStep ==
  ASSUME ScreensTypes, NEW s \in Slots, Lands(s)
  PROVE  /\ jobs' \in [Slots -> Change] /\ \A t \in Slots : Truthful(OnPromise, jobs'[t])
         /\ jobs[s].stage = "sent" /\ jobs'[s].stage = "done"
         /\ jobs'[s].changes = jobs[s].changes
         /\ jobs'[s].tells = jobs[s].tells /\ jobs'[s].pays = jobs[s].pays
         /\ \A t \in Slots : t # s => jobs'[t] = jobs[t]
  <1> DEFINE j == [jobs[s] EXCEPT !.stage = "done"]
  <1>1. jobs[s] \in Change /\ Truthful(OnPromise, jobs[s])
    BY DEF ScreensTypes
  <1>2. /\ j \in Change /\ Truthful(OnPromise, j) /\ j.stage = "done" /\ j.changes = jobs[s].changes
        /\ j.tells = jobs[s].tells /\ j.pays = jobs[s].pays
    BY <1>1 DEF Change, Truthful
  <1>3. jobs' = [jobs EXCEPT ![s] = j] /\ jobs[s].stage = "sent"
    BY DEF Lands
  <1> HIDE DEF j
  <1>4. QED
    BY <1>2, <1>3, SlotStep

\* What Succeeds, Refused and AnswerLost put in the place of a change.
LEMMA EndsStep ==
  ASSUME ScreensTypes, NEW s \in Slots, Succeeds(s) \/ Refused(s) \/ AnswerLost(s)
  PROVE  /\ jobs' \in [Slots -> Change] /\ \A t \in Slots : Truthful(OnPromise, jobs'[t])
         /\ jobs[s].stage \in {"sent", "done"} /\ jobs'[s].stage \in {"none", "sent"} /\ ~jobs'[s].pays
         /\ \A t \in Slots : t # s => jobs'[t] = jobs[t]
  <1>1. /\ EnrolThem \in Change /\ Truthful(OnPromise, EnrolThem) /\ EnrolThem.stage = "sent" /\ ~EnrolThem.pays
        /\ ArchiveThem \in Change /\ Truthful(OnPromise, ArchiveThem) /\ ArchiveThem.stage = "sent" /\ ~ArchiveThem.pays
    BY ThemType DEF ScreensTypes
  <1>2. \E j \in {NoJob, EnrolThem, ArchiveThem} : jobs' = [jobs EXCEPT ![s] = j]
    <2>1. CASE Succeeds(s)
      BY <2>1 DEF Succeeds
    <2>2. CASE Refused(s)
      BY <2>2 DEF Refused
    <2>3. CASE AnswerLost(s)
      BY <2>3 DEF AnswerLost
    <2>4. QED
      BY <2>1, <2>2, <2>3
  <1>3. PICK j \in Change : /\ jobs' = [jobs EXCEPT ![s] = j] /\ Truthful(OnPromise, j)
                            /\ j.stage \in {"none", "sent"} /\ ~j.pays
    BY <1>1, <1>2, NoJobType
  <1>4. jobs[s].stage \in {"sent", "done"}
    BY DEF Succeeds, Refused, AnswerLost
  <1>5. QED
    BY <1>3, <1>4, SlotStep

LEMMA ReleasedStep ==
  ASSUME form \in Form, excuse \in BOOLEAN, NEW j \in Change, Released(j)
  PROVE  /\ form' \in Form /\ form'.mode = form.mode /\ form'.mine = form.mine
         /\ form'.busy <=> form.busy /\ ~j.form
         /\ excuse' \in BOOLEAN
         /\ ~excuse' => ~excuse /\ (j.form /\ form.busy => j.pays /\ j.stage # "done")
  <1>1. (form.busy /\ ~j.form) \in BOOLEAN
    OBVIOUS
  <1>2. form' = [form EXCEPT !.busy = form.busy /\ ~j.form]
    BY DEF Released
  <1>3. form' \in Form /\ form'.mode = form.mode /\ form'.mine = form.mine /\ form'.busy = (form.busy /\ ~j.form)
    BY <1>1, <1>2 DEF Form
  <1>4. QED
    BY <1>3 DEF Released

\* What is followed does not change, nor what is promised of it.
LEMMA PromiseStays == ASSUME ScreensNext PROVE OnPromise' = OnPromise
  <1>1. UNCHANGED <<view, fact>>
    BY DEF ScreensNext, GoTo, TwoMinutes, TenMinutes, Served, Answered, GetFails, Handlers, Sends,
           BulkPay, DeleteOnCard, DeleteOnCourse, DeleteOnPayments, Freeze, Unfreeze, EditPrice,
           RestoreCourse, Enrol, Unenrol, LessonOnCard, LessonsOnCourse, SaveMarks, CreateGroup,
           EditCourse, ArchiveCourse, EditStudent, RestoreStudent, Onboard, RemoveStudent,
           OpenForm, CloseForm, SaveForm, Lands, Succeeds, Refused, AnswerLost
  <1>2. QED
    BY <1>1 DEF OnPromise

LEMMA ScreensTypesStep ==
  ASSUME ScreensTypes, ScreensNext
  PROVE  ScreensTypes'
  <1>0. /\ cache \in Entry /\ cache.lag \in Outdated /\ cache.held \in BOOLEAN
        /\ get \in Request /\ get.lag \in Outdated
        /\ form \in Form /\ jobs \in [Slots -> Change] /\ excuse \in BOOLEAN
    BY DEF ScreensTypes, Entry, Request
  <1>u. OnPromise' = OnPromise
    BY PromiseStays
  <1>i. Empty \in Entry /\ Idle \in Request /\ Sent \in Request /\ NoForm \in Form /\ NoForm.mode = "closed"
    BY UpToDateType DEF Empty, Idle, Sent, Entry, Request, NoForm, Form
  <1>1. ASSUME NEW p \in Pages, GoTo(p)
        PROVE  ScreensTypes'
    <2>1. jobs' = [s \in Slots |-> [jobs[s] EXCEPT !.form = FALSE]]
      BY <1>1 DEF GoTo
    <2>2. jobs' \in [Slots -> Change] /\ \A s \in Slots : Truthful(OnPromise, jobs'[s])
      <3>1. ASSUME NEW s \in Slots
            PROVE  [jobs[s] EXCEPT !.form = FALSE] \in Change /\ Truthful(OnPromise, [jobs[s] EXCEPT !.form = FALSE])
        BY <1>0 DEF Change, ScreensTypes, Truthful
      <3>2. QED
        BY <2>1, <3>1
    <2>3. get' \in Request
      BY <1>0, <1>1, <1>i DEF GoTo
    <2>4. QED
      BY <1>u, <1>1, <1>i, <2>2, <2>3 DEF GoTo, ScreensTypes
  <1>2. CASE TwoMinutes
    BY <1>u, <1>0, <1>2 DEF TwoMinutes, ScreensTypes, Entry
  <1>3. CASE TenMinutes
    BY <1>u, <1>0, <1>3, <1>i DEF TenMinutes, ScreensTypes
  <1>4. CASE Served
    BY <1>u, <1>0, <1>4 DEF Served, ScreensTypes, Request
  <1>5. CASE Answered
    <2>1. cache' \in Entry /\ get' \in Request
      BY <1>0, <1>5, <1>i DEF Answered, Entry
    <2>2. PICK restarts : /\ form' = [form EXCEPT !.busy = form.busy /\ ~restarts]
                          /\ excuse' = (excuse \/ (restarts /\ form.busy))
      BY <1>5 DEF Answered
    <2>3. (form.busy /\ ~restarts) \in BOOLEAN /\ (excuse \/ (restarts /\ form.busy)) \in BOOLEAN
      OBVIOUS
    <2>4. form' \in Form /\ form'.mode = form.mode /\ excuse' \in BOOLEAN
      BY <1>0, <2>2, <2>3 DEF Form
    <2>5. QED
      BY <1>u, <1>5, <2>1, <2>4 DEF Answered, ScreensTypes
  <1>6. CASE GetFails
    BY <1>u, <1>6, <1>i DEF GetFails, ScreensTypes
  <1>7. CASE Handlers
    BY <1>u, <1>7, HandlersStep, AddsStep DEF ScreensTypes
  <1>8. ASSUME NEW mode \in {"new", "edit"}, OpenForm(mode)
        PROVE  ScreensTypes'
    <2>1. form' \in Form /\ form'.mode = mode
      BY <1>8 DEF OpenForm, Form
    <2>2. mode = "edit" => page \in {"card", "course", "payments"}
      BY <1>8 DEF OpenForm
    <2>3. QED
      BY <1>u, <1>8, <2>1, <2>2 DEF OpenForm, ScreensTypes
  <1>9. CASE CloseForm
    BY <1>u, <1>9, <1>i DEF CloseForm, ScreensTypes
  <1>10. CASE SaveForm
    <2>1. form' \in Form /\ form'.mode = form.mode
      BY <1>0, <1>10, SaveFormStep DEF Form
    <2>2. jobs' \in [Slots -> Change] /\ \A s \in Slots : Truthful(OnPromise, jobs'[s])
      BY <1>10, SaveFormStep, AddsStep
    <2>3. QED
      BY <1>u, <1>10, SaveFormStep, <2>1, <2>2 DEF ScreensTypes
  <1>11. ASSUME NEW s \in Slots, Lands(s)
         PROVE  ScreensTypes'
    <2>1. jobs' \in [Slots -> Change] /\ \A t \in Slots : Truthful(OnPromise, jobs'[t])
      BY <1>11, LandsStep
    <2>2. jobs[s] \in Change
      BY <1>0
    <2>3. Behind(cache.lag, jobs[s]) \in Outdated /\ Behind(get.lag, jobs[s]) \in Outdated
      BY <1>0, <2>2, LagFacts
    <2>4. /\ cache' = IF cache.held THEN [cache EXCEPT !.lag = Behind(cache.lag, jobs[s])] ELSE cache
          /\ get' = IF get.at = "read" THEN [get EXCEPT !.lag = Behind(get.lag, jobs[s])] ELSE get
      BY <1>11 DEF Lands
    <2>5. cache' \in Entry /\ get' \in Request
      BY <1>0, <2>3, <2>4 DEF Entry, Request
    <2>6. paid' \in 0..2
      BY <1>u, <1>11 DEF Lands, ScreensTypes
    <2>7. UNCHANGED <<view, fact, page, form, excuse>>
      BY <1>11 DEF Lands
    <2>8. QED
      BY <1>u, <2>1, <2>5, <2>6, <2>7 DEF ScreensTypes
  <1>12. ASSUME NEW s \in Slots, Succeeds(s)
         PROVE  ScreensTypes'
    <2>1. jobs' \in [Slots -> Change] /\ \A t \in Slots : Truthful(OnPromise, jobs'[t])
      BY <1>12, EndsStep
    <2>2. NoJob \in Change /\ Missed(get.lag) \in Outdated
      BY <1>0, NoJobType, LagFacts
    <2>3. cache' \in Entry /\ get' \in Request
      <3>1. CASE jobs[s].tells
        <4>1. Invalidated
          BY <1>12, <3>1 DEF Succeeds
        <4>2. /\ cache' = [cache EXCEPT !.stale = cache.held]
              /\ get' \in {Sent, [get EXCEPT !.lag = Missed(get.lag)], get}
          BY <4>1 DEF Invalidated
        <4>3. QED
          BY <1>0, <1>i, <2>2, <4>2 DEF Entry, Request
      <3>2. CASE ~jobs[s].tells
        BY <1>0, <1>12, <3>2 DEF Succeeds
      <3>3. QED
        BY <3>1, <3>2
    <2>4. form' \in {NoForm, form}
      BY <1>12 DEF Succeeds
    <2>5. UNCHANGED <<view, fact, page, paid, excuse>>
      BY <1>12 DEF Succeeds
    <2>6. QED
      BY <1>u, <1>0, <1>i, <2>1, <2>3, <2>4, <2>5 DEF ScreensTypes
  <1>13. ASSUME NEW s \in Slots, Refused(s) \/ AnswerLost(s)
         PROVE  ScreensTypes'
    <2>1. jobs' \in [Slots -> Change] /\ \A t \in Slots : Truthful(OnPromise, jobs'[t])
      BY <1>13, EndsStep
    <2>2. Missed(cache.lag) \in Outdated /\ Missed(get.lag) \in Outdated /\ jobs[s] \in Change
      BY <1>0, NoJobType, LagFacts
    <2>3. cache' \in {cache, [cache EXCEPT !.lag = Missed(cache.lag)]}
          /\ get' \in {get, [get EXCEPT !.lag = Missed(get.lag)]}
      BY <1>13 DEF Refused, AnswerLost
    <2>4. cache' \in Entry /\ get' \in Request
      BY <1>0, <2>2, <2>3 DEF Entry, Request
    <2>5. Released(jobs[s]) /\ UNCHANGED <<view, fact, page, paid>>
      BY <1>13 DEF Refused, AnswerLost
    <2>6. form' \in Form /\ form'.mode = form.mode /\ excuse' \in BOOLEAN
      BY <1>0, <2>2, <2>5, ReleasedStep
    <2>7. QED
      BY <1>u, <2>1, <2>4, <2>5, <2>6 DEF ScreensTypes
  <1>14. QED
    BY <1>1, <1>2, <1>3, <1>4, <1>5, <1>6, <1>7, <1>8, <1>9, <1>10, <1>11, <1>12, <1>13 DEF ScreensNext

-----------------------------------------------------------------------------
(* TutorScreens: what a query counts as fresh *)

\* The answer is behind, and the word of it has not been missed.
Hidden(lag) == lag.behind /\ ~lag.missed

\* A change has been made and its handler is about to say so.
WordDue == \E s \in Slots : jobs[s].stage = "done" /\ jobs[s].changes /\ jobs[s].tells

Told ==
  /\ OnPromise /\ cache.held /\ ~cache.stale /\ Hidden(cache.lag) => WordDue
  /\ OnPromise /\ get.at = "read" /\ Hidden(get.lag) => WordDue
  /\ get.at # "read" => ~get.lag.behind

LEMMA ToldFrame ==
  ASSUME Told, WordDue => WordDue', OnPromise' = OnPromise, UNCHANGED <<cache, get>>
  PROVE  Told'
  BY DEF Told, Hidden

LEMMA ToldStep ==
  ASSUME ScreensTypes, Told, ScreensNext
  PROVE  Told'
  <1>0. /\ cache \in Entry /\ cache.lag \in Outdated /\ cache.held \in BOOLEAN
        /\ get \in Request /\ get.lag \in Outdated
        /\ form \in Form /\ jobs \in [Slots -> Change]
    BY DEF ScreensTypes, Entry, Request
  <1>u. OnPromise' = OnPromise
    BY PromiseStays
  <1>i. /\ ~Empty.held /\ Idle.at = "no" /\ ~Idle.lag.behind /\ Sent.at = "sent" /\ ~Sent.lag.behind
    BY UpToDateType DEF Empty, Idle, Sent
  <1>1. ASSUME NEW p \in Pages, GoTo(p)
        PROVE  Told'
    <2>1. jobs' = [s \in Slots |-> [jobs[s] EXCEPT !.form = FALSE]]
      BY <1>1 DEF GoTo
    <2>2. \A s \in Slots : jobs'[s].stage = jobs[s].stage
            /\ jobs'[s].changes = jobs[s].changes /\ jobs'[s].tells = jobs[s].tells
      BY <1>0, <2>1 DEF Change
    <2>3. WordDue => WordDue'
      BY <2>2 DEF WordDue
    <2>4. UNCHANGED cache /\ (get' = get \/ get' = Sent)
      BY <1>1 DEF GoTo
    <2>5. QED
      BY <1>u, <1>i, <2>3, <2>4 DEF Told, Hidden
  <1>2. CASE TwoMinutes
    <2>1. cache'.stale /\ UNCHANGED <<get, jobs>>
      BY <1>0, <1>2 DEF TwoMinutes, Entry
    <2>2. QED
      BY <1>u, <2>1 DEF Told, WordDue
  <1>3. CASE TenMinutes
    <2>1. ~cache'.held /\ UNCHANGED <<get, jobs>>
      BY <1>3, <1>i DEF TenMinutes
    <2>2. QED
      BY <1>u, <2>1 DEF Told, WordDue
  <1>4. CASE Served
    <2>1. get'.at = "read" /\ get'.lag = get.lag /\ get.at = "sent" /\ UNCHANGED <<cache, jobs>>
      BY <1>0, <1>4 DEF Served, Request
    <2>2. QED
      BY <1>u, <2>1 DEF Told, Hidden, WordDue
  <1>5. CASE Answered
    <2>1. cache'.lag = get.lag /\ get.at = "read" /\ get' = Idle /\ UNCHANGED jobs
      BY <1>5 DEF Answered
    <2>2. QED
      BY <1>u, <1>i, <2>1 DEF Told, Hidden, WordDue
  <1>6. CASE GetFails
    <2>1. get' = Idle /\ UNCHANGED <<cache, jobs>>
      BY <1>6 DEF GetFails
    <2>2. QED
      BY <1>u, <1>i, <2>1 DEF Told, Hidden, WordDue
  <1>a. ASSUME NEW s \in Slots, NEW j \in Change, AddsJob(s, j)
        PROVE  WordDue => WordDue'
    <2>1. jobs[s].stage = "none" /\ \A t \in Slots : t # s => jobs'[t] = jobs[t]
      BY <1>a, AddsStep DEF AddsJob
    <2>2. QED
      BY <2>1 DEF WordDue
  <1>7. CASE Handlers
    <2>1. (WordDue => WordDue') /\ UNCHANGED <<cache, get>>
      BY <1>7, <1>a, HandlersStep DEF ScreensTypes
    <2>2. QED
      BY <2>1, <1>u, ToldFrame
  <1>8. CASE \E mode \in {"new", "edit"} : OpenForm(mode)
    <2>1. UNCHANGED <<jobs, cache, get>>
      BY <1>8 DEF OpenForm
    <2>2. QED
      BY <2>1, <1>u, ToldFrame DEF WordDue
  <1>9. CASE CloseForm
    <2>1. UNCHANGED <<jobs, cache, get>>
      BY <1>9 DEF CloseForm
    <2>2. QED
      BY <2>1, <1>u, ToldFrame DEF WordDue
  <1>10. CASE SaveForm
    <2>1. (WordDue => WordDue') /\ UNCHANGED <<cache, get>>
      BY <1>10, <1>a, SaveFormStep
    <2>2. QED
      BY <2>1, <1>u, ToldFrame
  <1>11. ASSUME NEW s \in Slots, Lands(s)
         PROVE  Told'
    <2> DEFINE j == jobs[s]
    <2>1. j \in Change /\ Truthful(OnPromise, j)
      BY <1>0 DEF ScreensTypes
    <2>2. /\ jobs[s].stage = "sent" /\ jobs'[s].stage = "done" /\ jobs'[s].changes = jobs[s].changes
          /\ jobs'[s].tells = jobs[s].tells
          /\ \A t \in Slots : t # s => jobs'[t] = jobs[t]
      BY <1>11, LandsStep
    <2>3. (WordDue => WordDue') /\ (j.changes /\ j.tells => WordDue')
      BY <2>2 DEF WordDue
    <2>4. /\ cache' = IF cache.held THEN [cache EXCEPT !.lag = Behind(cache.lag, j)] ELSE cache
          /\ get' = IF get.at = "read" THEN [get EXCEPT !.lag = Behind(get.lag, j)] ELSE get
      BY <1>11 DEF Lands
    <2> HIDE DEF j
    <2>5. ASSUME NEW lag \in Outdated, Hidden(Behind(lag, j))
          PROVE  ~OnPromise \/ Hidden(lag) \/ WordDue'
      BY <2>1, <2>3, <2>5, LagFacts DEF Hidden, Truthful
    <2>6. /\ cache'.held = cache.held /\ cache'.stale = cache.stale
          /\ cache.held => cache'.lag = Behind(cache.lag, j)
          /\ get'.at = get.at
          /\ get.at = "read" => get'.lag = Behind(get.lag, j)
          /\ get.at # "read" => get'.lag = get.lag
      BY <1>0, <2>4 DEF Entry, Request
    <2>7. QED
      BY <1>u, <1>0, <2>3, <2>5, <2>6 DEF Told
  <1>12. ASSUME NEW s \in Slots, Succeeds(s)
         PROVE  Told'
    <2>1. /\ jobs[s].stage \in {"sent", "done"} /\ jobs'[s].stage \in {"none", "sent"}
          /\ \A t \in Slots : t # s => jobs'[t] = jobs[t]
      BY <1>12, EndsStep
    <2>2. CASE jobs[s].tells
      <3>1. Invalidated
        BY <1>12, <2>2 DEF Succeeds
      <3>2. /\ cache' = [cache EXCEPT !.stale = cache.held]
            /\ \/ get' = Sent
               \/ get.at = "read" /\ get' = [get EXCEPT !.lag = Missed(get.lag)]
               \/ get.at # "read" /\ get' = get
        BY <3>1 DEF Invalidated
      <3>3. cache'.held => cache'.stale
        BY <1>0, <3>2 DEF Entry
      <3>4. \/ get'.at = "sent" /\ ~get'.lag.behind
            \/ get'.at = "read" /\ get'.lag = Missed(get.lag)
            \/ get'.at # "read" /\ ~get'.lag.behind
        BY <1>u, <1>0, <1>i, <3>2 DEF Request, Told
      <3>5. ~Hidden(Missed(get.lag))
        BY <1>0, LagFacts, NoJobType DEF Hidden
      <3>6. QED
        BY <1>u, <3>3, <3>4, <3>5 DEF Told
    <2>3. CASE ~jobs[s].tells
      <3>1. UNCHANGED <<cache, get>>
        BY <1>12, <2>3 DEF Succeeds
      <3>2. WordDue => WordDue'
        BY <2>1, <2>3 DEF WordDue
      <3>3. QED
        BY <3>1, <3>2, <1>u, ToldFrame
    <2>4. QED
      BY <2>2, <2>3
  <1>13. ASSUME NEW s \in Slots, Refused(s)
         PROVE  Told'
    <2>1. UNCHANGED <<cache, get>> /\ jobs[s].stage = "sent"
      BY <1>13 DEF Refused
    <2>2. \A t \in Slots : t # s => jobs'[t] = jobs[t]
      BY <1>13, EndsStep
    <2>3. WordDue => WordDue'
      BY <2>1, <2>2 DEF WordDue
    <2>4. QED
      BY <2>1, <2>3, <1>u, ToldFrame
  <1>14. ASSUME NEW s \in Slots, AnswerLost(s)
         PROVE  Told'
    <2>1. CASE jobs[s].changes
      <3>1. cache' = [cache EXCEPT !.lag = Missed(cache.lag)] /\ get' = [get EXCEPT !.lag = Missed(get.lag)]
        BY <1>14, <2>1 DEF AnswerLost
      <3>2. cache'.lag = Missed(cache.lag) /\ get'.lag = Missed(get.lag) /\ get'.at = get.at
        BY <1>0, <3>1 DEF Entry, Request
      <3>3. ~Hidden(Missed(cache.lag)) /\ ~Hidden(Missed(get.lag)) /\ Missed(get.lag).behind = get.lag.behind
        BY <1>0, LagFacts, NoJobType DEF Hidden
      <3>4. QED
        BY <3>2, <3>3 DEF Told
    <2>2. CASE ~jobs[s].changes
      <3>1. UNCHANGED <<cache, get>>
        BY <1>14, <2>2 DEF AnswerLost
      <3>2. \A t \in Slots : t # s => jobs'[t] = jobs[t]
        BY <1>14, EndsStep
      <3>3. WordDue => WordDue'
        BY <2>2, <3>2 DEF WordDue
      <3>4. QED
        BY <1>u, <3>1, <3>3, ToldFrame
    <2>3. QED
      BY <2>1, <2>2
  <1>15. QED
    BY <1>1, <1>2, <1>3, <1>4, <1>5, <1>6, <1>7, <1>8, <1>9, <1>10, <1>11, <1>12, <1>13, <1>14
    DEF ScreensNext

-----------------------------------------------------------------------------
(* TutorScreens: the followed opening of the payment form *)

\* The change under way in a slot records the payment of that opening.
Pays(s) == jobs[s].stage # "none" /\ jobs[s].pays

\* As long as nothing has freed the button too early: one request for the
\* payment at most, not sent again when it is recorded, and none yet where the
\* button is free.
OnePayment ==
  /\ \A s, t \in Slots : Pays(s) /\ Pays(t) => s = t
  /\ \A s \in Slots : Pays(s) /\ jobs[s].stage = "sent" => paid = 0
  /\ form.mine /\ ~form.busy => paid = 0 /\ \A s \in Slots : ~Pays(s)
  /\ paid < 2

\* No payment is added: jobs are only dropped, the form's button is not freed.
LEMMA OnePaymentFrame ==
  ASSUME OnePayment, paid' = paid,
         \A s \in Slots : Pays(s)' => Pays(s) /\ (jobs'[s].stage = "sent" => jobs[s].stage = "sent"),
         form'.mine /\ ~form'.busy => (form.mine /\ ~form.busy) \/ (paid = 0 /\ \A s \in Slots : ~Pays(s)')
  PROVE  OnePayment'
  BY DEF OnePayment

LEMMA OnePaymentStep ==
  ASSUME ScreensTypes, ~excuse => OnePayment, ScreensNext, ~excuse'
  PROVE  OnePayment'
  <1>0. /\ form \in Form /\ jobs \in [Slots -> Change] /\ excuse \in BOOLEAN
        /\ form.mine \in BOOLEAN /\ form.busy \in BOOLEAN
    BY DEF ScreensTypes, Form
  <1>i. ~NoForm.mine
    BY DEF NoForm
  <1>e. ~excuse
    <2>1. CASE \E p \in Pages : GoTo(p)
      BY <2>1 DEF GoTo
    <2>2. CASE TwoMinutes \/ TenMinutes \/ Served \/ GetFails \/ CloseForm \/ SaveForm
      BY <2>2 DEF TwoMinutes, TenMinutes, Served, GetFails, CloseForm, SaveForm
    <2>3. CASE Answered
      BY <2>3 DEF Answered
    <2>4. CASE Handlers
      BY <2>4, HandlersStep DEF ScreensTypes
    <2>5. CASE \E mode \in {"new", "edit"} : OpenForm(mode)
      BY <2>5 DEF OpenForm
    <2>6. CASE \E s \in Slots : Lands(s) \/ Succeeds(s) \/ Refused(s) \/ AnswerLost(s)
      BY <2>6 DEF Lands, Succeeds, Refused, AnswerLost, Released
    <2>7. QED
      BY <2>1, <2>2, <2>3, <2>4, <2>5, <2>6 DEF ScreensNext
  <1>o. OnePayment
    BY <1>e
  <1>1. ASSUME NEW p \in Pages, GoTo(p)
        PROVE  OnePayment'
    <2>1. /\ jobs' = [s \in Slots |-> [jobs[s] EXCEPT !.form = FALSE]]
          /\ form' = NoForm /\ paid' = paid
      BY <1>1 DEF GoTo
    <2>2. \A s \in Slots : jobs'[s].stage = jobs[s].stage /\ jobs'[s].pays = jobs[s].pays
      BY <1>0, <2>1 DEF Change
    <2>3. QED
      BY <1>i, <1>o, <2>1, <2>2, OnePaymentFrame DEF Pays
  <1>2. CASE TwoMinutes \/ TenMinutes \/ Served \/ GetFails
    <2>1. UNCHANGED <<jobs, form, paid>>
      BY <1>2 DEF TwoMinutes, TenMinutes, Served, GetFails
    <2>2. QED
      BY <1>o, <2>1, OnePaymentFrame DEF Pays
  <1>3. CASE Answered
    <2>1. PICK restarts : /\ form' = [form EXCEPT !.busy = form.busy /\ ~restarts]
                          /\ excuse' = (excuse \/ (restarts /\ form.busy))
      BY <1>3 DEF Answered
    <2>2. form.busy /\ ~restarts <=> form.busy
      BY <2>1
    <2>3. form'.mine = form.mine /\ (form'.busy <=> form.busy /\ ~restarts)
      BY <1>0, <2>1 DEF Form
    <2>4. UNCHANGED <<jobs, paid>>
      BY <1>3 DEF Answered
    <2>5. QED
      BY <1>o, <2>2, <2>3, <2>4, OnePaymentFrame DEF Pays
  <1>4. CASE Handlers
    <2>1. UNCHANGED <<form, paid>>
      BY <1>4, HandlersStep DEF ScreensTypes
    <2>2. PICK s \in Slots, j \in Change : AddsJob(s, j) /\ ~j.pays
      BY <1>4, HandlersStep DEF ScreensTypes
    <2>3. ~jobs'[s].pays /\ \A t \in Slots : t # s => jobs'[t] = jobs[t]
      BY <2>2, AddsStep
    <2>4. \A t \in Slots : Pays(t)' => Pays(t) /\ jobs'[t].stage = jobs[t].stage
      BY <2>3 DEF Pays
    <2>5. QED
      BY <1>o, <2>1, <2>4, OnePaymentFrame
  <1>5. ASSUME NEW mode \in {"new", "edit"}, OpenForm(mode)
        PROVE  OnePayment'
    <2>1. /\ UNCHANGED <<jobs, paid>>
          /\ form'.mine => paid = 0 /\ \A s \in Slots : ~jobs[s].pays
      BY <1>5 DEF OpenForm
    <2>2. QED
      BY <1>o, <2>1, OnePaymentFrame DEF Pays
  <1>6. CASE CloseForm
    <2>1. UNCHANGED <<jobs, paid>> /\ form' = NoForm
      BY <1>6 DEF CloseForm
    <2>2. QED
      BY <1>i, <1>o, <2>1, OnePaymentFrame DEF Pays
  <1>7. CASE SaveForm
    <2>1. PICK s \in Slots, j \in Change : AddsJob(s, j) /\ j.pays = form.mine
      BY <1>7, SaveFormStep
    <2>2. ~form.busy /\ form' = [form EXCEPT !.busy = form.mine] /\ paid' = paid
      BY <1>7, SaveFormStep
    <2>3. form'.mine = form.mine /\ form'.busy = form.mine
      BY <1>0, <2>2 DEF Form
    <2>4. jobs'[s] = j /\ j.stage = "sent" /\ \A t \in Slots : t # s => jobs'[t] = jobs[t]
      BY <2>1, AddsStep DEF AddsJob
    <2>5. CASE form.mine
      <3>1. paid = 0 /\ \A t \in Slots : ~Pays(t)
        BY <1>o, <2>2, <2>5 DEF OnePayment
      <3>2. \A t \in Slots : Pays(t)' => t = s
        BY <2>4, <3>1 DEF Pays
      <3>3. QED
        BY <2>2, <2>3, <2>5, <3>1, <3>2 DEF OnePayment
    <2>6. CASE ~form.mine
      <3>1. \A t \in Slots : Pays(t)' => Pays(t) /\ jobs'[t].stage = jobs[t].stage
        BY <2>1, <2>4, <2>6 DEF Pays
      <3>2. QED
        BY <1>o, <2>2, <2>3, <2>6, <3>1, OnePaymentFrame
    <2>7. QED
      BY <2>5, <2>6
  <1>8. ASSUME NEW s \in Slots, Lands(s)
        PROVE  OnePayment'
    <2>1. /\ jobs[s].stage = "sent" /\ jobs'[s].stage = "done" /\ jobs'[s].pays = jobs[s].pays
          /\ \A t \in Slots : t # s => jobs'[t] = jobs[t]
      BY <1>8, LandsStep
    <2>2. UNCHANGED form /\ paid' = IF jobs[s].pays /\ paid < 2 THEN paid + 1 ELSE paid
      BY <1>8 DEF Lands
    <2>3. CASE jobs[s].pays
      <3>1. Pays(s) /\ paid = 0
        BY <1>o, <2>1, <2>3 DEF OnePayment, Pays
      <3>2. paid' = 1
        BY <2>2, <2>3, <3>1
      <3>3. \A t \in Slots : Pays(t)' => t = s
        BY <1>o, <2>1, <3>1 DEF OnePayment, Pays
      <3>4. ~(form'.mine /\ ~form'.busy)
        BY <1>o, <2>2, <3>1 DEF OnePayment
      <3>5. QED
        BY <2>1, <3>2, <3>3, <3>4 DEF OnePayment
    <2>4. CASE ~jobs[s].pays
      <3>1. paid' = paid
        BY <2>2, <2>4
      <3>2. \A t \in Slots : Pays(t)' => Pays(t) /\ jobs'[t].stage = jobs[t].stage
        BY <2>1, <2>4 DEF Pays
      <3>3. QED
        BY <1>o, <2>2, <3>1, <3>2, OnePaymentFrame
    <2>5. QED
      BY <2>3, <2>4
  <1>9. ASSUME NEW s \in Slots, Succeeds(s) \/ Refused(s) \/ AnswerLost(s)
        PROVE  OnePayment'
    <2>1. /\ jobs[s].stage \in {"sent", "done"} /\ ~jobs'[s].pays
          /\ \A t \in Slots : t # s => jobs'[t] = jobs[t]
      BY <1>9, EndsStep
    <2>2. \A t \in Slots : Pays(t)' => Pays(t) /\ t # s /\ jobs'[t].stage = jobs[t].stage
      BY <2>1 DEF Pays
    <2>3. paid' = paid
      BY <1>9 DEF Succeeds, Refused, AnswerLost
    <2>4. CASE Succeeds(s)
      <3>1. form' = NoForm \/ form' = form
        BY <2>4 DEF Succeeds
      <3>2. QED
        BY <1>i, <1>o, <2>2, <2>3, <3>1, OnePaymentFrame
    <2>5. CASE Refused(s) \/ AnswerLost(s)
      <3>1. Released(jobs[s]) /\ jobs[s] \in Change
        BY <1>0, <2>5 DEF Refused, AnswerLost
      <3>2. /\ form'.mine = form.mine /\ (form'.busy <=> form.busy /\ ~jobs[s].form)
            /\ jobs[s].form /\ form.busy => jobs[s].pays /\ jobs[s].stage # "done"
        BY <1>0, <3>1, ReleasedStep
      <3>3. CASE jobs[s].form /\ form.busy
        <4>1. Pays(s) /\ jobs[s].stage = "sent"
          BY <2>1, <3>2, <3>3 DEF Pays
        <4>2. paid = 0 /\ \A t \in Slots : ~Pays(t)'
          BY <1>o, <2>2, <4>1 DEF OnePayment
        <4>3. QED
          BY <1>o, <2>2, <2>3, <4>2, OnePaymentFrame
      <3>4. CASE ~(jobs[s].form /\ form.busy)
        BY <1>o, <2>2, <2>3, <3>2, <3>4, OnePaymentFrame
      <3>5. QED
        BY <3>3, <3>4
    <2>6. QED
      BY <1>9, <2>4, <2>5
  <1>10. QED
    BY <1>1, <1>2, <1>3, <1>4, <1>5, <1>6, <1>7, <1>8, <1>9 DEF ScreensNext

-----------------------------------------------------------------------------
(* TutorScreens: the theorems *)

ScreensInv == ScreensTypes /\ Told /\ (~excuse => OnePayment)

LEMMA ScreensInvInit == ScreensInit => ScreensInv
  <1> SUFFICES ASSUME ScreensInit PROVE ScreensInv
    OBVIOUS
  <1>1. cache \in Entry /\ get \in Request /\ form \in Form
    BY UpToDateType DEF ScreensInit, Empty, Idle, Sent, NoForm, Entry, Request, Form
  <1>2. jobs = [s \in Slots |-> NoJob]
    BY DEF ScreensInit
  <1>3. jobs \in [Slots -> Change] /\ \A s \in Slots : Truthful(OnPromise, jobs[s]) /\ jobs[s].stage = "none"
    BY <1>2, NoJobType
  <1>4. "dashboard" \in Pages
    BY DEF Pages, Shown
  <1>5. form.mode = "closed" /\ ~form.mine /\ ~cache.held /\ get.at # "read" /\ ~get.lag.behind
    BY UpToDateType DEF ScreensInit, NoForm, Empty, Idle, Sent
  <1>6. view \in Views /\ fact \in Reads[view] /\ page = "dashboard" /\ paid = 0 /\ ~excuse
    BY DEF ScreensInit
  <1>7. excuse \in BOOLEAN
    BY DEF ScreensInit
  <1>8. ScreensTypes
    BY <1>1, <1>3, <1>4, <1>5, <1>6, <1>7 DEF ScreensTypes
  <1>9. Told /\ OnePayment
    BY <1>3, <1>5, <1>6 DEF Told, OnePayment, Pays
  <1>10. QED
    BY <1>8, <1>9 DEF ScreensInv

LEMMA ScreensStutter ==
  ASSUME ScreensInv, UNCHANGED screensVars
  PROVE  ScreensInv'
  <1>1. UNCHANGED <<view, fact, page, cache, get, jobs, form, paid, excuse>>
    BY DEF screensVars
  <1>2. ScreensTypes'
    BY <1>1 DEF ScreensInv, ScreensTypes, OnPromise
  <1>3. Told'
    BY <1>1 DEF ScreensInv, Told, WordDue, OnPromise
  <1>4. (~excuse => OnePayment)'
    BY <1>1 DEF ScreensInv, OnePayment, Pays
  <1>5. QED
    BY <1>2, <1>3, <1>4 DEF ScreensInv

\* Whatever the tutor clicks and whatever the server makes of it, what a query
\* holds is explained by what its handlers said, and the button of the form by
\* what the form has sent.
THEOREM ScreensInvariant == ScreensSpec => []ScreensInv
  <1>1. ScreensInv /\ [ScreensNext]_screensVars => ScreensInv'
    BY ScreensTypesStep, ToldStep, OnePaymentStep, ScreensStutter DEF ScreensInv
  <1>2. QED
    BY <1>1, ScreensInvInit, PTL DEF ScreensSpec

\* However many changes are under way at once: at rest, a query that counts as
\* fresh is right about all the hooks promise, whichever handler made the change,
\* unless the word was missed.
THEOREM FreshIsRight == ScreensSpec => []PromisesAreKept
  <1>1. ScreensInv => PromisesAreKept
    <2> SUFFICES ASSUME ScreensInv PROVE PromisesAreKept
      OBVIOUS
    <2>1. ScreensTypeOK
      <3>1. \A s \in Slots : /\ jobs[s].stage \in {"none", "sent", "done"}
                             /\ jobs[s].next \in {"none", "archive", "enrol"}
        BY DEF ScreensInv, ScreensTypes, Change
      <3>2. QED
        BY <3>1 DEF ScreensInv, ScreensTypes, ScreensTypeOK, Entry, Request, Form
    <2>2. AtRest => ~WordDue
      BY DEF AtRest, WordDue
    <2>3. QED
      BY <2>1, <2>2 DEF ScreensInv, Told, Hidden, OnPromise, WrongAtRest, PromisesAreKept
  <1>2. QED
    BY <1>1, ScreensInvariant, PTL

\* However many changes are under way at once: one opening of the form records
\* two payments only after its button was freed too early.
THEOREM OneOpeningOnePayment == ScreensSpec => []SecondPaymentOnlyAfterReset
  <1>1. ScreensInv => SecondPaymentOnlyAfterReset
    BY DEF ScreensInv, OnePayment, SecondPaymentOnlyAfterReset
  <1>2. QED
    BY <1>1, ScreensInvariant, PTL
=============================================================================
