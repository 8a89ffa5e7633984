SPECIFICATION Spec
CONSTANTS
  Instances = {i}
  Plans <- PlanNames
  planDays <- ShortPlans
  NoPlan = NoPlan
  NoOrder = NoOrder
  TrialDays = 1
  DunningDays = 2
  MaxDay = 4
  MaxCheckouts = 2
INVARIANTS
  NoDoubleCharge
  SettledByTruth
PROPERTY
  OnePeriodPerPayment
