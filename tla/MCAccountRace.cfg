SPECIFICATION RaceSpec
CONSTANTS
  Code = {c1}
  OrderId = {o1, o2}
  PositionId = {p1, p2}
  LotId <- MCLotId
  Absent = Absent
  Price <- MCPrice
  OrderQuantity <- MCOrderQuantity
  Day <- MCDay
  InitialCash = 9
  MaxOrderPct = 60
  MaxSinglePct = 90
  MaxGrossPct = 95
  MaxDailyOrders = 3
  MaxSeason = 1
  ResetDays = {2}
  MinCommission = 1
  CommissionRate = 2
  StampTaxRate = 1
  RateScale = 10
SYMMETRY MCSymmetry
INVARIANTS LotsNeverOversold SoundWithoutOverlap
CHECK_DEADLOCK FALSE
