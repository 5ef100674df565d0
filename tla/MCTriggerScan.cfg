SPECIFICATION FairSpec
CONSTANTS
  o1 = o1
  o2 = o2
  bad = bad
  Order <- MCOrder
  Positions = 2
  OpenAtStart = 1
  Expires <- MCExpires
  Quantity <- MCQuantity
  Condition <- MCCondition
  Price = {1, 2}
  Signal = {bad}
  BatchSize = 1
  DrainBatches = 4
  MaxMoves = 3
  MaxDay = 2
  MaxFaults = 1
INVARIANTS TypeOK
PROPERTIES DrainedVisitsAll FreshRevision AlarmsRaised
