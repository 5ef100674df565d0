SPECIFICATION TradeSpec
CONSTANTS
  Trigger = {o1, o2}
  Trade = {d1, d2}
  Dialogue = Dialogue
  Absent = Absent
  RescanLimit = 2
  MaxCrashes = 2
SYMMETRY MCSymmetry
VIEW MCView
INVARIANTS SettledAgreesWithAccount NothingLeftSubmitting
PROPERTY OrdersIndexed
