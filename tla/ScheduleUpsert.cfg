CONSTANTS
  NoRow = NoRow
  b1 = b1
  b2 = b2
  b3 = b3
  Match = {b1, b2, b3}
  MonthOf <- MCMonthOf
  Slots = 3
  MaxChanges = 3
SPECIFICATION Spec
INVARIANTS TypeOK RegistrationsKeepGame
PROPERTIES MonthAtOnce MonthsSettle
