CONSTANTS
  None = None
  MAX_PRIORITY = 10
  MAX_DAYS = 2
  Day = 4
  Grace = 3
  MaxAge = 13
SPECIFICATION Spec
INVARIANT
  ThreeAfterMaxDays
