SPECIFICATION TimersSpec
CONSTANTS
  Schedules <- MCSchedules
  Outputs = 1
  Refusing = {4}
  PropagateSwitchOff = TRUE
  Day = 2
  Tolerance = 1
  MaxLate = 1
  MaxAhead = 2
  MaxJumps = 1
  MaxQueue = 3
  SecondMax = 1
  MinuteMax = 1
  HourMax = 1
  MonthMax = 3
  WeekLength = 2
  MaxIter = 12
  FirstYear = 2
  YearMax = 3
  MonthDays <- MCMonthDays
  Patterns <- MCPatterns
INVARIANTS
  ExecutesAtMatchingPoints
