CONSTANTS
  sch1 = sch1
  sch2 = sch2
  r1 = r1
  r2 = r2
  NoTime = NoTime
  Minutes <- MCMinutes
  Hours <- MCHours
  DaysOfMonth <- MCDaysOfMonth
  Months <- MCMonths
  DaysOfWeek <- MCDaysOfWeek
  DayOfMonth <- MCDayOfMonth
  Month <- MCMonth
  DayOfWeek <- MCDayOfWeek
  MaxSearchDays = 4
  Names = {1}
  Ids <- MCIds
  Exprs <- MCExprs
  Zones <- MCZones
  Samples <- MCSamples
  SampleZones <- MCSampleZones
  Interval = 2
  Requests <- MCRequests
  MaxNow = 2
  MaxSent = 2
  MaxCrashes = 1
  MaxRaises = 1
SPECIFICATION Spec
  
PROPERTIES DueEnds
CHECK_DEADLOCK FALSE
