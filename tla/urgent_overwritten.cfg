SPECIFICATION Spec
CONSTANTS
  temp = temp
  volume = volume
  period = period
  b1 = b1
  b2 = b2
  zero = zero
  one = one
  none = none
  Name <- Names1
  Urgent <- UrgentNames
  ReportPeriod = period
  Value <- Values2
  Zero = zero
  NoValue = none
  Binder <- Binders1
  StatusPolled = TRUE
  SdkMayFail = FALSE
INVARIANTS
  UrgentReportLands
