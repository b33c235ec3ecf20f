CONSTANTS
  Fields = {mean, max}
  Phases = 3
  MaxReads = 2
  MaxDigests = 2
  ReportOutlastsSpin = TRUE
SPECIFICATION DualSpec
INVARIANTS ConverterOutlivesPulls FinalIsLast
PROPERTIES OneInstant PhasesEnd
