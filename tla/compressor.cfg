CONSTANTS
  MinSize = 2
  MaxSize = 6
  SampleSize = 4
  CompressionGain = 20
  Callers = {c1, c2}
  Workers = {w1, w2}
  Inputs <- MCInputs
  Configs <- MCConfigs
  None = None
  MaxCalls = 3
  MaxJobs = 3
SPECIFICATION Spec
INVARIANTS TypeOK JobsExact RoundTrip
PROPERTIES CallsEnd CloseEnds
CHECK_DEADLOCK FALSE
