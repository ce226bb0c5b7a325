SPECIFICATION Spec
CONSTANTS
  Bits = 4
  ValueJobs <- MCValueJobs
  HttpJobs <- MCHttpJobs
  DocumentJobs <- MCDocumentJobs
  ModbusJobs <- MCModbusJobs
  OldJobs <- MCOldJobs
  Begins <- MCBegins
  Escaped <- MCEscaped
  Undecoded <- MCUndecoded
INVARIANTS ValuesSurvive RequestsUnderstood DescriptionsStable
