CONSTANTS
  q1 = q1
  q2 = q2
  Requests = {q1, q2}
  Job = Job
  MaxRequests <- RequestsByMode
  MaxFaults = 1
  MaxSessions = 2
  Modes = {"calm", "faulty", "overlap"}

SPECIFICATION FairSpec
\* The parties owe nothing: a case may rest.
CHECK_DEADLOCK FALSE
INVARIANTS
  OneInstrument
  RecordCurrent
  ChargedOnce
PROPERTIES
  DecisionStands
  AttestedOnce
  PaymentKnown
  AppealEnds
