CONSTANTS
  q1 = q1
  q2 = q2
  Requests = {q1}
  Job = Job
  MaxRequests <- RequestsByMode
  MaxFaults = 0
  MaxSessions = 1
  Modes = {"calm"}

SPECIFICATION Spec
\* The parties owe nothing: a case may rest.
CHECK_DEADLOCK FALSE
INVARIANT
  AcceptedAsItStands
