CONSTANTS
  n1 = n1
  n2 = n2
  q1 = q1
  q2 = q2
  w1 = w1
  w2 = w2
  w3 = w3
  NoReplica = NoReplica
  NoWorker = NoWorker
  Replicas = {n1}
  Requests = {q1, q2}
  Workers = {w1, w2}
  Positions = {"text"}
  Answers = {"accepted"}
  MaxRequests = 4
  MaxRounds = 2
  MaxRuns = 3
  MaxCrashes = 0
  MaxFailures = 0
  CrashPoints <- JobCrashes
  SlowJobs = FALSE
  Serial = FALSE
  PartiesWait = FALSE
  Operations = FALSE

SPECIFICATION Spec
SYMMETRY Symmetry
\* The case may rest for good: the parties owe nothing.
CHECK_DEADLOCK FALSE
INVARIANT
  ArtefactsInOrder
PROPERTIES
  WithdrawnNeverClaimed
  AgreementNeedsTwo
