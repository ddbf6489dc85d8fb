CONSTANTS
  n1 = n1
  n2 = n2
  q1 = q1
  q2 = q2
  w1 = w1
  w2 = w2
  w3 = w3
  NoReplica = NoReplica
  NoWorker = NoWorker
  Replicas = {n1}
  Requests = {q1}
  Workers = {w1, w2}
  Positions = {}
  Answers = {"accepted", "refused"}
  MaxRequests = 3
  MaxRounds = 1
  MaxRuns = 3
  MaxCrashes = 0
  MaxFailures = 0
  CrashPoints <- JobCrashes
  SlowJobs = FALSE
  Serial = TRUE
  PartiesWait = TRUE
  Operations = FALSE

SPECIFICATION Spec
\* The case may rest for good: the parties owe nothing.
CHECK_DEADLOCK FALSE
INVARIANT
  AgreementStands
