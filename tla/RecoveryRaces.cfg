CONSTANTS
  n1 = n1
  n2 = n2
  q1 = q1
  q2 = q2
  w1 = w1
  w2 = w2
  w3 = w3
  NoReplica = NoReplica
  NoWorker = NoWorker
  Replicas = {n1, n2}
  Requests = {q1, q2}
  Workers = {w1, w2}
  Positions = {"text"}
  Answers = {"accepted"}
  MaxRequests = 2
  MaxRounds = 1
  MaxRuns = 3
  MaxCrashes = 1
  MaxFailures = 1
  CrashPoints <- AnyCrash
  SlowJobs = TRUE
  Serial = FALSE
  PartiesWait = FALSE
  Operations = TRUE

SPECIFICATION Spec
SYMMETRY Symmetry
\* The case may rest for good: the parties owe nothing.
CHECK_DEADLOCK FALSE
INVARIANTS
  ArtefactsInOrder
  OneSweep
