CONSTANTS
  n1 = n1
  n2 = n2
  q1 = q1
  q2 = q2
  w1 = w1
  w2 = w2
  w3 = w3
  NoReplica = NoReplica
  NoWorker = NoWorker
  Replicas = {n1, n2}
  Requests = {q1}
  Workers = {w1, w2}
  Positions = {"waived"}
  Answers = {"accepted", "refused"}
  MaxRequests = 3
  MaxRounds = 2
  MaxRuns = 3
  MaxCrashes = 1
  MaxFailures = 1
  CrashPoints <- JobCrashes
  SlowJobs = FALSE
  Serial = TRUE
  PartiesWait = TRUE
  Operations = TRUE

SPECIFICATION FairSpec
\* The case may rest for good: the parties owe nothing.
CHECK_DEADLOCK FALSE
INVARIANTS
  TypeOK
  OneReconstruction
PROPERTIES
  StewardActs
  JudgmentCompletes
  LifeSpec
