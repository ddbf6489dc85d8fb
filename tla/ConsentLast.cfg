CONSTANTS
  q1 = q1
  q2 = q2
  Requests = {q1, q2}
  MaxRequests = 3
  MaxDocs = 2
  MaxFaults = 0
  Responses = {"answered", "waived"}
  Modes = {"calm"}

SPECIFICATION FairSpec
\* The parties owe nothing: a case may stay a draft.
CHECK_DEADLOCK FALSE
PROPERTY
  StewardLocks
