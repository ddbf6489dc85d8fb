CONSTANTS
  q1 = q1
  q2 = q2
  Requests = {q1, q2}
  MaxRequests = 3
  MaxDocs = 2
  MaxFaults = 1
  Responses = {"answered", "waived"}
  Modes = {"adhered", "calm", "faulty", "overlap"}

SPECIFICATION FairSpec
\* The parties owe nothing: a case may stay a draft.
CHECK_DEADLOCK FALSE
INVARIANTS
  AdmittedWasAnswered
  FrozenWhenCalm
  BytesWhenCalm
PROPERTIES
  HearingSpec
  ManifestSealed
  AdheredLocks
