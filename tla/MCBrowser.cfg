SPECIFICATION ClientSpec
CONSTANTS
  None = None
  Runs = {r1}
  Sources = {s1}
  Bills = {b1}
  Households = {h1}
  Tokens = {t1, t2}
  Expenses = {e1}
  Requests = {q1}
  Uncaught = FALSE
  Opens = {o1}
  Other = other
  Fingerprint <- MCFingerprint
  Approved = {b1}
  Repair <- MCRepair
  Resolved <- MCPairs
  Postable <- MCPairs
  LocalOnly = {}
INVARIANT InFlightIsHandled
PROPERTIES SubmissionSettles PollingStopsOnlyByFailedOpen OutcomeIsShown
