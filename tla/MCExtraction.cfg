SPECIFICATION FairSpec
CONSTANTS
  None = None
  Runs = {r1, r2, r3}
  Sources = {s1, s2}
  b1 = b1  b2 = b2  b3 = b3  h1 = h1
  Bills = {b1, b2, b3}
  Households = {h1}
  Tokens = {}
  Expenses = {}
  RetainSource = FALSE
  Fingerprint <- MCFingerprint
  Approved <- MCApproved
  Repair <- MCRepair
  Resolved <- MCPairs
  Postable <- MCPairs
  LocalOnly = {}
INVARIANT NamedFileExists
PROPERTIES ExtractionEnds UploadsAreRemovedWhileAlive
