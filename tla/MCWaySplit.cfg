SPECIFICATION WholeSpec
CONSTANTS
  None = None
  Runs = {r1, r2}
  Sources = {s1, s2}
  b1 = b1  b2 = b2  b3 = b3
  Bills = {b1, b2}
  Households = {h1}
  Tokens = {t1, t2}
  Expenses = {e1, e2}
  Requests = {q1}
  Uncaught = FALSE
  RetainSource = FALSE
  Fingerprint <- MCFingerprint
  Approved <- MCApproved
  Repair <- MCRepair
  Resolved <- MCPairs
  Postable <- MCPairs
  LocalOnly = {}
SYMMETRY Symmetry
INVARIANTS OneExpensePerStatement PostingIsUndisturbed
