SPECIFICATION Spec
CONSTANTS
  None = None
  Runs = {r1}
  Sources = {s1}
  b0 = b0  b1 = b1  b2 = b2
  h1 = h1  h2 = h2  h3 = h3  h4 = h4
  Bills = {b0, b1, b2}
  Households = {h1, h2, h3, h4}
  Tokens = {t1, t2, t3}
  Expenses = {e1, e2}
  Requests = {q1, q2}
  Uncaught = TRUE
  Fingerprint <- MCFingerprint
  Approved <- MCApproved
  Repair <- MCRepair
  Resolved <- MCResolved
  Postable <- MCPostable
  LocalOnly <- MCLocalOnly
SYMMETRY Symmetry
INVARIANTS
  TypeOK AtMostOneExpense PostedAsConfirmed DeletedAsApproved ChangedExpenseIsKept
  ClaimsHonest RunMirrorsPosting ApprovalIsCurrent RecordsStayUsable
PROPERTIES SettledIsFinal PromiseKept
