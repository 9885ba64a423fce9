SPECIFICATION FairSpec
CONSTANTS
  None = None
  r1 = r1  r2 = r2
  s1 = s1  s2 = s2
  Runs = {r1, r2}
  Sources = {s1, s2}
  Prints = {f1}
  Server = server
  Tools = {tool}
  Together = FALSE
  InitialFiles <- MCInitialFiles
  MaxEvents = 4
  MaxCrashes = 1
  MaxAccidents = 1
CHECK_DEADLOCK FALSE
INVARIANTS
  UntouchedChainVerifies KeptHeadVouches StartNeverFails
PROPERTIES CommitsAreOperations MigrationKeepsEverything MigrationCompletes
