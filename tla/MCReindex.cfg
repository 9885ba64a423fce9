SPECIFICATION Spec
CONSTANTS
  None = None
  r1 = r1  r2 = r2
  s1 = s1  s2 = s2
  Runs = {r1, r2}
  Sources = {s1, s2}
  Prints = {f1}
  Server = server
  Tools = {tool}
  Together = TRUE
  InitialFiles <- MCNew
  MaxEvents = 4
  MaxCrashes = 0
  MaxAccidents = 0
CHECK_DEADLOCK FALSE
INVARIANT ActiveDedupeIsPreserved
