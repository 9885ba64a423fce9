SPECIFICATION Spec
CONSTANTS
    Tokens = {t1, t2, t3}
    Sessions = {s1, s2}
    Runs = {r1}
    Models = {m1, m2}
    Opaque = {m2}
    Versions = {v1, v2}
    NoDigest = NoDigest
    NoOne = NoOne
    Ttl = 2
    MaxEntries = 2
    MaxTime = 2
SYMMETRY Symmetry
INVARIANTS UploadsAreAttested DocumentGoesToTheProbedVersion StoreHoldsTheNewest
