SPECIFICATION SuiteSpec
CONSTANTS
    o1 = o1  o2 = o2  r1 = r1  r2 = r2  a1 = a1  t1 = t1   c1 = c1  c2 = c2  w1 = w1
    Cases = {"fencing", "acceptance", "decisions", "slots", "claims", "windows", "requests",
             "locks", "baseline", "replay", "shared"}
    Owners = {o1, o2}
    Writers = {w1}
    WriterOf <- OneWriter
    Resources = {r1, r2}
    Attempts = {a1}
    Tasks = {t1}
    Contents <- AllContents
    Calls = {c1, c2}
    NoRequest = NoRequest
    MaxEpoch = 2
    MaxFence = 2
    MaxTime = 2
    MaxTTL = 2
    MaxDecisions = 2
    MaxResults = 3
SYMMETRY Symmetric
INVARIANTS SingleReceipt ProjectionIsLatest ResultsDecided SourcesAccounted AcceptanceSound
PROPERTIES FencedWrites ImplementsAtomicLedger EndedIsFinal
CHECK_DEADLOCK FALSE
