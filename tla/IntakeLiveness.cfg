SPECIFICATION LiveSpec
CONSTANTS
    o1 = o1  o2 = o2  r1 = r1  r2 = r2  a1 = a1  t1 = t1  c1 = c1  c2 = c2  w1 = w1
    Cases = {"call", "locks", "waiting"}
    Owners = {o1}
    Writers = {w1}
    WriterOf <- OneWriter
    Resources = {r1, r2}
    Attempts = {a1}
    Tasks = {t1}
    Contents <- AcceptedOnly
    Calls = {c1, c2}
    NoRequest = NoRequest
    MaxEpoch = 1
    MaxFence = 1
    MaxTime = 1
    MaxTTL = 1
    MaxDecisions = 0
    MaxResults = 1
PROPERTY TransactionsEnd
CHECK_DEADLOCK FALSE
