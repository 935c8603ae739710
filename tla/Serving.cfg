SPECIFICATION SuiteSpec
CONSTANTS
    q1 = q1  q2 = q2  q3 = q3  d1 = d1  d2 = d2  ra = ra  rb = rb  r1 = r1  r2 = r2  Unset = Unset
    Cases = {"pool", "publication", "activation", "retention", "logins", "redemption", "consent", "rank",
             "live", "promote"}
    Requests = {q1, q2}
    Drainers = {d1, d2}
    Releases = {ra}
    MaxBundles = 3
    MaxFailures = 2
    MaxDrains = 3
    CorpusReleases = {1, 2, 3, 4, 5}
    Manifest <- SecondUncovered
    Published = {3, 4, 5}
    Past <- Earlier
    Publishers = {"p1", "p2"}
    Operators = {"o1", "o2"}
    Pins = {}
    Backups = {}
    Collectors = {"c1", "c2"}
    Limit = 1
    MaxVersion = 5
    MaxFence = 2
SYMMETRY Symmetric
INVARIANTS LeasedOpen BundlesAccounted CatalogConsistent CredentialsSingle AnswersSound
PROPERTIES EvidenceRetained RefusalsStick ShortfallsRefilled
CHECK_DEADLOCK FALSE
