SPECIFICATION Spec
CONSTANTS
    p1 = p1  p2 = p2  f1 = f1  f2 = f2  f3 = f3  r1 = r1  r2 = r2  r3 = r3  r4 = r4  s1 = s1  s2 = s2
    m1 = m1  m2 = m2  m3 = m3  m4 = m4
    Deployments = {{"files"}, {"postbacks"}}
    Importers = {p1, p2}
    Files = {f1, f2, f3}
    RowsOf <- MCRowsOf
    Mapping <- MCMapping
    Cells <- MCCells
    Matching <- MCMatching
    Postbacks = {m1, m2, m3, m4}
    QueryOf <- MCQueryOf
    TokensOf <- MCTokensOf
    TokenMode = "all_with_event_fallback"
    SchemaInvalid = {r4, m3}
    EventOf <- MCEventOf
    PayloadOf <- MCPayloadOf
    InstallationOf <- MCInstallationOf
    ChunkSize = 2
    MaxRowCount = 4
    MaxRuns = 3
    MaxTime = 2
    MaxFaults = 1
INVARIANTS
    AcceptedIsLogical
    RowsAccountedFor
    ProcessedLeavesItsMark
PROPERTY ImplementsLedger
