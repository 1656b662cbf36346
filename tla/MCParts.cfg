SPECIFICATION PartsSpec
CONSTANTS
    s1 = s1  p1 = p1  p2 = p2  f1 = f1  f2 = f2  c1 = c1  c2 = c2  k1 = k1  k2 = k2
    None = None
    Services = {s1}
    Providers = {p1, p2}
    ProviderOf <- MCProviderOf
    Rotating = {p1}
    Flows = {f1, f2}
    Callbacks = {c1, c2}
    Calls = {k1, k2}
    MaxGen = 1
    r1 = r1  r2 = r2
    Rows = {r1, r2}
    NoRow = NoRow
    MaxUses = 2
    MaxIter = 2
    MaxTurns = 3
    q1 = q1  q2 = q2  q3 = q3  a1 = a1  a2 = a2
    Quotes = {q1, q2, q3}
    Cents <- MCCents
    Asks = {a1, a2}
    Limits = {0, 2}
    MaxSession = 1
    MaxMonth = 1
    MaxChanges = 1
    DefaultLimit = 2
    NoPrice = NoPrice  NoAsk = NoAsk  NoContext = NoContext
    Days <- MCDays
    PageSize = 1
    MaxPages = 3
    BatchSize = 2
    MaxWrites = 4
    MaxHarm = 1
    MaxWalks = 1
INVARIANTS ConnectionsSound ConversationSound GrantsSound VerdictsSound PagedIsWhole
PROPERTIES  OverCapOnlyAsSeen
CHECK_DEADLOCK FALSE
