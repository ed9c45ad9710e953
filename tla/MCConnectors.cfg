\* One connection of each provider: its validations, extracts, drill-downs and budget.
CONSTANTS
    ga4 = ga4
    gsc = gsc
    gam = gam
    a1 = a1
    s1 = s1
    m1 = m1
    d1 = d1
    d2 = d2
    d3 = d3
    d4 = d4
    d5 = d5
    i1 = i1
    i2 = i2
    w1 = w1
    w2 = w2
    q1 = q1
    q2 = q2
    Null = Null
    Connection = {ga4, gsc, gam}
    Routine = {a1, s1, m1}
    Drilldown = {d1, d2, d3, d4, d5}
    Job = {a1, s1, m1, d1, d2, d3, d4, d5}
    ProviderOf <- MCProviderOf
    ConnectionOf <- MCConnectionOf
    Investigation = {i1, i2}
    InvestigationOf <- MCInvestigationOf
    MaxAttempts <- MCMaxAttempts
    Worker = {w1, w2}
    Requester = {q1, q2}
    MaxPerInvestigation = 1
    MaxPerDay = 1
    Days = 2
    Missing = Missing
    Wall <- MCWall
    HoursPerDay = 4
    GA4MaxRows = 2
    Profile <- MCProfile
    GSCRowLimit = 2
    GSCMaxRows = 3
    MaxPolls = 2
    GAMPageSize = 1
    GAMMaxRows = 2
    SecretBackend = "oci"
    Environment = "production"
    Secret <- MCSecret
    Lookup = {200, 404}
    Columns <- MCColumns
    RoutineColumns = {"sessions"}
    GA4Exchange <- MCGA4Exchange
    GSCExchange <- MCGSCExchange
    GAMExchange <- MCGAMExchange
    Editable = {gam}
SPECIFICATION Spec
CHECK_DEADLOCK FALSE
SYMMETRY Alike
CONSTRAINT Bounded
INVARIANT TypeOK
INVARIANT StatusTells
INVARIANT WithinBudget
PROPERTY KeepsExtracts
