SPECIFICATION FairAftermathSpec
CONSTANTS
    l1 = l1
    l2 = l2
    l3 = l3
    p1 = p1
    p2 = p2
    p3 = p3
    k1 = k1
    k2 = k2
    c1 = c1
    c2 = c2
    c3 = c3
    NoCampaign = NoCampaign
    NoRow = NoRow
    NoLead = NoLead
    Campaigns = {k1}
    Leads = {l1}
    Phones = {p1}
    PhoneOf <- OnePhoneOf
    CreatedAt <- OneCreatedAt
    CallIds = {1, 2, 3, 4}
    MaxFaults = 2
    BatchSize = 1
    E164Phones = {p1}
    BadTimezone = {}
    JobRetries = 1
CHECK_DEADLOCK FALSE
INVARIANTS
    FailedDncListed
    OptOutListed
    OneMoreJobPerFault
    NotifiedAfterStored
PROPERTIES
    WebhooksAndJobsDrain
    CallingLeadsSettle
