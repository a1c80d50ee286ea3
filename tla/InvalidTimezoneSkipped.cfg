SPECIFICATION FairDispatchSpec
CONSTANTS
    l1 = l1
    l2 = l2
    l3 = l3
    p1 = p1
    p2 = p2
    p3 = p3
    k1 = k1
    k2 = k2
    c1 = c1
    c2 = c2
    c3 = c3
    NoCampaign = NoCampaign
    NoRow = NoRow
    NoLead = NoLead
    Campaigns = {k1}
    Leads = {l1, l2}
    Phones = {p1, p2}
    PhoneOf <- TwoPhoneOf
    CreatedAt <- TwoCreatedAt
    CallIds = {c1, c2}
    MaxFaults = 0
    BatchSize = 2
    E164Phones = {p1, p2}
    BadTimezone = {l2}
    JobRetries = 1
CHECK_DEADLOCK FALSE
PROPERTIES
    InvalidTimezoneSkipped
