SPECIFICATION CampaignSpec
CONSTANTS
    Members = {1, 2}
    Fickle = {1}
    Runs = {r1, r2}
    ScheduledRun = r2
    Dispatchers = {d1, d2}
    Materialize = 1
    CancelBatch = 1
    CampaignLimit = 2
    PerMinute = 1
    MaxChanges = 1
INVARIANTS
    
    BooksBalance
PROPERTIES
    StepsAreLawful
SYMMETRY Interchangeable
