SPECIFICATION FairSpec
CONSTANTS
    Batch = 3
    MaxCalls = 5
    MaxStarts = 2
INVARIANTS TypeOK ClosesInABatch ThrowEndsBatch StepsAskedFor
PROPERTIES CloseObeyed PauseObeyed
