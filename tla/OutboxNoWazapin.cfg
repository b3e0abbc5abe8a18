\* A webhook and no Wazapin: an urgent row is never posted.
SPECIFICATION FairSpec
CONSTANTS
    Events = {1, 2, 3}
    Kind <- MCKindLive
    DrainLimit = 1
    ListLimit = 1
    CardLimit = 1
    MaxAttempts = 2
    MaxBackoff = 1
    MaxFaults = 1
PROPERTY
    WebhookTakesAll
