SPECIFICATION FairSpec
CONSTANTS
    Requests = {1, 2}
    Routes <- Writes
    Fingerprints = {1, 2}
    Logins = 1
    MaxFailures = 2
    MaxCrashes = 1
INVARIANTS OneEffectPerKey SuccessesAgree
PROPERTIES RevokedActorsChangeNothing 
CHECK_DEADLOCK FALSE
