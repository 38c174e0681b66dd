CONSTANTS
    g = g
    a = a
    Keys = {g, a}
    Second = 3
    Algos = {"token_bucket", "leaky_bucket"}
    Quota <- MCQuota
    Calls <- MCCalls
    Nonces = {}
    MaxNow = 9
    MaxAge = 9
    MaxBack = 0
SPECIFICATION Spec
INVARIANTS TypeOK BucketDenialEarned ExpiryInvisible RetryAfterHonest RemainingHonest
PROPERTIES ReleaseSpaced ImplementsIdealBucket
