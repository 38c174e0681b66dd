CONSTANTS
    g = g
    a = a
    Keys = {g, a}
    Second = 2
    Algos = {"token_bucket", "leaky_bucket", "sliding_log"}
    Quota <- MCQuota
    Calls <- MCCalls
    Nonces = {n1, n2, n3}
    MaxNow = 4
    MaxAge = 6
    MaxBack = 2
SPECIFICATION Spec
INVARIANTS BucketBound LogBound
PROPERTIES ReleaseSpaced
SYMMETRY NonceSymmetry
