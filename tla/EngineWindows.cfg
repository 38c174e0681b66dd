CONSTANTS
    g = g
    a = a
    Keys = {g, a}
    Second = 2
    Algos = {"fixed_window", "sliding_window", "sliding_log"}
    Quota <- MCQuota
    Calls <- MCCalls
    Nonces = {n1, n2, n3}
    MaxNow = 9
    MaxAge = 9
    MaxBack = 0
SPECIFICATION Spec
INVARIANTS FixedBound SeamBound LogBound WindowDenialEarned ExpiryInvisible RetryAfterHonest RemainingHonest
PROPERTIES ImplementsLedger
SYMMETRY NonceSymmetry
