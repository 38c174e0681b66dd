CONSTANTS
    Second = 2
    Holders = {h1, h2}
    Histories <- MCHistories
    Nonces = {n1, n2, n3}
    MaxNow = 9
    MaxAge = 9
SPECIFICATION Spec
INVARIANTS QuotaHolds DenialEarned ErrorsPass
PROPERTIES ReleaseInOrder
SYMMETRY HotChangeSymmetry
