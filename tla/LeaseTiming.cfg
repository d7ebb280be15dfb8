SPECIFICATION Spec
CONSTANTS
    s1 = s1
    s2 = s2
    s3 = s3
    Slots <- MCSlots
    Period = 5
    Latency = 2
    MaxLost = 1
    TTL = 20
SYMMETRY Symmetric
INVARIANTS
    TypeOK
    LeaseKept
    RoundBounded
