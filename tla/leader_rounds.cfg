\* Redis fails, commands are late, rounds outlive their leases, instances crash.
CONSTANTS
    i1 = i1
    i2 = i2
    t1 = t1
    t2 = t2
    t3 = t3
    t4 = t4
    Instances = {i1, i2}
    Tokens = {t1, t2, t3, t4}
    TTL = 3
    RenewEvery = 1
    RedisFails = TRUE
    Stalls = TRUE
SPECIFICATION FairSpec
INVARIANTS
    RenewedHasKey
PROPERTIES
    LeaseIsPrivate
    RoundsGoOn
