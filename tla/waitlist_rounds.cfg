\* A queue of two, a round that reads both.
CONSTANTS
    u1 = u1
    u2 = u2
    c1 = c1
    c2 = c2
    s1 = s1
    s2 = s2
    Users = {u1, u2}
    Seats = {1}
    Clients = {c1}
    Schedulers = {s1}
    TryCount = 2
    Restless = {u1}
    MaxEntries = 2
    Faults = TRUE
SPECIFICATION FairSpec
INVARIANTS
    NoOvertaking
PROPERTIES
    HeadServed
    Settled
