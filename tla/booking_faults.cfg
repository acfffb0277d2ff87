\* Two requests around which everything goes wrong.
CONSTANTS
    q1 = q1
    q2 = q2
    u1 = u1
    u2 = u2
    seat1 = seat1
    seat2 = seat2
    a = a
    b = b
    Requests = {q1, q2}
    Users = {u1, u2}
    Seats = {seat1}
    Slots = {a}
    Begins <- SlotBegins
    Ends <- SlotEnds
    Day <- SlotDay
    Faults = TRUE
    EnvMoves = FALSE
    LeasesLapse = TRUE
    RedisFails = TRUE
SPECIFICATION FairSpec
CHECK_DEADLOCK FALSE
INVARIANTS
    TypeOK
    SomeoneWins
PROPERTIES
    ImplementsLedger
    EveryoneAnswered
