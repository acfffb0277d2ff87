\* Two requests race while Redis works and the world moves on.
CONSTANTS
    q1 = q1
    q2 = q2
    u1 = u1
    u2 = u2
    seat1 = seat1
    seat2 = seat2
    a = a
    b = b
    Requests = {q1, q2}
    Users = {u1, u2}
    Seats = {seat1, seat2}
    Slots = {a, b}
    Begins <- SlotBegins
    Ends <- SlotEnds
    Day <- SlotDay
    Faults = TRUE
    EnvMoves = TRUE
    LeasesLapse = FALSE
    RedisFails = FALSE
SPECIFICATION Spec
CHECK_DEADLOCK FALSE
SYMMETRY Sym
INVARIANTS
    UserConstraintIsBackstop
    NothingLeftBehind
