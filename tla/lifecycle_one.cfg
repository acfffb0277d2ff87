\* One reservation raced for by two requests and two schedulers; statements fail.
CONSTANTS
    r1 = r1
    w1 = w1
    w2 = w2
    s1 = s1
    s2 = s2
    Res = {r1}
    Workers = {w1, w2}
    Schedulers = {s1, s2}
    StartAt <- OneStart
    EndAt <- OneEnd
    DayLength = 96
    CheckinEarly = 1
    CheckinGrace = 1
    TempLeaveMax = 2
    LateCancel = 2
    MaxTime = 6
    Faults = TRUE
SPECIFICATION Spec
SYMMETRY Sym
INVARIANTS
    TypeOK
    CreditOnce
    OneOwes
    Attendance
PROPERTIES
    ImplementsOutcome
