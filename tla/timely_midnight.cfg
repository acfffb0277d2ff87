\* A slot that ends with a day of 6 units; the scheduler may be away for as long.
CONSTANTS
    r1 = r1
    w1 = w1
    s1 = s1
    Res = {r1}
    Workers = {w1}
    Schedulers = {s1}
    StartAt <- NightStart
    EndAt <- NightEnd
    DayLength = 6
    CheckinEarly = 1
    CheckinGrace = 1
    TempLeaveMax = 2
    LateCancel = 2
    MaxTime = 14
    Faults = FALSE
    MaxGap = 6
SPECIFICATION TimelySpec
INVARIANT SeatReleasedInTime
PROPERTIES
    EventuallyClosed
    CreditSettles
