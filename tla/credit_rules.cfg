\* One user, up to seven changes of credit.
CONSTANTS
    u1 = u1
    Users = {u1}
    MaxScore = 5
    Threshold = 3
    Violation = 2
    LateCancel = 1
    Completion = 1
    BanDays = 2
    MaxTime = 6
    MaxLogs = 7
SPECIFICATION Spec
CHECK_DEADLOCK FALSE
INVARIANTS
    TypeOK
    ScoreMatchesLogs
    LowScoreHasBan
PROPERTY BanStands
