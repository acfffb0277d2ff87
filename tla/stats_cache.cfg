\* A reader races with the deletions of two writers.
CONSTANTS
    rooms = rooms
    heatmap = heatmap
    overview = overview
    r1 = r1
    w1 = w1
    w2 = w2
    Rooms = rooms
    Stats = {heatmap, overview}
    Daily = {overview}
    Readers = {r1}
    Writers = {w1, w2}
    RoomsTTL = 2
    StatsTTL = 2
    JitterTTL = 1
    Batch = 1
    CallTime = 1
    Faults = TRUE
SPECIFICATION FairSpec
INVARIANTS
    BoundedStaleness
    OnlyRacesSurvive
PROPERTIES
    Converges
