\* Two administrators and two users; an allocation offers two seats of up to three.
CONSTANTS
    alice = alice
    bob = bob
    a1 = a1
    a2 = a2
    Admins = {a1, a2}
    Users = {alice, bob}
    HourLen = 2
    UtilDays = 7
    TopN = 2
    MaxCards = 2
    Grids <- MCGrids
    OpeningHours <- MCOpeningHours
    Slots <- MCSlots
    Requests <- MCRequests
    Busy = {0, 6}
    Chance = {0, 6}
    Proposals <- MCProposals
    MaxBookings = 2
SPECIFICATION FloorSpec
INVARIANTS
    FloorTypeOK
    OneGrid
    BestFirst
    CardsBookable
    StatisticsSound
SYMMETRY Symmetry
