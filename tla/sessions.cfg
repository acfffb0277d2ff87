\* Two calls at a time; a token and a counter live for two ticks.
CONSTANTS
    user = user
    c1 = c1
    c2 = c2
    Accounts = {user}
    NewAccounts = {user}
    Clients = {c1, c2}
    TokenTTL = 2
    CallTime = 1
    Limit = 2
    Window = 2
SPECIFICATION FairSpec
INVARIANTS
    OutStaysOut
    DisabledLeaves
    AtMostTwice
PROPERTIES
    LetInAgain
