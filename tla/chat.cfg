\* Two tabs on up to two conversations; the context holds two messages.
CONSTANTS
    alice = alice
    t1 = t1
    t2 = t2
    Users = {alice}
    Tabs = {t1, t2}
    Conversations = 2
    MaxMessages = 4
    MaxRunning = 1
    Limit = 2
    Faults = TRUE
SPECIFICATION FairSpec
INVARIANTS
    ContextSound
    Attended
PROPERTIES
    AnswerIsFinal
    AnswersEnd
\* When every id is used and deleted nothing is left to do.
CHECK_DEADLOCK FALSE
