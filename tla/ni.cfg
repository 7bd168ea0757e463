SPECIFICATION FairSpec
CONSTANTS
    MaxReq = 2
    MaxAnswers = 2
    MaxRestarts = 1
CHECK_DEADLOCK FALSE
INVARIANTS PayloadConserved OwnVerdict
PROPERTIES EveryRequestEnds
