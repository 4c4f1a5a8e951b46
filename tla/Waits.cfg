SPECIFICATION FairSpec
CONSTANTS
    j1 = j1
    j2 = j2
    j3 = j3
    j4 = j4
    Jobs = {j1, j2, j3, j4}
    Kind <- MCKind
    PoolSize = 2
    Answers = {"result", "error", "noResult", "notJson", "notObject"}
INVARIANTS TypeOK NotReadyHasCause
PROPERTIES SigningStepEnds EveryWaitEnds EveryJobEnds
CHECK_DEADLOCK FALSE
