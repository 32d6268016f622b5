CONSTANTS
    t1 = t1
    t2 = t2
    Threads <- MC_TwoThreads
    UserAnswers = {TRUE}
SPECIFICATION Spec
PROPERTY BagMonotone
