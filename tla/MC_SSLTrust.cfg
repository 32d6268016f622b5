CONSTANTS
    t1 = t1
    t2 = t2
    Threads <- MC_OneThread
    UserAnswers = {TRUE, FALSE}
SPECIFICATION Spec
INVARIANT TypeOK
PROPERTY TransactionsEnd
