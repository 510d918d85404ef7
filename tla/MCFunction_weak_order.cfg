SPECIFICATION Spec
CONSTANTS
    t1 = t1
    t2 = t2
    t3 = t3
    zero = zero
    one = one
    ten = ten
    Threads <- MCThreads2
    Args <- MCArgs
    Results <- MCResults
    Evaluate <- MCEvaluate
    Nullopt = Nullopt
    Exception = Exception
    Undefined = Undefined
    NoArg = NoArg
    NoResult = NoResult
    NoThread = NoThread
    Debug = FALSE
    TotalStoreOrder = FALSE
INVARIANTS
    AnswersCorrect
