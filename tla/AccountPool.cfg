SPECIFICATION Spec
CONSTANTS
    t1 = t1
    t2 = t2
    Tasks <- MCTasks
    Accounts <- MCAccounts
    MaxFailures = 3
    MaxTime = 3
    FailBound = 4
SYMMETRY Sym
INVARIANTS
    TypeOK
    DeadLeavesRotation
PROPERTY RepeatOnlyAfterOthers
