SPECIFICATION Spec
CONSTANTS
    t1 = t1
    s = s
    Tasks <- MCTasks
    Scheduler = s
    Accounts <- MCAccounts
    Sessions <- MCAccounts
    Floor = 2
    MaxTime = 3
    MaxTicket = 1
INVARIANTS
    TypeOK
    OwnSession
    RefreshesSpaced
