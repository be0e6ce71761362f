SPECIFICATION Spec
CONSTANTS
    MAX_CLIENT_NUM = 2
    Tasks <- MCTasks
    Clients <- MCClients
    NULL = NULL
    t1 = t1 t2 = t2 t3 = t3
    a = a b = b c = c
SYMMETRY MCSymmetry
INVARIANTS TableExact
PROPERTIES ResetOnlyWhenFull SuccessorStarts
