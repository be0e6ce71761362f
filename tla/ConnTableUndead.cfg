SPECIFICATION Spec
CONSTANTS
    MAX_CLIENT_NUM = 2
    Tasks <- MCTasks
    Clients <- MCTwo
    NULL = NULL
    t1 = t1 t2 = t2 t3 = t3
    a = a b = b c = c
PROPERTIES OldTaskDeleted
