CONSTANTS
    t1 = t1
    t2 = t2
    c1 = c1
    c2 = c2
    Threads <- MCThreads
    Callers <- MCCallers
    Main = main
    MaxCallbacks = 4

SPECIFICATION Spec
CHECK_DEADLOCK FALSE

INVARIANTS
    CallbacksAreSerial
    CallbacksRunInOrder
    


    
