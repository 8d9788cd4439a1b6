SPECIFICATION Spec
CONSTANTS
    Priorities = {0, 1, 2}
    MaxPushes = 7
INVARIANTS
    TypeOK
    HeapOrdered
PROPERTY
    ImplementsQueue
