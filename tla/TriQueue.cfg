SPECIFICATION TriQueueSpec
CONSTANTS
    Items = {a, b, c}
    Raw = raw
    Capacity = 4
INVARIANTS
    IteratorsInOrder
    ObjectsAreLive
PROPERTIES
    ImplementsFifo
    ImplementsThreeQueues
