\* Four tasks, any of which may be killed, and queues of three entries: full
\* queues, wrap-arounds, out-of-order completions and a lack of command ids happen.
SPECIFICATION Spec
CONSTANTS
    Tasks = {p1, p2, p3, p4}
    Mortal = {p1, p2, p3, p4}
    QUEUE_SIZE = 3
    MAX_COMMANDS = 3
    Statuses = {"ok"}
SYMMETRY TaskSymmetry
VIEW LiveView
INVARIANTS TypeOK EveryCommandInOnePlace CommandIdsUnshared
PROPERTIES ReturnsAfterItsOwnAnswer
CHECK_DEADLOCK FALSE
