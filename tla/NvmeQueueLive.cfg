\* Two tasks, one of which may be killed; no symmetry, no view.
SPECIFICATION FairSpec
CONSTANTS
    Tasks = {p1, p2}
    Mortal = {p2}
    QUEUE_SIZE = 2
    MAX_COMMANDS = 2
    Statuses = {"ok"}
PROPERTIES EveryRequestReturns
CHECK_DEADLOCK FALSE
