\* nvme.c:532: two tasks, and a device that may answer a command with an error.
SPECIFICATION Spec
CONSTANTS
    Tasks = {p1, p2}
    Mortal = {}
    QUEUE_SIZE = 3
    MAX_COMMANDS = 3
    Statuses = {"ok", "error"}
PROPERTIES ChecksItsOwnStatus
CHECK_DEADLOCK FALSE
