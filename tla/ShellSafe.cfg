SPECIFICATION Spec
CONSTANTS
    Vts = {1, 2}
    terminal_width = 5
    terminal_height = 2
    VT_INPUT_BUFFER_LENGTH = 4
    Keys = {"1", "2", "left", "right", "up", "erase", "enter", "ctrl"}
    MaxKeys = 4
    KEYBOARD_COMMAND_BUFFER_LENGTH = 5
    SCRIPT_BUFFER_LENGTH = 5
    Scripts <- SmallScripts
    Outputs <- CommandOutputs
    KernelMessages <- FaultMessages
    MaxForeignWrites = 1
    ExitCodes = {0, 1}
    EnterAtEnd = TRUE
INVARIANTS TypeOK  LineOnScreen ParseMatchesReference ScriptInOrder
PROPERTIES WaitingInputKept EditsALine
CHECK_DEADLOCK FALSE
