\* Every message of up to six bytes, and a command after it.
CONSTANTS
    MaxLength = 6
    MaxCommands = 2
    MaxLines = 3
    Capacity = 2
SPECIFICATION SpecExchange
INVARIANTS Intact InStep
PROPERTY DataIsAnswered
CHECK_DEADLOCK FALSE
