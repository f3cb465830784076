SPECIFICATION FairSpec
CONSTANTS
    a = a
    b = b
    CR = CR
    LF = LF
    Quit = Quit
    BUFFER_SIZE = 4
    Others <- MCOthers
    Inputs <- MCInputsPlain
    Greeting <- MCGreeting
    MaxTyped = 4
CHECK_DEADLOCK FALSE
INVARIANTS RingsFifo EchoInOrder
PROPERTIES TxRefines Quiesces
