CONSTANTS
    o1 = o1
    Taop = Taop
    System = System
    Others = {o1}
    LogWord = LogWord
    IdLength <- MCIdLength
    DataLengths = {50, 110}
    TextLengths <- MCTextLengths
    LogLimit = 10000
    MaxDepth = 4
    MaxEvents = 3
    MaxLines = 9

SPECIFICATION DecoderSpec

INVARIANT
    NoForgedEvent
CHECK_DEADLOCK FALSE

