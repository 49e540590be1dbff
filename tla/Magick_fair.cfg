SPECIFICATION FairSpec
CONSTANTS
    Decodes = {d1}
    Encodes = {e1}
    MAX = 1
    Chunks = 2
CHECK_DEADLOCK FALSE
PROPERTIES EveryCallEnds
