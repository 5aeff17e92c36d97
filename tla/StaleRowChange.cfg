SPECIFICATION CwSpec
CONSTANTS
    b1 = b1
    b2 = b2
    x1 = x1
    Browsers = {b1, b2}
    Cycles = {x1}
    NoCycle = NoCycle
    Lists = {"reconciliations"}
    MaxVersion = 3
    MaxRowVersion = 3
    MaxProbes = 0
CHECK_DEADLOCK FALSE
PROPERTIES
    ActsOnWhatWasDrawn
