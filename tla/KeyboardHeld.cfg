\* The client has ended when the search has.
CHECK_DEADLOCK FALSE
SPECIFICATION KeyboardSpec
CONSTANTS
    Codes = {a, b, esc}
    Esc = esc
    Slots = 2
    MaxDevices = 1
    MaxInterfaces = 1
    MaxSettings = 1
PROPERTY HeldOnce
