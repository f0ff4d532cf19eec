\* The client has ended when the search has.
CHECK_DEADLOCK FALSE
SPECIFICATION KeyboardSpec
CONSTANTS
    Codes = {a, b, c, esc}
    Esc = esc
    Slots = 3
    MaxDevices = 2
    MaxInterfaces = 2
    MaxSettings = 2
PROPERTIES OncePerPress FailureTypesNothing FirstKeyboard
