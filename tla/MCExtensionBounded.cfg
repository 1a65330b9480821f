SPECIFICATION Spec
CONSTANTS
    Thread = {t1, t2}
    Window = 4
    Grace = 2
    Stall = 0
    MaxTime = 9
PROPERTIES
    ExtensionBounded
