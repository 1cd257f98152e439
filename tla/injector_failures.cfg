CONSTANTS
    PenIds = {p1, p2}
    TouchIds = {t1, t2}
    Buttons = {1}
    Codes = {"Enter"}
    ChordKey = "vkMenu"
    MaxTouch = 1
    Enabled = {"pen", "touch", "mouse", "keyboard", "gestures", "palm"}
    Toggles = {}
    MaxRev = 0
    MayFail = TRUE
    Refuses = {"pen", "touch"}
    None = None
    Vk <- MCVk
SPECIFICATION Spec
SYMMETRY Symmetry
INVARIANT TouchesTracked
