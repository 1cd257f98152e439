CONSTANTS
    PenIds = {p1, p2}
    TouchIds = {t1}
    Buttons = {}
    Codes = {"Enter"}
    ChordKey = "vkMenu"
    MaxTouch = 2
    Enabled = {"pen", "touch", "mouse", "keyboard", "palm"}
    Toggles = {"touch"}
    MaxRev = 2
    MayFail = FALSE
    Refuses = {"pen"}
    None = None
    Vk <- MCVk
SPECIFICATION Spec
SYMMETRY Symmetry
INVARIANT WindowsTracked
INVARIANT ResetReleases
INVARIANT SharedState
