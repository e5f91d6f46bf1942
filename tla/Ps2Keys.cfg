SPECIFICATION Spec
CONSTANTS
    Keys = {"0", "3", "7", "8", "<", "+", ",", "-", ".", "sz", "#", "q", "a", "insert", "delete", "backspace", "enter", "keypadEnter", "left", "ctrl", "alt", "pause", "print", "lshift", "rshift", "altgr"}
    MaxHeld = 4
INVARIANTS NothingSticks HeldKeysSeen LegendTyped
