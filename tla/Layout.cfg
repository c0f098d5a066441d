SPECIFICATION LayoutSpec

CONSTANTS
    MIN_LEDGER_WIDTH = 2
    MAX_LEDGER_WIDTH = 4
    DEFAULT_LEDGER_WIDTH = 3
    KeyStep = 1
    HandleWidth = 1
    Absent = Absent
    Garbage = Garbage
    StoredPrefs <- MCStoredPrefs
    StoredWidths <- MCStoredWidths

PROPERTIES
    ReloadKeepsLayout
    PopoverToggles
