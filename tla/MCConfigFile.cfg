SPECIFICATION Spec
CONSTANTS
    ConfigLines <- MCConfigLines
    ChipLines <- MCChipLines
    MAX_LINES = 2
    Numbers = {0, 1}
INVARIANT SettingsAreAsWritten
PROPERTY ReaderEnds
CHECK_DEADLOCK FALSE
