SPECIFICATION Spec
CONSTANTS
    Parse <- MCParse
    Menus <- MCMenus
INVARIANT BatchInBounds
PROPERTY NoFlapping
PROPERTY HoldsServed
PROPERTY EpochDiscipline
PROPERTY FenceAdvances
PROPERTY RampsUp
CHECK_DEADLOCK FALSE
