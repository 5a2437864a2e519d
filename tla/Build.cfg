CONSTANTS
    Models <- MCModels
    Dialects = {d1, d2}
    MaxCompiles = 2
    MaxDylibs = 2
    Bodies <- MCBodies
SPECIFICATION Spec
SYMMETRY Symmetry
CHECK_DEADLOCK FALSE
INVARIANTS
    SymbolsMatchCode
    OneGeneration
    StaleIsRefused
    LinkedWhole
    LoweringKeepsResults
