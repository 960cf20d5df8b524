SPECIFICATION RewriteSpec
CONSTANTS
    Files <- MCFiles
    Imports <- MCImports
    MaxPasses = 2
INVARIANTS RewriteSound HookedOnce
CHECK_DEADLOCK FALSE
