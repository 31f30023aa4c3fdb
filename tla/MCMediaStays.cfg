SPECIFICATION BudgetSpec
CONSTANTS
    Limits = {4, 7}
    Overhead = 1
    Costs = {1, 3}
    ShortCost = 2
    MaxHistory = 3
    MaxRounds = 1
INVARIANTS
    MediaStays
CHECK_DEADLOCK FALSE
