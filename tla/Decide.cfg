SPECIFICATION Spec
CONSTANTS
    Ids = {1, 2}
    Chains <- MCChains
    Events <- MCEvents
    NoRule = NoRule
INVARIANTS TypeOK FirstMatchDecides NothingLost DropsAreDue
CHECK_DEADLOCK FALSE
