SPECIFICATION Spec
CONSTANTS
    Ids = {1, 2}
    Chains <- MCChains
    Events <- MCEvents
    NoRule = NoRule
INVARIANTS ShadowEnforcesNothing
CHECK_DEADLOCK FALSE
