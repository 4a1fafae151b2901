SPECIFICATION Spec
CONSTANTS
    one = one
    two = two
    last = last
    NoOne = NoOne
    Compilations = {one, two, last}
    Needs <- MCNeeds
    Version <- MCVersion
    After <- MCAfter
INVARIANTS
    LinkedFromOwn
    FailsForCause
    NothingLeft
CHECK_DEADLOCK FALSE
