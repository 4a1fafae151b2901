SPECIFICATION Spec
CONSTANTS
    x = x
    y = y
    r = r
    s = s
    o = o
    q = q
    p = p
    f = f
    g = g
    Params = {p}
    Whole = "whole"
    Alphabets <- MCAlphabets
    MaxDepth = 2
    MaxArms = 2
INVARIANTS ReferencesCovered NoDanglingWithoutJump ExclusiveBorrows ReturnsOutlive
PROPERTIES AccessExclusive RefusalsHaveCause
CHECK_DEADLOCK FALSE
