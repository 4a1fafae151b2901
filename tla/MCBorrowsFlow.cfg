SPECIFICATION Spec
CONSTANTS
    x = x
    y = y
    r = r
    s = s
    o = o
    q = q
    p = p
    f = f
    g = g
    Params = {p}
    Whole = "whole"
    Alphabets <- MCLoops
    MaxDepth = 2
    MaxArms = 2
PROPERTY FlowCovered
CHECK_DEADLOCK FALSE
