SPECIFICATION JumpSpec
CONSTANTS
    x = x
    y = y
    r = r
    s = s
    o = o
    q = q
    p = p
    f = f
    g = g
    Params = {p}
    Whole = "whole"
    Alphabets <- MCJumps
    MaxDepth = 2
    MaxArms = 2
INVARIANT NoDangling
CHECK_DEADLOCK FALSE
