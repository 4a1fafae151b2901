SPECIFICATION Spec
CONSTANTS
    A = A
    B = B
    C = C
    T = T
    Generics <- MCGenerics
    Plain <- MCPlain
    Bases = {A, B, C}
    Param = T
    Programs <- Many
    Limits = {12}
    FirstCap = 4
    Mangled <- MCMangled
INVARIANT CallsAreEmitted
CHECK_DEADLOCK FALSE
