SPECIFICATION Spec
CONSTANTS
    A = A
    B = B
    C = C
    T = T
    Generics <- MCGenerics
    Plain <- MCPlain
    Bases = {A, B, C}
    Param = T
    Programs <- MCPrograms
    Limits = {3, 12}
    FirstCap = 4
    Mangled <- MCMangled
INVARIANTS SpecTypeOK CallsFindTheirInstance NothingMissing RefusalsAreTrue RecursionBounded
CHECK_DEADLOCK FALSE
