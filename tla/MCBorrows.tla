----------------------------- MODULE MCBorrows -----------------------------
(* Bodies for the runs of Borrows. *)
EXTENDS Borrows

CONSTANTS x, y, r, s, o, q, p, f, g

Body(shapes, refs, owns, fields, control, max) ==
    [shapes |-> shapes, refs |-> refs, owns |-> owns, fields |-> fields,
     control |-> control, max |-> max]

(* Branches and loops over one shape and two references; fields and        *)
(* references made from references; matches, known conditions and returned *)
(* references; owned values.                                               *)
Flow == Body({x}, {r, s}, {}, {}, {"if", "while", "unknown"}, 7)
Paths == Body({x}, {r, s}, {}, {f, g}, {"retref"}, 5)
Arms == Body({x}, {r}, {}, {}, {"match", "if", "true", "false", "ret", "retref"}, 7)
Moves == Body({}, {r}, {o, q}, {}, {"if", "unknown", "while"}, 6)
Shadows == Body({x, r}, {x, r}, {}, {f}, {"if", "unknown"}, 6)
MCAlphabets == {Flow, Paths, Arms, Moves, Shadows}

(* A loop over two shapes and a reference. *)
MCLoops == {Body({x, y}, {r}, {}, {}, {"while", "unknown"}, 6)}

(* One body, and every path through it: a reference is set to a binding of *)
(* the inner block, the loop is left by a jump, what follows the jump in   *)
(* the loop sets the reference back, and a reference of the outer block    *)
(* then takes what it refers to.                                           *)
MCJumps == {Body({x, y}, {r, s}, {}, {}, {"if", "while", "unknown"}, 13)}

To(place) == [form |-> "borrow", root |-> place, path |-> Whole, mut |-> FALSE]
Of(ref) == [form |-> "copy", root |-> ref, path |-> Whole, mut |-> FALSE]

JumpBody ==
    \/ stmts = 0 /\ LetShape(x)
    \/ stmts = 1 /\ LetRef(s, To(x))
    \/ stmts = 2 /\ Open("if", "unknown")
    \/ stmts = 3 /\ LetShape(y)
    \/ stmts = 4 /\ LetRef(r, To(x))
    \/ stmts = 5 /\ Open("while", "unknown")
    \/ stmts = 6 /\ (SetRef(r, To(y)) \/ SetRef(r, To(x)))
    \/ stmts = 7 /\ (Jump \/ Read(x, Whole))
    \/ stmts = 8 /\ (SetRef(r, To(x)) \/ SetRef(r, To(y)))
    \/ stmts = 9 /\ EndBlock
    \/ stmts = 10 /\ SetRef(s, Of(r))
    \/ stmts = 11 /\ NextArm
    \/ stmts = 12 /\ EndBlock

JumpSpec == Init /\ [][Next /\ JumpBody]_vars
=============================================================================
