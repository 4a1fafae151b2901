------------------------------- MODULE Borrows -------------------------------
(***************************************************************************)
(* The borrow and move tracking of the checker (checker.c), one function   *)
(* body at a time.  The checker walks the body once, statement by          *)
(* statement; the body is chosen while it is walked, so a behaviour is a   *)
(* program and the walk over it.  Beside the walk, an execution of the     *)
(* accepted part is followed down one path: at a branch it takes one arm   *)
(* and waits while the others are checked, a loop body it enters at most   *)
(* once.  The properties relate what the checker believes to what the      *)
(* execution holds.                                                        *)
(*                                                                         *)
(* A place is a binding, named by its name and its scope, and a path below *)
(* it: the whole of it or one field.  Bindings hold a shape with fields, a *)
(* reference to a shape or to a field, or an owned value.                  *)
(***************************************************************************)
EXTENDS Integers, Sequences, FiniteSets

CONSTANTS
    Params,        \* names of the parameters, mutref<shape>, caller's storage
    Alphabets,     \* names, statements and length of the bodies considered
    Whole,         \* the empty path
    MaxDepth,      \* bound: blocks open at once
    MaxArms        \* bound: arms of a match

VARIABLES
    alphabet,   \* the member of Alphabets this body is made of
    scopes,     \* Scope and its parents, outermost first
    blocks,     \* the if, match and while statements being checked
    verdict,    \* "checking", or "rejected" by a diagnostic
    stmts,      \* statements so far
    nextId,     \* identity of the next scope
    held,       \* execution: the place each live reference refers to
    returned,   \* execution: {} or the place the returned reference refers to
    jumped      \* execution: it left a loop body by break or continue

checkVars == <<scopes, blocks, verdict, stmts, nextId>>
runVars == <<held, returned, jumped>>
vars == <<alphabet, checkVars, runVars>>

BorrowsAssumption ==
    /\ MaxDepth \in Nat /\ MaxArms \in Nat \ {0}
    /\ \A a \in Alphabets :
          DOMAIN a = {"shapes", "refs", "owns", "fields", "control", "max"}
ASSUME BorrowsAssumption

----------------------------------------------------------------------------
(* Types, paths, provenance entries *)

RefType(mut, field) == [ref |-> TRUE, mut |-> mut, field |-> field]
ShapeType == [ref |-> FALSE, mut |-> FALSE, field |-> FALSE]
OwnedType == [ref |-> FALSE, mut |-> TRUE, field |-> FALSE]
IsRef(type) == type.ref

(* Paths overlap when one is at or below the other. *)
Overlaps(p, q) == p = q \/ p = Whole \/ q = Whole

(* A suffix below a path; only a whole shape has fields. *)
Join(p, q) == IF p = Whole THEN q ELSE p

Entry(root, scope, path, mut, local) ==
    [root |-> root, scope |-> scope, path |-> path, mut |-> mut, local |-> local]

SamePlace(d, e) == d.root = e.root /\ d.scope = e.scope /\ d.path = e.path

(* Entries of one place are merged, with the stronger of their flags. *)
Merged(entries) ==
    {[e EXCEPT !.mut = \E d \in entries : SamePlace(d, e) /\ d.mut,
               !.local = \E d \in entries : SamePlace(d, e) /\ d.local] : e \in entries}

As(entries, mut) == Merged({[e EXCEPT !.mut = mut] : e \in entries})

----------------------------------------------------------------------------
(* Scopes *)

Binding(type, prov) == [type |-> type, moved |-> FALSE, prov |-> prov]
Bind(vs, name, b) == [n \in DOMAIN vs \cup {name} |-> IF n = name THEN b ELSE vs[n]]

Levels(name) == {i \in 1 .. Len(scopes) : name \in DOMAIN scopes[i].vars}
InScope(name) == Levels(name) # {}
Level(name) == CHOOSE i \in Levels(name) : \A j \in Levels(name) : j <= i
ScopeOf(name) == scopes[Level(name)].id
TypeOf(name) == scopes[Level(name)].vars[name].type
Moved(name) == scopes[Level(name)].vars[name].moved
ProvOf(name) == scopes[Level(name)].vars[name].prov

VisibleScopes == {scopes[i].id : i \in 1 .. Len(scopes)}
AllEntries ==
    UNION {UNION {scopes[i].vars[n].prov : n \in DOMAIN scopes[i].vars} :
             i \in 1 .. Len(scopes)}

WithProv(name, prov) ==
    [scopes EXCEPT ![Level(name)].vars[name].prov = prov]
(* scope_set_moved *)
WithMoved(sc, name, moved) ==
    [sc EXCEPT ![Level(name)].vars[name].moved = moved]

(* Mutant of BorrowsAt: the path is not looked at. *)
BorrowsAtRoot(entries, root, path) ==
    {e \in entries : e.root = root /\ e.scope = ScopeOf(root)}
(* The entries that borrow a place: scope_borrow_counts_for_place. *)
BorrowsAt(entries, root, path) ==
    {e \in entries : e.root = root /\ e.scope = ScopeOf(root) /\ Overlaps(e.path, path)}

ReadAllowed(entries, root, path) ==
    ~ \E e \in BorrowsAt(entries, root, path) : e.mut

(* Mutant of BorrowAllowed: a mutable borrow is stopped by mutable ones only. *)
BorrowAllowedMut(entries, root, path, mut) == ReadAllowed(entries, root, path)
BorrowAllowed(entries, root, path, mut) ==
    IF mut THEN BorrowsAt(entries, root, path) = {}
    ELSE ReadAllowed(entries, root, path)

----------------------------------------------------------------------------
(* Reference-valued expressions: a borrow of a place, or the value of a    *)
(* reference binding.                                                      *)

Fields == alphabet.fields \cup {Whole}
Names == alphabet.shapes \cup alphabet.owns \cup alphabet.refs \cup Params
Exprs ==
    [form : {"borrow"}, root : Names, path : Fields, mut : BOOLEAN]
    \cup [form : {"copy"}, root : Names, path : {Whole}, mut : {FALSE}]

(* Only values and fields behind a reference are borrowed, never a        *)
(* reference itself, and only a shape has fields.                         *)
WellFormed(x) ==
    /\ InScope(x.root)
    /\ LET t == TypeOf(x.root) IN
       \/ x.form = "copy" /\ IsRef(t)
       \/ x.form = "borrow" /\ ~ IsRef(t) /\ (t = OwnedType => x.path = Whole)
       \/ x.form = "borrow" /\ IsRef(t) /\ ~ t.field /\ x.path # Whole

TypeOfExpr(x) ==
    IF x.form = "copy" THEN TypeOf(x.root) ELSE RefType(x.mut, x.path # Whole)

(* check_expr of the expression; entries are the borrows it is checked     *)
(* against.  A mutable borrow of a name is not checked for a move.         *)
ExprAllowed(x, entries) ==
    LET t == TypeOf(x.root) IN
    IF x.form = "copy" THEN ReadAllowed(entries, x.root, Whole)
    ELSE /\ IF x.mut THEN IsRef(t) => t.mut
            ELSE /\ ~ (t = OwnedType /\ Moved(x.root))
                 /\ ReadAllowed(entries, x.root, x.path)
         /\ BorrowAllowed(entries, x.root, x.path, x.mut)

(* The parameters are in the outermost scope of a body. *)
IsParam(name, id) == name \in Params /\ id = 1

(* expr_reference_provenance, for a binding found at scope id with the     *)
(* provenance prov.                                                        *)
Provenance(x, id, prov) ==
    IF x.form = "copy"
    THEN IF prov # {} THEN prov
         ELSE {Entry(x.root, id, Whole, TypeOf(x.root).mut, ~ IsParam(x.root, id))}
    ELSE IF IsRef(TypeOf(x.root)) /\ prov # {}
         THEN Merged({[e EXCEPT !.path = Join(e.path, x.path), !.mut = x.mut] : e \in prov})
         ELSE {Entry(x.root, id, x.path, x.mut, ~ IsParam(x.root, id))}

ProvenanceOf(x) == Provenance(x, ScopeOf(x.root), ProvOf(x.root))

----------------------------------------------------------------------------
(* The execution beside the walk *)

(* It runs when it is in the arm being checked of every open block. *)
Running ==
    /\ verdict = "checking"
    /\ returned = {}
    /\ \A k \in 1 .. Len(blocks) : blocks[k].taken = blocks[k].arm

(* A place, and whether it was reached through another reference. *)
Place(root, scope, path, via) ==
    [root |-> root, scope |-> scope, path |-> path, via |-> via]

(* The place an expression refers to when it is executed. *)
Target(x) ==
    LET b == <<x.root, ScopeOf(x.root)>> IN
    IF ~ IsRef(TypeOf(x.root)) THEN Place(x.root, b[2], x.path, FALSE)
    ELSE IF b \in DOMAIN held
         THEN Place(held[b].root, held[b].scope, Join(held[b].path, x.path), TRUE)
         ELSE Place(x.root, b[2], x.path, TRUE)

Hold(b, place) == [c \in DOMAIN held \cup {b} |-> IF c = b THEN place ELSE held[c]]
OnlyIn(ids) == [b \in {c \in DOMAIN held : c[2] \in ids} |-> held[b]]

(* Mutability of the reference a binding holds. *)
HoldsMut(b) ==
    \E i \in 1 .. Len(scopes) : scopes[i].id = b[2] /\ scopes[i].vars[b[1]].type.mut

----------------------------------------------------------------------------
Init ==
    /\ alphabet \in Alphabets
    /\ scopes = <<[id |-> 1, vars |-> [p \in Params |-> Binding(RefType(TRUE, FALSE), {})]]>>
    /\ blocks = <<>>
    /\ verdict = "checking"
    /\ stmts = 0
    /\ nextId = 2
    /\ held = <<>>
    /\ returned = {}
    /\ jumped = FALSE

Statement ==
    /\ verdict = "checking" /\ stmts < alphabet.max
    /\ stmts' = stmts + 1
    /\ UNCHANGED alphabet

Accept == UNCHANGED verdict
Refuse ==
    /\ verdict' = "rejected"
    /\ UNCHANGED <<scopes, blocks, nextId, runVars>>

Inner == scopes[Len(scopes)]
Fresh(name) == name \notin DOMAIN Inner.vars
Declared(name, b) == [scopes EXCEPT ![Len(scopes)].vars = Bind(@, name, b)]

(* STMT_LET of a shape or of a fresh owned value *)
LetShape(name) ==
    /\ Statement /\ Fresh(name)
    /\ scopes' = Declared(name, Binding(ShapeType, {}))
    /\ Accept /\ UNCHANGED <<blocks, nextId, runVars>>

LetOwned(name) ==
    /\ Statement /\ Fresh(name)
    /\ scopes' = Declared(name, Binding(OwnedType, {}))
    /\ Accept /\ UNCHANGED <<blocks, nextId, runVars>>

(* register_borrow_binding looks the initializer up after the new binding  *)
(* is added, so a name that shadows the one it copies finds itself.        *)
LetProvenance(name, x) ==
    As(IF x.root = name THEN Provenance(x, Inner.id, {}) ELSE ProvenanceOf(x),
       TypeOfExpr(x).mut)

(* STMT_LET of a reference *)
LetRef(name, x) ==
    /\ Statement /\ Fresh(name) /\ WellFormed(x)
    /\ IF ExprAllowed(x, AllEntries)
       THEN /\ scopes' = Declared(name, Binding(TypeOfExpr(x), LetProvenance(name, x)))
            /\ held' = IF Running THEN Hold(<<name, Inner.id>>, Target(x)) ELSE held
            /\ Accept /\ UNCHANGED <<blocks, nextId, returned, jumped>>
       ELSE Refuse

(* An owned value is moved, into a new binding or to a callee. *)
Owned(name) == InScope(name) /\ TypeOf(name) = OwnedType
MoveAllowed(name) == ~ Moved(name) /\ ReadAllowed(AllEntries, name, Whole)

LetMoved(name, from) ==
    /\ Statement /\ Fresh(name) /\ Owned(from)
    /\ IF MoveAllowed(from)
       THEN /\ scopes' = [WithMoved(scopes, from, TRUE) EXCEPT
                          ![Len(scopes)].vars = Bind(@, name, Binding(OwnedType, {}))]
            /\ Accept /\ UNCHANGED <<blocks, nextId, runVars>>
       ELSE Refuse

MoveAway(from) ==
    /\ Statement /\ Owned(from)
    /\ IF MoveAllowed(from)
       THEN /\ scopes' = WithMoved(scopes, from, TRUE)
            /\ Accept /\ UNCHANGED <<blocks, nextId, runVars>>
       ELSE Refuse

(* Mutant of AssignAllowed: only mutable borrows stop an assignment. *)
AssignAllowedShared(root, path) == ReadAllowed(AllEntries, root, path)
(* check_assignment_not_borrowed *)
AssignAllowed(root, path) == BorrowsAt(AllEntries, root, path) = {}

(* STMT_ASSIGN of a value to a shape, to a field of one, or through a      *)
(* mutable reference; no reference changes.                                *)
SetValue(name, path) ==
    /\ Statement /\ InScope(name)
    /\ IF IsRef(TypeOf(name)) THEN TypeOf(name).mut /\ ~ TypeOf(name).field /\ path # Whole
       ELSE TypeOf(name) = ShapeType
    /\ IF AssignAllowed(name, path)
       THEN Accept /\ UNCHANGED <<scopes, blocks, nextId, runVars>>
       ELSE Refuse

(* STMT_ASSIGN of a fresh owned value: the binding is live again. *)
SetOwned(name) ==
    /\ Statement /\ Owned(name)
    /\ IF AssignAllowed(name, Whole)
       THEN /\ scopes' = WithMoved(scopes, name, FALSE)
            /\ Accept /\ UNCHANGED <<blocks, nextId, runVars>>
       ELSE Refuse

(* What the initializer of an assignment is checked against: the target's  *)
(* own borrows are set aside (assignment_provenance_snapshot_clear).       *)
EntriesWithout(name) ==
    UNION {UNION {IF i = Level(name) /\ n = name THEN {} ELSE scopes[i].vars[n].prov :
                    n \in DOMAIN scopes[i].vars} : i \in 1 .. Len(scopes)}

(* Mutant of Outlives: any visible scope will do. *)
OutlivesVisible(entries, level) == \A e \in entries : e.scope \in VisibleScopes
(* Every origin is in the target's scope or one around it. *)
Outlives(entries, level) ==
    \A e \in entries : \E i \in 1 .. level : scopes[i].id = e.scope

(* STMT_ASSIGN of a reference: update_borrow_assignment.  A parameter is  *)
(* not assigned.                                                           *)
SetRef(name, x) ==
    /\ Statement /\ InScope(name) /\ ~ IsParam(name, ScopeOf(name)) /\ WellFormed(x)
    /\ TypeOfExpr(x) = TypeOf(name)
    /\ IF /\ AssignAllowed(name, Whole)
          /\ ExprAllowed(x, EntriesWithout(name))
          /\ Outlives(ProvenanceOf(x), Level(name))
       THEN /\ scopes' = WithProv(name, As(ProvenanceOf(x), TypeOf(name).mut))
            /\ held' = IF Running THEN Hold(<<name, ScopeOf(name)>>, Target(x)) ELSE held
            /\ Accept /\ UNCHANGED <<blocks, nextId, returned, jumped>>
       ELSE Refuse

(* STMT_EXPR that reads a shape, a field or an owned value *)
Read(name, path) ==
    /\ Statement /\ InScope(name) /\ ~ IsRef(TypeOf(name))
    /\ TypeOf(name) = OwnedType => path = Whole
    /\ IF ~ Moved(name) /\ ReadAllowed(AllEntries, name, path)
       THEN Accept /\ UNCHANGED <<scopes, blocks, nextId, runVars>>
       ELSE Refuse

----------------------------------------------------------------------------
(* Blocks.  A snapshot is the provenance of every binding of every scope;  *)
(* whether a binding was moved is not part of it.                          *)

Snapshot(sc) == [i \in 1 .. Len(sc) |-> [n \in DOMAIN sc[i].vars |-> sc[i].vars[n].prov]]

(* The bindings that were there when the snapshot was taken are reset. *)
Restored(sc, snap) ==
    [i \in 1 .. Len(snap) |->
        [sc[i] EXCEPT !.vars = [n \in DOMAIN @ |->
            IF n \in DOMAIN snap[i] THEN [@[n] EXCEPT !.prov = snap[i][n]] ELSE @[n]]]]

(* Mutant of Joined: only what every branch borrows stays borrowed. *)
JoinedBoth(before, states) ==
    IF states = {} THEN before
    ELSE [i \in 1 .. Len(before) |-> [n \in DOMAIN before[i] |->
            {e \in UNION {s[i][n] : s \in states} : \A s \in states : e \in s[i][n]}]]
(* provenance_scope_snapshot_restore_union *)
Joined(before, states) ==
    IF states = {} THEN before
    ELSE [i \in 1 .. Len(before) |-> [n \in DOMAIN before[i] |->
            Merged(UNION {s[i][n] : s \in states})]]

Outer(sc) == SubSeq(sc, 1, Len(sc) - 1)
Opened(sc) == Append(sc, [id |-> nextId, vars |-> <<>>])

(* Whether a condition is known, and what it then lets happen. *)
Conditions == {"unknown", "true", "false"}
ArmPossible(b, arm) ==
    b.kind = "match" \/ b.cond = "unknown" \/ (b.cond = "true") = (arm = 1)

(* STMT_IF, STMT_MATCH and STMT_WHILE open a scope for their body. *)
Open(kind, cond) ==
    /\ Statement /\ Len(blocks) < MaxDepth
    /\ \E taken \in 0 .. MaxArms :
        /\ kind = "if" => taken \in 1 .. 2
        /\ kind = "match" => taken \in 1 .. MaxArms
        /\ kind = "while" => taken \in 0 .. 1
        /\ blocks' = Append(blocks,
              [kind |-> kind, cond |-> cond, before |-> Snapshot(scopes), states |-> {},
               arm |-> 1, exits |-> FALSE, allExit |-> TRUE,
               taken |-> IF Running THEN taken ELSE 0])
        /\ Running =>
              CASE kind = "match" -> TRUE
                [] kind = "if" -> cond # "unknown" => taken = IF cond = "true" THEN 1 ELSE 2
                [] kind = "while" -> cond # "unknown" => taken = IF cond = "true" THEN 1 ELSE 0
        /\ ~ Running => taken = 1
    /\ scopes' = Opened(scopes) /\ nextId' = nextId + 1
    /\ Accept /\ UNCHANGED runVars

Top == blocks[Len(blocks)]
Below == SubSeq(blocks, 1, Len(blocks) - 1)
Continues(b) ==
    ~ b.exits /\ IF b.kind = "while" THEN b.cond # "false" ELSE ArmPossible(b, b.arm)

Captured(b) == IF Continues(b) THEN {Snapshot(Outer(scopes))} ELSE {}

(* The execution leaves the scopes that are not among sc. *)
RunIn(sc) ==
    held' = OnlyIn({sc[i].id : i \in 1 .. Len(sc)})

(* The next arm starts from the state before the statement. *)
NextArm ==
    /\ Statement /\ blocks # <<>>
    /\ \/ Top.kind = "if" /\ Top.arm = 1
       \/ Top.kind = "match" /\ Top.arm < MaxArms
    /\ blocks' = Append(Below, [Top EXCEPT
          !.states = @ \cup Captured(Top), !.arm = @ + 1,
          !.exits = FALSE, !.allExit = @ /\ Top.exits])
    /\ scopes' = Opened(Restored(Outer(scopes), Top.before))
    /\ nextId' = nextId + 1
    /\ RunIn(Outer(scopes))
    /\ Accept /\ UNCHANGED <<returned, jumped>>

Exits(bs) == IF bs = <<>> THEN bs ELSE [bs EXCEPT ![Len(bs)].exits = TRUE]

(* The end of the statement: the states of its arms are joined; a loop     *)
(* joins the state before it and the one after its body.                   *)
EndBlock ==
    /\ Statement /\ blocks # <<>>
    /\ Top.kind = "if" => Top.arm = 2
    /\ Top.kind = "match" => Top.taken <= Top.arm
    /\ LET states == Top.states \cup Captured(Top)
                     \cup IF Top.kind = "while" THEN {Top.before} ELSE {}
       IN scopes' = Restored(Outer(scopes), Joined(Top.before, states))
    /\ blocks' = IF Top.kind # "while" /\ Top.allExit /\ Top.exits THEN Exits(Below) ELSE Below
    /\ RunIn(Outer(scopes))
    /\ Accept /\ UNCHANGED <<nextId, returned, jumped>>

Loops == {k \in 1 .. Len(blocks) : blocks[k].kind = "while"}

(* STMT_BREAK and STMT_CONTINUE change nothing the checker knows; the      *)
(* execution waits for the end of the loop.                                *)
Jump ==
    /\ Statement
    /\ IF Loops = {} THEN Refuse
       ELSE LET loop == CHOOSE k \in Loops : \A j \in Loops : j <= k IN
            /\ IF Running
               THEN /\ blocks' = [k \in 1 .. Len(blocks) |->
                          IF k >= loop THEN [blocks[k] EXCEPT !.taken = 0] ELSE blocks[k]]
                    /\ RunIn(SubSeq(scopes, 1, loop))
                    /\ jumped' = TRUE
               ELSE UNCHANGED <<blocks, held, jumped>>
            /\ Accept /\ UNCHANGED <<scopes, nextId, returned>>

(* STMT_RETURN without a value, or STMT_RAISE *)
Nothing == Place("nothing", 0, Whole, FALSE)
Return ==
    /\ Statement
    /\ blocks' = Exits(blocks)
    /\ returned' = IF Running THEN {Nothing} ELSE returned
    /\ Accept /\ UNCHANGED <<scopes, nextId, held, jumped>>

(* Mutant of MayReturn: only the first origin is looked at. *)
MayReturnSome(entries) == \E e \in entries : ~ e.local
(* check_return_borrow_escape *)
MayReturn(entries) == \A e \in entries : ~ e.local

(* STMT_RETURN of a reference *)
ReturnRef(x) ==
    /\ Statement /\ WellFormed(x)
    /\ IF ExprAllowed(x, AllEntries) /\ MayReturn(ProvenanceOf(x))
       THEN /\ blocks' = Exits(blocks)
            /\ returned' = IF Running THEN {Target(x)} ELSE returned
            /\ Accept /\ UNCHANGED <<scopes, nextId, held, jumped>>
       ELSE Refuse

Control(c) == c \in alphabet.control

Next ==
    \/ \E n \in alphabet.shapes : LetShape(n)
    \/ \E n \in alphabet.owns : LetOwned(n) \/ SetOwned(n) \/ MoveAway(n)
    \/ \E n, m \in alphabet.owns : LetMoved(n, m)
    \/ \E n \in alphabet.refs, x \in Exprs : LetRef(n, x) \/ SetRef(n, x)
    \/ \E n \in alphabet.shapes \cup alphabet.refs \cup Params, p \in Fields : SetValue(n, p)
    \/ \E n \in alphabet.shapes \cup alphabet.owns, p \in Fields : Read(n, p)
    \/ \E k \in {"if", "while"}, c \in Conditions : Control(k) /\ Control(c) /\ Open(k, c)
    \/ Control("match") /\ Open("match", "unknown")
    \/ NextArm
    \/ EndBlock
    \/ Control("while") /\ Jump
    \/ Control("ret") /\ Return
    \/ Control("retref") /\ \E x \in Exprs : ReturnRef(x)

Spec == Init /\ [][Next]_vars

----------------------------------------------------------------------------
(* Properties *)

Borrowed(e, place) ==
    e.root = place.root /\ e.scope = place.scope /\ Overlaps(e.path, place.path)

(* The name of a place is bound again in an inner scope: no statement can  *)
(* name the place until that scope is left.                                *)
Hidden(place) == \E i \in Levels(place.root) : scopes[i].id > place.scope

(* The place each live reference of the execution refers to is one that    *)
(* some binding is recorded to borrow, and mutably if the reference is     *)
(* mutable, or a hidden one.  This is what every conflict check relies on; *)
(* it is about the snapshots that check_stmt takes, restores and joins     *)
(* around branches, and about a reference that shadows the value it is     *)
(* made from, which register_borrow_binding records as borrowing itself.   *)
Covered == \A b \in DOMAIN held :
    \/ \E e \in AllEntries : Borrowed(e, held[b]) /\ (HoldsMut(b) => e.mut)
    \/ Hidden(held[b])
ReferencesCovered == Running /\ ~ jumped => Covered

(* No live reference refers to a binding of a scope that was left: the     *)
(* second memory safety guarantee of documentation/language/memory.md.     *)
NoDangling == \A b \in DOMAIN held : held[b].scope \in VisibleScopes

(* It holds along every path that leaves no loop by a jump: the lifetime   *)
(* check of update_borrow_assignment.                                      *)
NoDanglingWithoutJump == ~ jumped => NoDangling

(* Two references of which one is mutable never overlap, unless one of     *)
(* them was made from a reference: check_borrow_conflict_at.               *)
ExclusiveBorrows ==
    ~ jumped =>
        \A a, b \in DOMAIN held :
            /\ a # b /\ held[a].root = held[b].root /\ held[a].scope = held[b].scope
            /\ Overlaps(held[a].path, held[b].path) /\ HoldsMut(a)
            => held[a].via \/ held[b].via

Refers(b, name, path) ==
    held[b].root = name /\ held[b].scope = ScopeOf(name) /\ Overlaps(held[b].path, path)

(* A binding is not assigned while a live reference refers to it, and not  *)
(* read while a mutable one does: check_assignment_not_borrowed and        *)
(* check_read_not_mutably_borrowed, along every path to the statement.     *)
AccessExclusive ==
    [][ /\ Running /\ ~ jumped /\ verdict' = "checking"
        => \A n \in alphabet.shapes \cup alphabet.owns, p \in Fields :
              /\ SetValue(n, p) \/ (SetOwned(n) /\ p = Whole)
                    => \A b \in DOMAIN held : ~ Refers(b, n, p)
              /\ Read(n, p) \/ (MoveAway(n) /\ p = Whole)
                    => \A b \in DOMAIN held : Refers(b, n, p) => ~ HoldsMut(b) ]_vars

(* A returned reference is to the caller's storage: check_return_borrow_escape. *)
ReturnsOutlive ==
    ~ jumped => \A place \in returned : place = Nothing \/ IsParam(place.root, place.scope)

(* In a body without a closed block an assignment is refused for a reason: *)
(* some live reference refers to what is assigned                          *)
(* (scope_borrow_counts_for_place, with its comparison of paths).          *)
RefusalsHaveCause ==
    [][ /\ Running /\ verdict' = "rejected" /\ nextId = Len(scopes) + 1
        => \A n \in alphabet.shapes, p \in Fields :
              SetValue(n, p) /\ ~ IsRef(TypeOf(n)) => \E b \in DOMAIN held : Refers(b, n, p) ]_vars

(* A loop body is checked from the state before the loop: when the body is *)
(* entered again, what live references refer to is in that state.          *)
BodyCovered(before) == \A b \in DOMAIN held' :
    \E i \in 1 .. Len(before) : \E n \in DOMAIN before[i] :
        \E e \in before[i][n] : Borrowed(e, held'[b])
FlowCovered ==
    [][ EndBlock /\ Running /\ Top.kind = "while" /\ Top.cond # "false"
        => BodyCovered(Top.before) ]_vars
=============================================================================
