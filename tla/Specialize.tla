----------------------------- MODULE Specialize -----------------------------
(***************************************************************************)
(* Generic functions, from the checker to the function table: the check    *)
(* that a recursive generic call keeps its type arguments (checker.c), the *)
(* plan of specializations (specialize.c) and the worklist that fills it   *)
(* while the functions it adds are themselves walked (ir.c), then the      *)
(* lookup of every generic call in the finished table.                     *)
(*                                                                         *)
(* A generic function has one type parameter.  A type is a base and the    *)
(* number of shapes wrapped around it; the base Param is the parameter of  *)
(* the function the type is written in.  A body is a sequence of           *)
(* statements, each with one generic call.                                 *)
(***************************************************************************)
EXTENDS Integers, SequencesExt, FiniteSetsExt

CONSTANTS
    Generics,      \* names of the generic functions, as characters
    Plain,         \* names of the other functions, in source order
    Bases,         \* types without parameters
    Param,         \* the type parameter in a body
    Programs,      \* programs considered: bodies by function name
    Limits,        \* instantiation limits considered
    FirstCap,      \* capacity of the function vector when it first grows
    Mangled(_)     \* the characters of a type, all but letters, digits and
                   \* underscores replaced by underscores

VARIABLES
    program,    \* bodies by function name
    phase,      \* "checking", "collecting", and how it ended
    error,      \* the diagnostic, if any
    functions,  \* direct_functions: source, type argument, substituted calls
    cap,        \* its capacity
    plan,       \* ZSpecializationPlan: source, type argument, name
    limit,      \* its limit
    at,         \* index of the function being walked
    stmt,       \* index of the statement in its body
    moved,      \* the vector moved since the pointer to this body was taken
    cut         \* a read through the old pointer has cut a body short

vars == <<program, phase, error, functions, cap, plan, limit, at, stmt, moved, cut>>

Type(base, depth) == [base |-> base, depth |-> depth]
Types == [base : Bases \cup {Param}, depth : Nat]
NoType == Type(Param, 0)
Call(to, arg) == [to |-> to, arg |-> arg]
Calls == [to : Generics, arg : Types]
PlainNames == Range(Plain)

SpecializeAssumption ==
    /\ Plain \in Seq(PlainNames)
    /\ \A i, j \in 1 .. Len(Plain) : Plain[i] = Plain[j] => i = j
    /\ Generics \cap PlainNames = {} /\ Param \notin Bases
    /\ IsFiniteSet(Generics) /\ FirstCap \in Nat \ {0} /\ Limits \subseteq Nat
    /\ \A p \in Programs : p \in [Generics \cup PlainNames -> Seq(Calls)]
    /\ \A p \in Programs : \A f \in PlainNames :
          \A c \in Range(p[f]) : c.arg.base # Param
ASSUME SpecializeAssumption

(* ir_specialize_type_text, with the parameter bound to a type. *)
Bound(t, to) == IF t.base = Param THEN Type(to.base, t.depth + to.depth) ELSE t

----------------------------------------------------------------------------
(* The check of recursive generic calls, for one function as origin; types *)
(* are over the parameter of the origin.                                   *)

References(t) == t.base = Param
Stable(t) == t = Type(Param, 0)

(* Calls made in a context: a generic function under a binding. *)
CallsIn(c) ==
    {Call(d.to, Bound(d.arg, c.arg)) : d \in Range(program[c.to])}
(* The contexts entered at a depth; the origin itself is not entered.      *)
EnteredFrom(origin, contexts) ==
    {d \in UNION {CallsIn(c) : c \in contexts} : d.to # origin /\ References(d.arg)}

(* Mutant of Contexts: only the origin's own calls are looked at. *)
ContextsOwn(origin) == {Call(origin, Type(Param, 0))}
Contexts(origin) ==
    LET depthLimit == Cardinality(Generics) + Len(Plain) + 1
        entered[depth \in 0 .. depthLimit] ==
            IF depth = 0 THEN {Call(origin, Type(Param, 0))}
            ELSE EnteredFrom(origin, entered[depth - 1])
    IN UNION {entered[depth] : depth \in 0 .. depthLimit}

KeepsOriginStable(origin) ==
    \A c \in Contexts(origin) : \A d \in CallsIn(c) :
        d.to = origin /\ References(d.arg) => Stable(d.arg)

----------------------------------------------------------------------------
(* The plan and the function table *)

Instance(source, arg, calls) == [source |-> source, arg |-> arg, calls |-> calls]
(* z_specialized_function_name *)
SpecializedName(c) == c.to \o <<"_", "_">> \o Mangled(c.arg)
NameOf(f) == IF f.source \in PlainNames THEN f.source
             ELSE SpecializedName(Call(f.source, f.arg))

(* The calls of a clone, with the type argument put in. *)
Substituted(c) ==
    [i \in 1 .. Len(program[c.to]) |->
        Call(program[c.to][i].to, Bound(program[c.to][i].arg, c.arg))]

(* Mutant of Planned: the type arguments are not compared. *)
PlannedSource(c) == \E i \in 1 .. Len(plan) : plan[i].to = c.to
Planned(c) == \E i \in 1 .. Len(plan) : plan[i] = c

SameNamePlanned(c) ==
    \E i \in 1 .. Len(plan) : SpecializedName(plan[i]) = SpecializedName(c)

Full == limit > 0 /\ Len(plan) >= limit

(* Mutant of AddResult: the limit is looked at first. *)
AddResultLimitFirst(c) ==
    IF Full THEN "limit" ELSE IF Planned(c) THEN "present"
    ELSE IF SameNamePlanned(c) THEN "collision" ELSE "added"
(* z_specialization_plan_add.  Names in the plan are distinct, so an equal *)
(* entry and one of the same name are never two entries.                   *)
AddResult(c) ==
    CASE Planned(c) -> "present"
      [] SameNamePlanned(c) /\ ~ Planned(c) -> "collision"
      [] ~ SameNamePlanned(c) /\ ~ Planned(c) /\ Full -> "limit"
      [] OTHER -> "added"

(* Mutant of HasName: the table is not looked at. *)
NeverHasName(name) == FALSE
HasName(name) == \E i \in 1 .. Len(functions) : NameOf(functions[i]) = name

(* Mutant of Grown: the vector grows one item late. *)
GrownLate(current, required) ==
    IF required <= current + 1 /\ current # 0 THEN current
    ELSE IF current = 0 THEN FirstCap ELSE 2 * current
(* z_grow_capacity *)
Grown(current, required) ==
    IF required <= current THEN current
    ELSE IF current = 0 THEN FirstCap ELSE 2 * current
----------------------------------------------------------------------------
Init ==
    /\ program \in Programs /\ limit \in Limits
    /\ phase = "checking" /\ error = "none"
    /\ functions = <<>> /\ cap = 0 /\ plan = <<>>
    /\ at = 1 /\ stmt = 1
    /\ moved = FALSE /\ cut = FALSE

(* validate_recursive_generic_call_bindings at each call of each generic   *)
(* function; only an accepted program is lowered.                          *)
Check ==
    /\ phase = "checking"
    /\ IF \A g \in Generics : KeepsOriginStable(g)
       THEN phase' = "cloning" /\ UNCHANGED error
       ELSE phase' = "rejected" /\ error' = "recursion"
    /\ UNCHANGED <<program, functions, cap, plan, limit, at, stmt, moved, cut>>

(* The table starts with the plain functions: push_function_clone *)
ClonePlain ==
    /\ phase = "cloning" /\ Len(functions) < Len(Plain)
    /\ LET f == Plain[Len(functions) + 1] IN
       functions' = Append(functions, Instance(f, NoType, program[f]))
    /\ cap' = Grown(cap, Len(functions) + 1)
    /\ UNCHANGED <<program, phase, error, plan, limit, at, stmt, moved, cut>>

StartWalk ==
    /\ phase = "cloning" /\ Len(functions) = Len(Plain)
    /\ phase' = "collecting"
    /\ UNCHANGED <<program, error, functions, cap, plan, limit, at, stmt, moved, cut>>

Walking == phase = "collecting" /\ at <= Len(functions)
Body == functions[at].calls

Unsupported(why) ==
    /\ phase' = "unsupported" /\ error' = why
    /\ UNCHANGED <<functions, cap, moved, stmt>>

(* ir_push_specialized_function: a vector that grows may move. *)
Push(c) ==
    /\ functions' = Append(functions, Instance(c.to, c.arg, Substituted(c)))
    /\ cap' = Grown(cap, Len(functions) + 1)
    /\ IF cap' = cap THEN UNCHANGED moved ELSE moved' \in {moved, TRUE}
    /\ stmt' = stmt + 1
    /\ UNCHANGED <<phase, error>>

(* ir_collect_generic_specializations_from_expr, for the call of the next  *)
(* statement.  The name is planned before the table is looked at.          *)
CollectCall ==
    /\ Walking /\ stmt <= Len(Body)
    /\ LET c == Body[stmt] IN
       CASE AddResult(c) = "present" ->
                stmt' = stmt + 1 /\ UNCHANGED <<phase, error, functions, cap, plan, moved>>
         [] AddResult(c) \in {"limit", "collision"} ->
                Unsupported(AddResult(c)) /\ UNCHANGED plan
         [] AddResult(c) = "added" ->
                /\ plan' = Append(plan, c)
                /\ IF HasName(SpecializedName(c)) THEN Unsupported("existing") ELSE Push(c)
    /\ UNCHANGED <<program, limit, at, cut>>

(* The pointer to the next body is taken from where the vector is now. *)
NextFunction ==
    /\ Walking /\ stmt > Len(Body)
    /\ at' = at + 1 /\ stmt' = 1 /\ moved' = FALSE
    /\ UNCHANGED <<program, phase, error, functions, cap, plan, limit, cut>>

(* body->len and body->items are read through the pointer taken before the *)
(* vector moved.  The freed memory may hold what it held, which is         *)
(* CollectCall and NextFunction, a smaller length, or a bad pointer.       *)
StaleRead ==
    /\ Walking /\ moved
    /\ \/ /\ stmt <= Len(Body)
          /\ at' = at + 1 /\ stmt' = 1 /\ moved' = FALSE /\ cut' = TRUE
          /\ UNCHANGED <<phase, error>>
       \/ phase' = "crashed" /\ UNCHANGED <<error, at, stmt, moved, cut>>
    /\ UNCHANGED <<program, functions, cap, plan, limit>>

(* ir_find_function_index: the first function of the name. *)
Found(c) ==
    {i \in 1 .. Len(functions) :
        /\ NameOf(functions[i]) = SpecializedName(c)
        /\ \A j \in 1 .. i - 1 : NameOf(functions[j]) # SpecializedName(c)}

(* Every call of every function is looked up in the finished table. *)
Lower ==
    /\ phase = "collecting" /\ at > Len(functions)
    /\ IF \A i \in 1 .. Len(functions) : \A c \in Range(functions[i].calls) : Found(c) # {}
       THEN phase' = "lowered" /\ UNCHANGED error
       ELSE phase' = "unsupported" /\ error' = "missing"
    /\ UNCHANGED <<program, functions, cap, plan, limit, at, stmt, moved, cut>>

Next == Check \/ ClonePlain \/ StartWalk \/ CollectCall \/ NextFunction \/ StaleRead \/ Lower
Spec == Init /\ [][Next]_vars /\ WF_vars(Next)

----------------------------------------------------------------------------
(* Properties *)

Instances ==
    [source : Generics \cup PlainNames, arg : Types, calls : Seq(Calls)]

(* The vector never holds more than its capacity, and the plan and the part *)
(* of the table after the plain functions are one list, but for a name     *)
(* that was planned and then found taken.                                  *)
SpecTypeOK ==
    /\ program \in [Generics \cup PlainNames -> Seq(Calls)] /\ limit \in Nat
    /\ phase \in {"checking", "rejected", "cloning",
                  "collecting", "unsupported", "crashed", "lowered"}
    /\ error \in {"none", "recursion", "limit", "collision", "existing", "missing"}
    /\ functions \in Seq(Instances) /\ plan \in Seq(Calls)
    /\ cap \in Nat /\ Len(functions) <= cap
    /\ at \in Nat \ {0} /\ stmt \in Nat \ {0} /\ at <= Len(functions) + 1
    /\ moved \in BOOLEAN /\ cut \in BOOLEAN
    /\ IF phase \in {"checking", "rejected", "cloning"}
       THEN Len(plan) = 0 /\ Len(functions) <= Len(Plain)
       ELSE Len(functions) + (IF error = "existing" THEN 1 ELSE 0) = Len(Plain) + Len(plan)

(* A call is compiled to the specialization of its callee with its type    *)
(* arguments, although functions are found by a mangled name that several  *)
(* of them could have: ir_function_vec_has_name and the comparisons of     *)
(* z_specialization_plan_add.  After a body was cut short a call may even  *)
(* find the instance of another type.                                      *)
CallsFindTheirInstance ==
    phase = "lowered" /\ ~ cut =>
        \A i \in 1 .. Len(functions) : \A c \in Range(functions[i].calls) :
            \A k \in Found(c) : functions[k].source = c.to /\ functions[k].arg = c.arg

(* The worklist misses no call, those of the functions it adds while it    *)
(* runs included, unless a read of moved memory cut a body short.          *)
NothingMissing == ~ cut => error # "missing"

(* Generic functions are emitted as specializations when called, so no     *)
(* call of an accepted program is without its specialization.              *)
CallsAreEmitted == error # "missing"

(* Calls with all arguments known, reachable from the plain functions in a *)
(* number of steps.                                                        *)
Roots == UNION {Range(program[f]) : f \in PlainNames}
Reach(n) ==
    LET reached[k \in 0 .. n] ==
            IF k = 0 THEN Roots
            ELSE LET before == reached[k - 1]
                 IN before \cup UNION {CallsIn(c) : c \in before}
    IN reached[n]
Reached == Reach(Len(functions) + 1)

(* A program is refused for its own sake: it needs more instances than the *)
(* limit, or two of its functions would have one name.                     *)
RefusalsAreTrue ==
    /\ error = "limit" => Cardinality(Reached) > limit
    /\ error = "collision" =>
          \E c, d \in Reached : c # d /\ SpecializedName(c) = SpecializedName(d)
    /\ error = "existing" => \E c \in Reached : SpecializedName(c) \in PlainNames

(* The check of recursive calls bounds the types of an accepted program:   *)
(* no type argument is wrapped more often than all calls together wrap, so *)
(* a program that never ends specializing is rejected, through whatever    *)
(* functions its recursion goes (validate_recursive_generic_cycle).        *)
Wrapped ==
    UNION {UNION {{<<f, i>>} \X (1 .. program[f][i].arg.depth) : i \in DOMAIN program[f]} :
           f \in DOMAIN program}
Wraps == Cardinality(Wrapped)
RecursionBounded ==
    \A i \in 1 .. Len(functions) : functions[i].arg.depth <= Wraps
=============================================================================
