---------------------------- MODULE BorrowsProofs ----------------------------
(***************************************************************************)
(* Proofs about Borrows.                                                   *)
(*                                                                         *)
(* The invariant has three parts: the scopes, and the views of them that   *)
(* the open blocks keep (Layout); exact entries until a block is closed    *)
(* (ExactOK); and what the execution holds (HeldInv), for which each open  *)
(* block says from which state the walk will go on where the execution     *)
(* does.                                                                   *)
(***************************************************************************)
EXTENDS Borrows, SeqLemmas

----------------------------------------------------------------------------
(* Types.  A view gives every binding of some scopes a provenance: the     *)
(* snapshots of check_stmt are views, and so is what the scopes hold now.  *)

AllNames == Params \cup UNION {a.shapes \cup a.refs \cup a.owns : a \in Alphabets}
AllPaths == {Whole} \cup UNION {a.fields : a \in Alphabets}

TypeSet == [ref : BOOLEAN, mut : BOOLEAN, field : BOOLEAN]
EntrySet == [root : AllNames, scope : Nat, path : AllPaths, mut : BOOLEAN, local : BOOLEAN]
BindingSet == [type : TypeSet, moved : BOOLEAN, prov : SUBSET EntrySet]
VarsSet == UNION {[D -> BindingSet] : D \in SUBSET AllNames}
ScopeSet == [id : Nat, vars : VarsSet]
ViewSet == Seq(UNION {[D -> SUBSET EntrySet] : D \in SUBSET AllNames})
BlockSet == [kind : {"if", "match", "while"}, cond : Conditions,
             before : ViewSet, states : SUBSET ViewSet,
             arm : Nat \ {0}, exits : BOOLEAN, allExit : BOOLEAN, taken : Nat]

\* Scopes t are sc up to some length, but for moved flags and provenances.
Frame(sc, t, len) ==
    \A i \in 1 .. len :
        /\ t[i].id = sc[i].id /\ DOMAIN t[i].vars = DOMAIN sc[i].vars
        /\ \A n \in DOMAIN sc[i].vars : t[i].vars[n].type = sc[i].vars[n].type
Flags(sc, t, len) ==
    \A i \in 1 .. len : \A n \in DOMAIN sc[i].vars : t[i].vars[n].moved = sc[i].vars[n].moved
Provs(t, view, len) ==
    \A i \in 1 .. len : \A n \in DOMAIN t[i].vars : t[i].vars[n].prov = view[i][n]

\* A sequence of scopes, taken apart.
LEMMA ScopeFacts ==
    ASSUME NEW sc \in Seq(ScopeSet), NEW i \in 1 .. Len(sc)
    PROVE  /\ Len(sc) \in Nat /\ sc[i] \in ScopeSet
           /\ sc[i].id \in Nat
           /\ DOMAIN sc[i].vars \subseteq AllNames
           /\ sc[i].vars \in [DOMAIN sc[i].vars -> BindingSet]
           /\ \A n \in DOMAIN sc[i].vars :
                 /\ sc[i].vars[n] \in BindingSet
                 /\ sc[i].vars[n].type \in TypeSet
                 /\ sc[i].vars[n].moved \in BOOLEAN
                 /\ sc[i].vars[n].prov \in SUBSET EntrySet
<1>1. Len(sc) \in Nat /\ sc[i] \in ScopeSet
  OBVIOUS
<1>2. sc[i].id \in Nat /\ sc[i].vars \in VarsSet
  BY <1>1 DEF ScopeSet
<1>3. PICK D \in SUBSET AllNames : sc[i].vars \in [D -> BindingSet]
  BY <1>2 DEF VarsSet
<1>4. DOMAIN sc[i].vars = D
  BY <1>3
<1>5. \A n \in D : sc[i].vars[n] \in BindingSet
  BY <1>3
<1>6. \A b \in BindingSet : b.type \in TypeSet /\ b.moved \in BOOLEAN /\ b.prov \in SUBSET EntrySet
  BY DEF BindingSet
<1> QED BY <1>1, <1>2, <1>3, <1>4, <1>5, <1>6

\* A function on the first numbers is a sequence.
LEMMA SeqOfFunction ==
    ASSUME NEW S, NEW n \in Nat, NEW s \in [1 .. n -> S]
    PROVE  s \in Seq(S) /\ Len(s) = n
OBVIOUS

\* The snapshot of the scopes is a view.
LEMMA SnapshotFacts ==
    ASSUME NEW sc \in Seq(ScopeSet)
    PROVE  /\ Snapshot(sc) \in ViewSet /\ Len(Snapshot(sc)) = Len(sc)
           /\ \A i \in 1 .. Len(sc) :
                 /\ DOMAIN Snapshot(sc)[i] = DOMAIN sc[i].vars
                 /\ \A n \in DOMAIN sc[i].vars : Snapshot(sc)[i][n] = sc[i].vars[n].prov
<1> DEFINE F == UNION {[D -> SUBSET EntrySet] : D \in SUBSET AllNames}
           row(i) == [n \in DOMAIN sc[i].vars |-> sc[i].vars[n].prov]
<1>1. ASSUME NEW i \in 1 .. Len(sc) PROVE row(i) \in F
  <2>1. DOMAIN sc[i].vars \in SUBSET AllNames
        /\ \A n \in DOMAIN sc[i].vars : sc[i].vars[n].prov \in SUBSET EntrySet
    BY ScopeFacts
  <2>2. row(i) \in [DOMAIN sc[i].vars -> SUBSET EntrySet]
    BY <2>1
  <2> QED BY <2>1, <2>2
<1>2. Snapshot(sc) = [i \in 1 .. Len(sc) |-> row(i)]
  BY DEF Snapshot
<1>3. Len(sc) \in Nat
  OBVIOUS
<1> HIDE DEF F
<1>4. [i \in 1 .. Len(sc) |-> row(i)] \in [1 .. Len(sc) -> F]
  BY <1>1
<1>5. Snapshot(sc) \in Seq(F) /\ Len(Snapshot(sc)) = Len(sc)
  <2>1. Snapshot(sc) \in [1 .. Len(sc) -> F]
    BY <1>2, <1>4
  <2> QED BY <2>1, <1>3, SeqOfFunction
<1> QED BY <1>2, <1>5 DEF ViewSet, F

----------------------------------------------------------------------------
(* The updates of the scopes. *)

\* The scopes with another moved flag, with another provenance, and with a
\* binding more.
FlagPut(sc, k, n, m) == [sc EXCEPT ![k].vars[n].moved = m]
ProvPut(sc, k, n, P) == [sc EXCEPT ![k].vars[n].prov = P]
BindingPut(sc, k, name, b) == [sc EXCEPT ![k].vars = Bind(@, name, b)]

\* The scopes with other bindings in one of them.
With(sc, k, vs) == [sc EXCEPT ![k] = [sc[k] EXCEPT !.vars = vs]]

LEMMA Rebound ==
    ASSUME NEW sc \in Seq(ScopeSet), NEW k \in 1 .. Len(sc), NEW vs \in VarsSet, NEW t,
           t = With(sc, k, vs)
    PROVE  /\ t \in Seq(ScopeSet) /\ Len(t) = Len(sc)
           /\ \A i \in 1 .. Len(sc) : t[i].id = sc[i].id
           /\ \A i \in 1 .. Len(sc) : i # k => t[i] = sc[i]
           /\ t[k].vars = vs
<1>1. Len(sc) \in Nat /\ DOMAIN sc = 1 .. Len(sc) /\ sc[k] \in ScopeSet
  OBVIOUS
<1>2. [sc[k] EXCEPT !.vars = vs] \in ScopeSet
      /\ [sc[k] EXCEPT !.vars = vs].id = sc[k].id
      /\ [sc[k] EXCEPT !.vars = vs].vars = vs
  BY <1>1 DEF ScopeSet
<1> DEFINE new == [sc[k] EXCEPT !.vars = vs]
<1> HIDE DEF new
<1>3. t = [sc EXCEPT ![k] = new] /\ new \in ScopeSet
  BY <1>2 DEF new, With
<1>4. t \in Seq(ScopeSet) /\ Len(t) = Len(sc)
  BY <1>3
<1>5. t[k] = new /\ \A i \in 1 .. Len(sc) : i # k => t[i] = sc[i]
  BY <1>3
<1> QED BY <1>2, <1>4, <1>5 DEF new

\* One binding has another moved flag: scope_set_moved.
LEMMA FlagSet ==
    ASSUME NEW sc \in Seq(ScopeSet), NEW k \in 1 .. Len(sc), NEW n \in DOMAIN sc[k].vars,
           NEW m \in BOOLEAN, NEW t, t = FlagPut(sc, k, n, m)
    PROVE  /\ t \in Seq(ScopeSet) /\ Len(t) = Len(sc)
           /\ Frame(sc, t, Len(sc)) /\ Provs(t, Snapshot(sc), Len(sc))
           /\ t[k].vars[n].moved = m
           /\ \A i \in 1 .. Len(sc) : \A x \in DOMAIN sc[i].vars :
                 i # k \/ x # n => t[i].vars[x].moved = sc[i].vars[x].moved
<1> DEFINE b == [sc[k].vars[n] EXCEPT !.moved = m]
           vs == [sc[k].vars EXCEPT ![n] = b]
<1>1. sc[k].vars[n] \in BindingSet /\ sc[k].vars \in [DOMAIN sc[k].vars -> BindingSet]
      /\ DOMAIN sc[k].vars \in SUBSET AllNames
  BY ScopeFacts
<1>2. b \in BindingSet /\ b.moved = m /\ b.type = sc[k].vars[n].type
      /\ b.prov = sc[k].vars[n].prov
  BY <1>1 DEF BindingSet
<1>3. t = With(sc, k, vs)
  BY DEF With, FlagPut
<1> HIDE DEF b
<1>4. /\ vs \in [DOMAIN sc[k].vars -> BindingSet]
      /\ DOMAIN vs = DOMAIN sc[k].vars /\ vs[n] = b
      /\ \A x \in DOMAIN sc[k].vars : x # n => vs[x] = sc[k].vars[x]
  BY <1>1, <1>2
<1> HIDE DEF vs
<1>5. vs \in VarsSet
  BY <1>1, <1>4 DEF VarsSet
<1>6. /\ t \in Seq(ScopeSet) /\ Len(t) = Len(sc)
      /\ \A i \in 1 .. Len(sc) : t[i].id = sc[i].id
      /\ \A i \in 1 .. Len(sc) : i # k => t[i] = sc[i]
      /\ t[k].vars = vs
  BY <1>3, <1>5, Rebound
<1>7. \A i \in 1 .. Len(sc) : DOMAIN t[i].vars = DOMAIN sc[i].vars
  BY <1>4, <1>6
<1>8. ASSUME NEW i \in 1 .. Len(sc), NEW x \in DOMAIN sc[i].vars
      PROVE  t[i].vars[x].type = sc[i].vars[x].type /\ t[i].vars[x].prov = sc[i].vars[x].prov
  <2>1. CASE i = k /\ x = n
    BY <1>2, <1>4, <1>6, <2>1
  <2>2. CASE i = k /\ x # n
    BY <1>4, <1>6, <2>2
  <2>3. CASE i # k
    BY <1>6, <2>3
  <2> QED BY <2>1, <2>2, <2>3
<1>9. Frame(sc, t, Len(sc)) /\ Provs(t, Snapshot(sc), Len(sc))
  BY <1>6, <1>7, <1>8, SnapshotFacts DEF Frame, Provs
<1> QED BY <1>2, <1>4, <1>6, <1>9

\* One binding has another provenance: update_borrow_assignment.
LEMMA ProvSet ==
    ASSUME NEW sc \in Seq(ScopeSet), NEW k \in 1 .. Len(sc), NEW n \in DOMAIN sc[k].vars,
           NEW P \in SUBSET EntrySet, NEW t, t = ProvPut(sc, k, n, P)
    PROVE  /\ t \in Seq(ScopeSet) /\ Len(t) = Len(sc)
           /\ Frame(sc, t, Len(sc)) /\ Flags(sc, t, Len(sc))
           /\ t[k].vars[n].prov = P
           /\ \A i \in 1 .. Len(sc) : \A x \in DOMAIN sc[i].vars :
                 i # k \/ x # n => t[i].vars[x].prov = sc[i].vars[x].prov
<1> DEFINE b == [sc[k].vars[n] EXCEPT !.prov = P]
           vs == [sc[k].vars EXCEPT ![n] = b]
<1>1. sc[k].vars[n] \in BindingSet /\ sc[k].vars \in [DOMAIN sc[k].vars -> BindingSet]
      /\ DOMAIN sc[k].vars \in SUBSET AllNames
  BY ScopeFacts
<1>2. b \in BindingSet /\ b.prov = P /\ b.type = sc[k].vars[n].type
      /\ b.moved = sc[k].vars[n].moved
  BY <1>1 DEF BindingSet
<1>3. t = With(sc, k, vs)
  BY DEF With, ProvPut
<1> HIDE DEF b
<1>4. /\ vs \in [DOMAIN sc[k].vars -> BindingSet]
      /\ DOMAIN vs = DOMAIN sc[k].vars /\ vs[n] = b
      /\ \A x \in DOMAIN sc[k].vars : x # n => vs[x] = sc[k].vars[x]
  BY <1>1, <1>2
<1> HIDE DEF vs
<1>5. vs \in VarsSet
  BY <1>1, <1>4 DEF VarsSet
<1>6. /\ t \in Seq(ScopeSet) /\ Len(t) = Len(sc)
      /\ \A i \in 1 .. Len(sc) : t[i].id = sc[i].id
      /\ \A i \in 1 .. Len(sc) : i # k => t[i] = sc[i]
      /\ t[k].vars = vs
  BY <1>3, <1>5, Rebound
<1>7. \A i \in 1 .. Len(sc) : DOMAIN t[i].vars = DOMAIN sc[i].vars
  BY <1>4, <1>6
<1>8. ASSUME NEW i \in 1 .. Len(sc), NEW x \in DOMAIN sc[i].vars
      PROVE  t[i].vars[x].type = sc[i].vars[x].type /\ t[i].vars[x].moved = sc[i].vars[x].moved
  <2>1. CASE i = k /\ x = n
    BY <1>2, <1>4, <1>6, <2>1
  <2>2. CASE i = k /\ x # n
    BY <1>4, <1>6, <2>2
  <2>3. CASE i # k
    BY <1>6, <2>3
  <2> QED BY <2>1, <2>2, <2>3
<1>9. Frame(sc, t, Len(sc)) /\ Flags(sc, t, Len(sc))
  BY <1>6, <1>7, <1>8 DEF Frame, Flags
<1> QED BY <1>2, <1>4, <1>6, <1>9

\* The innermost scope has a binding more: STMT_LET.
LEMMA DeclaredFacts ==
    ASSUME NEW sc \in Seq(ScopeSet), NEW k \in 1 .. Len(sc), NEW name \in AllNames,
           NEW b \in BindingSet, NEW t, t = BindingPut(sc, k, name, b),
           name \notin DOMAIN sc[k].vars
    PROVE  /\ t \in Seq(ScopeSet) /\ Len(t) = Len(sc)
           /\ \A i \in 1 .. Len(sc) : t[i].id = sc[i].id
           /\ \A i \in 1 .. Len(sc) : i # k => t[i] = sc[i]
           /\ DOMAIN t[k].vars = DOMAIN sc[k].vars \cup {name}
           /\ t[k].vars[name] = b
           /\ \A n \in DOMAIN sc[k].vars : t[k].vars[n] = sc[k].vars[n]
<1> DEFINE vs == Bind(sc[k].vars, name, b)
<1>2. sc[k].vars \in [DOMAIN sc[k].vars -> BindingSet] /\ DOMAIN sc[k].vars \in SUBSET AllNames
  BY ScopeFacts
<1>3. t = With(sc, k, vs)
  BY DEF With, BindingPut
<1>4. /\ vs \in [DOMAIN sc[k].vars \cup {name} -> BindingSet]
      /\ DOMAIN vs = DOMAIN sc[k].vars \cup {name} /\ vs[name] = b
      /\ \A n \in DOMAIN sc[k].vars : vs[n] = sc[k].vars[n]
  BY <1>2 DEF Bind
<1> HIDE DEF vs
<1>5. vs \in VarsSet
  BY <1>2, <1>4 DEF VarsSet
<1>6. /\ t \in Seq(ScopeSet) /\ Len(t) = Len(sc)
      /\ \A i \in 1 .. Len(sc) : t[i].id = sc[i].id
      /\ \A i \in 1 .. Len(sc) : i # k => t[i] = sc[i]
      /\ t[k].vars = vs
  BY <1>3, <1>5, Rebound
<1> QED BY <1>4, <1>6

\* A scope is opened: it has no bindings.
LEMMA OpenedFacts ==
    ASSUME NEW sc \in Seq(ScopeSet), NEW id \in Nat, NEW t,
           t = Append(sc, [id |-> id, vars |-> <<>>])
    PROVE  /\ t \in Seq(ScopeSet) /\ Len(t) = Len(sc) + 1
           /\ \A i \in 1 .. Len(sc) : t[i] = sc[i]
           /\ t[Len(sc) + 1].id = id /\ DOMAIN t[Len(sc) + 1].vars = {}
<1> DEFINE new == [id |-> id, vars |-> <<>>]
<1>1. DOMAIN <<>> = {}
  OBVIOUS
<1>2. <<>> \in [{} -> BindingSet]
  BY <1>1
<1>3. new \in ScopeSet
  BY <1>2 DEF ScopeSet, VarsSet
<1>4. new.id = id /\ DOMAIN new.vars = {}
  BY <1>1
<1> HIDE DEF new
<1>5. t = Append(sc, new)
  BY DEF new
<1> QED BY ONLY <1>3, <1>4, <1>5, sc \in Seq(ScopeSet)

\* A scope is closed.
LEMMA OuterFacts ==
    ASSUME NEW sc \in Seq(ScopeSet), Len(sc) > 0
    PROVE  /\ Outer(sc) \in Seq(ScopeSet) /\ Len(Outer(sc)) = Len(sc) - 1
           /\ \A i \in 1 .. (Len(sc) - 1) : Outer(sc)[i] = sc[i]
BY AllButLast DEF Outer

\* The provenance of all bindings is reset to a view of them.
LEMMA RestoredFacts ==
    ASSUME NEW sc \in Seq(ScopeSet), NEW view, Len(view) = Len(sc),
           \A i \in 1 .. Len(sc) :
              /\ DOMAIN view[i] = DOMAIN sc[i].vars
              /\ \A n \in DOMAIN sc[i].vars : view[i][n] \in SUBSET EntrySet,
           NEW t, t = Restored(sc, view)
    PROVE  /\ t \in Seq(ScopeSet) /\ Len(t) = Len(sc)
           /\ Frame(sc, t, Len(sc)) /\ Flags(sc, t, Len(sc)) /\ Provs(t, view, Len(sc))
<1> DEFINE vs(i) == [n \in DOMAIN sc[i].vars |->
                        IF n \in DOMAIN view[i] THEN [sc[i].vars[n] EXCEPT !.prov = view[i][n]]
                                                ELSE sc[i].vars[n]]
           row(i) == [sc[i] EXCEPT !.vars = vs(i)]
<1>1. Len(sc) \in Nat
  OBVIOUS
<1>2. t = [i \in 1 .. Len(sc) |-> row(i)]
  BY DEF Restored
<1>3. ASSUME NEW i \in 1 .. Len(sc)
      PROVE  /\ row(i) \in ScopeSet /\ row(i).id = sc[i].id
             /\ DOMAIN row(i).vars = DOMAIN sc[i].vars
             /\ \A n \in DOMAIN sc[i].vars :
                   /\ row(i).vars[n].type = sc[i].vars[n].type
                   /\ row(i).vars[n].moved = sc[i].vars[n].moved
                   /\ row(i).vars[n].prov = view[i][n]
  <2>1. /\ sc[i] \in ScopeSet /\ DOMAIN sc[i].vars \in SUBSET AllNames
        /\ \A n \in DOMAIN sc[i].vars : sc[i].vars[n] \in BindingSet
    BY ScopeFacts
  <2>2. ASSUME NEW n \in DOMAIN sc[i].vars
        PROVE  /\ vs(i)[n] \in BindingSet
               /\ vs(i)[n].type = sc[i].vars[n].type
               /\ vs(i)[n].moved = sc[i].vars[n].moved
               /\ vs(i)[n].prov = view[i][n]
    <3>1. vs(i)[n] = [sc[i].vars[n] EXCEPT !.prov = view[i][n]]
      BY <2>2
    <3>2. sc[i].vars[n] \in BindingSet /\ view[i][n] \in SUBSET EntrySet
      BY <2>1
    <3> QED BY <3>1, <3>2 DEF BindingSet
  <2>3. DOMAIN vs(i) = DOMAIN sc[i].vars /\ vs(i) \in [DOMAIN sc[i].vars -> BindingSet]
    BY <2>2
  <2> HIDE DEF vs
  <2>4. vs(i) \in VarsSet
    BY <2>1, <2>3 DEF VarsSet
  <2>5. row(i) \in ScopeSet /\ row(i).id = sc[i].id /\ row(i).vars = vs(i)
    BY <2>1, <2>4 DEF ScopeSet
  <2> HIDE DEF row
  <2> QED BY <2>2, <2>3, <2>5
<1> HIDE DEF row
<1>4. t \in [1 .. Len(sc) -> ScopeSet]
  BY <1>2, <1>3
<1>5. t \in Seq(ScopeSet) /\ Len(t) = Len(sc)
  BY <1>1, <1>4, SeqOfFunction
<1>6. \A i \in 1 .. Len(sc) : t[i] = row(i)
  BY <1>2
<1>7. Frame(sc, t, Len(sc)) /\ Flags(sc, t, Len(sc))
  BY <1>3, <1>6 DEF Frame, Flags
<1>8. Provs(t, view, Len(sc))
  BY <1>3, <1>6 DEF Provs
<1> QED BY <1>5, <1>7, <1>8

----------------------------------------------------------------------------
(* What the checker believes: the scopes are in order, the outermost has   *)
(* the parameters, and views give references a provenance in scopes that   *)
(* are around the binding.                                                 *)

\* The references of a scope that are not parameters: those have a
\* provenance, and the execution holds a place for them.
RefsOf(s) == {n \in DOMAIN s.vars : IsRef(s.vars[n].type) /\ ~ IsParam(n, s.id)}
LocalRef(name) == name \in RefsOf(scopes[Level(name)])

Scoped(sc, next) ==
    /\ sc \in Seq(ScopeSet) /\ Len(sc) > 0 /\ next \in Nat /\ next > Len(sc)
    /\ \A i, j \in 1 .. Len(sc) : i < j => sc[i].id < sc[j].id
    /\ \A i \in 1 .. Len(sc) : sc[i].id < next
    /\ \A i \in 1 .. Len(sc) : sc[i].id = 1 =>
          \A n \in Params : n \in DOMAIN sc[i].vars /\ IsRef(sc[i].vars[n].type)

\* The provenance of binding n of scope i.
Around(sc, i, prov) ==
    /\ prov \in SUBSET EntrySet
    /\ \A e \in prov : /\ \E j \in 1 .. i : sc[j].id = e.scope
                       /\ e.local \/ IsParam(e.root, e.scope)
ProvOK(sc, i, n, prov) ==
    /\ Around(sc, i, prov)
    /\ prov # {} <=> n \in RefsOf(sc[i])

ViewOK(sc, view, len) ==
    /\ Len(view) = len
    /\ \A i \in 1 .. len : /\ DOMAIN view[i] = DOMAIN sc[i].vars
                           /\ \A n \in DOMAIN sc[i].vars : ProvOK(sc, i, n, view[i][n])

Blocked(sc, bs) ==
    /\ bs \in Seq(BlockSet) /\ Len(sc) = Len(bs) + 1
    /\ \A k \in 1 .. Len(bs) :
          /\ ViewOK(sc, bs[k].before, k)
          /\ \A st \in bs[k].states : ViewOK(sc, st, k)

Layout(al, sc, bs, next) ==
    /\ al \in Alphabets /\ Scoped(sc, next)
    /\ ViewOK(sc, Snapshot(sc), Len(sc)) /\ Blocked(sc, bs)

LEMMA Kinds ==
    ASSUME NEW al \in Alphabets
    PROVE  /\ al.shapes \subseteq AllNames /\ al.refs \subseteq AllNames
           /\ al.owns \subseteq AllNames /\ Params \subseteq AllNames
           /\ al.fields \cup {Whole} \subseteq AllPaths
BY DEF AllNames, AllPaths

\* A reference binding is a parameter or has a provenance.
LEMMA RefsFacts ==
    ASSUME NEW sc, NEW next, Scoped(sc, next), NEW i \in 1 .. Len(sc)
    PROVE  /\ RefsOf(sc[i]) \subseteq DOMAIN sc[i].vars
           /\ \A n \in DOMAIN sc[i].vars :
                 /\ sc[i].vars[n].type \in TypeSet
                 /\ IsRef(sc[i].vars[n].type) <=> n \in RefsOf(sc[i]) \/ IsParam(n, sc[i].id)
<1>1. \A n \in DOMAIN sc[i].vars : sc[i].vars[n].type \in TypeSet
  BY ScopeFacts DEF Scoped
<1>2. \A n \in DOMAIN sc[i].vars : IsParam(n, sc[i].id) => IsRef(sc[i].vars[n].type)
  BY DEF Scoped, IsParam
<1> QED BY <1>1, <1>2 DEF RefsOf

\* A binding is one of them for its type.
LEMMA RefsSame ==
    ASSUME NEW s, NEW t, t.id = s.id, NEW n, n \in DOMAIN s.vars, n \in DOMAIN t.vars,
           t.vars[n].type = s.vars[n].type
    PROVE  n \in RefsOf(t) <=> n \in RefsOf(s)
BY DEF RefsOf

LEMMA FrameRefs ==
    ASSUME NEW sc, NEW t, NEW len, Frame(sc, t, len), NEW i \in 1 .. len
    PROVE  RefsOf(t[i]) = RefsOf(sc[i])
<1>1. /\ t[i].id = sc[i].id /\ DOMAIN t[i].vars = DOMAIN sc[i].vars
      /\ \A n \in DOMAIN sc[i].vars : t[i].vars[n].type = sc[i].vars[n].type
  BY DEF Frame
<1> QED BY <1>1 DEF RefsOf

\* Scopes have different identities.
LEMMA UniqueIds ==
    ASSUME NEW sc, NEW next, Scoped(sc, next),
           NEW i \in 1 .. Len(sc), NEW j \in 1 .. Len(sc), sc[i].id = sc[j].id
    PROVE  i = j
<1>1. sc[i].id \in Nat /\ sc[j].id \in Nat /\ i \in Nat /\ j \in Nat
  BY ScopeFacts DEF Scoped
<1>2. i < j => sc[i].id < sc[j].id
  BY DEF Scoped
<1>3. j < i => sc[j].id < sc[i].id
  BY DEF Scoped
<1> QED BY <1>1, <1>2, <1>3

\* The innermost scope that has the name.
LEMMA LevelFacts ==
    ASSUME NEW name, scopes \in Seq(ScopeSet), InScope(name)
    PROVE  /\ Level(name) \in 1 .. Len(scopes)
           /\ name \in DOMAIN scopes[Level(name)].vars
           /\ \A j \in 1 .. Len(scopes) : name \in DOMAIN scopes[j].vars => j <= Level(name)
<1> DEFINE n == Len(scopes)
           S == {n - i : i \in Levels(name)}
<1>1. n \in Nat /\ Levels(name) \subseteq 1 .. n /\ Levels(name) # {}
  BY DEF Levels, InScope
<1> HIDE DEF n
<1>2. S \in SUBSET Nat /\ S # {}
  BY <1>1
<1>3. PICK m \in S : \A y \in S : m <= y
  BY ONLY <1>2, LeastNat
<1>4. PICK i \in Levels(name) : m = n - i
  BY <1>3
<1>5. \A j \in Levels(name) : j <= i
  <2> TAKE j \in Levels(name)
  <2>1. m <= n - j
    BY <1>3
  <2> QED BY <1>1, <1>4, <2>1
<1>6. /\ Level(name) \in Levels(name)
      /\ \A j \in Levels(name) : j <= Level(name)
  BY <1>5 DEF Level
<1> QED BY <1>1, <1>6 DEF Levels, n

----------------------------------------------------------------------------
(* Entries that are merged. *)

\* f stands for e: the same place, with flags that are no weaker.
StandsFor(f, e) == SamePlace(f, e) /\ (e.mut => f.mut) /\ (e.local => f.local)

LEMMA MergedFacts ==
    ASSUME NEW E \in SUBSET EntrySet
    PROVE  /\ Merged(E) \in SUBSET EntrySet
           /\ \A e \in E : \E f \in Merged(E) : StandsFor(f, e)
           /\ \A f \in Merged(E) : \E e \in E : StandsFor(f, e)
<1> DEFINE M(e) == [e EXCEPT !.mut = \E d \in E : SamePlace(d, e) /\ d.mut,
                             !.local = \E d \in E : SamePlace(d, e) /\ d.local]
<1>1. Merged(E) = {M(e) : e \in E}
  BY DEF Merged
<1>2. ASSUME NEW e \in E PROVE M(e) \in EntrySet /\ StandsFor(M(e), e)
  <2> DEFINE mt == \E d \in E : SamePlace(d, e) /\ d.mut
             lc == \E d \in E : SamePlace(d, e) /\ d.local
  <2>1. mt \in BOOLEAN /\ lc \in BOOLEAN
    OBVIOUS
  <2>2. (e.mut => mt) /\ (e.local => lc)
    BY DEF SamePlace
  <2>3. M(e) = [e EXCEPT !.mut = mt, !.local = lc]
    OBVIOUS
  <2> HIDE DEF mt, lc, M
  <2>4. e \in EntrySet
    OBVIOUS
  <2>5. /\ M(e) \in EntrySet
        /\ M(e).root = e.root /\ M(e).scope = e.scope /\ M(e).path = e.path
        /\ M(e).mut = mt /\ M(e).local = lc
    BY <2>1, <2>3, <2>4 DEF EntrySet
  <2> QED BY <2>2, <2>5 DEF StandsFor, SamePlace
<1> HIDE DEF M
<1> QED BY <1>1, <1>2

\* A provenance as it is registered for a binding.
LEMMA AsFacts ==
    ASSUME NEW E \in SUBSET EntrySet, NEW mut \in BOOLEAN
    PROVE  /\ As(E, mut) \in SUBSET EntrySet
           /\ \A e \in E : \E f \in As(E, mut) :
                 SamePlace(f, e) /\ (mut => f.mut) /\ (e.local => f.local)
           /\ \A f \in As(E, mut) : \E e \in E : SamePlace(f, e) /\ (e.local => f.local)
<1> DEFINE S(e) == [e EXCEPT !.mut = mut]
           F == {S(e) : e \in E}
<1>1. ASSUME NEW e \in E
      PROVE  /\ S(e) \in EntrySet /\ SamePlace(S(e), e)
             /\ S(e).mut = mut /\ S(e).local = e.local
  <2>1. e \in EntrySet
    OBVIOUS
  <2> QED BY <2>1 DEF EntrySet, SamePlace
<1>2. As(E, mut) = Merged(F)
  BY DEF As
<1> HIDE DEF S
<1>3. F \in SUBSET EntrySet
  BY <1>1
<1>4. \A e \in E : S(e) \in F
  OBVIOUS
<1>5. \A f \in F : \E e \in E : f = S(e)
  OBVIOUS
<1> HIDE DEF F
<1>6. /\ Merged(F) \in SUBSET EntrySet
      /\ \A e \in F : \E f \in Merged(F) : StandsFor(f, e)
      /\ \A f \in Merged(F) : \E e \in F : StandsFor(f, e)
  BY <1>3, MergedFacts
<1>7. ASSUME NEW e \in E
      PROVE  \E f \in Merged(F) : SamePlace(f, e) /\ (mut => f.mut) /\ (e.local => f.local)
  <2>1. PICK f \in Merged(F) : StandsFor(f, S(e))
    BY <1>4, <1>6
  <2> QED BY <1>1, <2>1 DEF StandsFor, SamePlace
<1>8. ASSUME NEW f \in Merged(F)
      PROVE  \E e \in E : SamePlace(f, e) /\ (e.local => f.local)
  <2>1. PICK g \in F : StandsFor(f, g)
    BY <1>6
  <2>2. PICK e \in E : g = S(e)
    BY <1>5, <2>1
  <2> QED BY <1>1, <2>1, <2>2 DEF StandsFor, SamePlace
<1> QED BY <1>2, <1>6, <1>7, <1>8

----------------------------------------------------------------------------
(* The provenance of an expression. *)

LEMMA ExprFacts ==
    ASSUME alphabet \in Alphabets, NEW x \in Exprs
    PROVE  /\ x.form \in {"borrow", "copy"} /\ x.root \in AllNames
           /\ x.path \in AllPaths /\ x.mut \in BOOLEAN
           /\ x.form = "copy" => x.path = Whole /\ ~ x.mut
BY Kinds DEF Exprs, Names, Fields, AllPaths

\* The binding an expression begins at.
LEMMA RootFacts ==
    ASSUME Layout(alphabet, scopes, blocks, nextId), NEW n, InScope(n)
    PROVE  /\ Level(n) \in 1 .. Len(scopes)
           /\ n \in DOMAIN scopes[Level(n)].vars
           /\ ScopeOf(n) = scopes[Level(n)].id /\ ScopeOf(n) \in Nat
           /\ TypeOf(n) \in TypeSet
           /\ IsRef(TypeOf(n)) <=> LocalRef(n) \/ IsParam(n, ScopeOf(n))
           /\ LocalRef(n) \/ ProvOf(n) = {}
           /\ ProvOK(scopes, Level(n), n, ProvOf(n))
<1>1. /\ alphabet \in Alphabets /\ Scoped(scopes, nextId)
      /\ scopes \in Seq(ScopeSet) /\ ViewOK(scopes, Snapshot(scopes), Len(scopes))
  BY DEF Layout, Scoped
<1>2. Level(n) \in 1 .. Len(scopes) /\ n \in DOMAIN scopes[Level(n)].vars
  BY <1>1, LevelFacts
<1>3. ScopeOf(n) = scopes[Level(n)].id /\ ScopeOf(n) \in Nat
  BY <1>1, <1>2, ScopeFacts DEF ScopeOf
<1>4. /\ TypeOf(n) \in TypeSet
      /\ IsRef(TypeOf(n)) <=> LocalRef(n) \/ IsParam(n, ScopeOf(n))
  BY <1>1, <1>2, <1>3, RefsFacts DEF TypeOf, LocalRef
<1>5. ProvOK(scopes, Level(n), n, ProvOf(n))
  BY <1>1, <1>2, SnapshotFacts DEF ViewOK, ProvOf
<1>6. LocalRef(n) \/ ProvOf(n) = {}
  BY <1>5 DEF ProvOK, LocalRef
<1> QED BY <1>2, <1>3, <1>4, <1>5, <1>6

\* Without a provenance for its binding (a value's; a parameter's, which
\* refers to what is the caller's; a name's that was just bound) it is the
\* place itself.
LEMMA OwnPlace ==
    ASSUME Layout(alphabet, scopes, blocks, nextId), NEW x \in Exprs, WellFormed(x),
           NEW id \in Nat, NEW prov, prov = {}
    PROVE  \E e \in EntrySet :
              /\ Provenance(x, id, prov) = {e}
              /\ e.root = x.root /\ e.scope = id /\ e.path = x.path
              /\ x.form = "borrow" => e.mut = x.mut
              /\ e.local \/ IsParam(e.root, e.scope)
<1> DEFINE mut == IF x.form = "copy" THEN TypeOf(x.root).mut ELSE x.mut
           e == Entry(x.root, id, x.path, mut, ~ IsParam(x.root, id))
<1>1. alphabet \in Alphabets /\ InScope(x.root)
  BY DEF Layout, WellFormed
<1>2. /\ x.form \in {"borrow", "copy"} /\ x.root \in AllNames
      /\ x.path \in AllPaths /\ x.mut \in BOOLEAN
      /\ x.form = "copy" => x.path = Whole
  BY <1>1, ExprFacts
<1>3. TypeOf(x.root).mut \in BOOLEAN
  BY <1>1, RootFacts DEF TypeSet
<1>4. mut \in BOOLEAN /\ (~ IsParam(x.root, id)) \in BOOLEAN
  BY <1>2, <1>3
<1>5. Provenance(x, id, prov) = {e}
  BY <1>2 DEF Provenance
<1> HIDE DEF mut
<1>6. /\ e \in EntrySet /\ e.root = x.root /\ e.scope = id /\ e.path = x.path /\ e.mut = mut
      /\ e.local = ~ IsParam(x.root, id)
  BY <1>2, <1>4 DEF Entry, EntrySet
<1> HIDE DEF e
<1>7. x.form = "borrow" => e.mut = x.mut
  BY <1>6 DEF mut
<1>8. e.local \/ IsParam(e.root, e.scope)
  BY <1>6
<1> QED BY <1>5, <1>6, <1>7, <1>8

\* The path below a reference that an expression leads to.
Extended(x, p) == IF x.form = "copy" THEN p ELSE Join(p, x.path)

\* From a reference it is what the reference has, with the path extended.
LEMMA FromReference ==
    ASSUME Layout(alphabet, scopes, blocks, nextId), NEW x \in Exprs, WellFormed(x),
           LocalRef(x.root)
    PROVE  /\ ProvenanceOf(x) \in SUBSET EntrySet
           /\ \A e \in ProvOf(x.root) : \E f \in ProvenanceOf(x) :
                 /\ f.root = e.root /\ f.scope = e.scope /\ f.path = Extended(x, e.path)
                 /\ e.local => f.local
           /\ \A f \in ProvenanceOf(x) : \E e \in ProvOf(x.root) :
                 /\ f.root = e.root /\ f.scope = e.scope /\ f.path = Extended(x, e.path)
                 /\ e.local => f.local
<1> DEFINE prov == ProvOf(x.root)
<1>1. alphabet \in Alphabets /\ InScope(x.root)
  BY DEF Layout, WellFormed
<1>2. /\ x.form \in {"borrow", "copy"} /\ x.path \in AllPaths /\ x.mut \in BOOLEAN
  BY <1>1, ExprFacts
<1>3. prov \in SUBSET EntrySet /\ prov # {} /\ IsRef(TypeOf(x.root))
  BY <1>1, RootFacts DEF ProvOK, Around, LocalRef
<1>4. CASE x.form = "copy"
  <2>1. ProvenanceOf(x) = prov
    BY <1>3, <1>4 DEF ProvenanceOf, Provenance
  <2> QED BY <1>3, <1>4, <2>1 DEF Extended
<1>5. CASE x.form = "borrow"
  <2> DEFINE S(e) == [e EXCEPT !.path = Join(e.path, x.path), !.mut = x.mut]
             F == {S(e) : e \in prov}
  <2>1. ProvenanceOf(x) = Merged(F)
    BY <1>3, <1>5 DEF ProvenanceOf, Provenance
  <2> HIDE DEF prov
  <2>2. ASSUME NEW e \in prov
        PROVE  /\ S(e) \in EntrySet
               /\ S(e).root = e.root /\ S(e).scope = e.scope
               /\ S(e).path = Extended(x, e.path) /\ S(e).local = e.local
    <3>1. e \in EntrySet
      BY <1>3
    <3>2. Join(e.path, x.path) \in AllPaths
      BY <1>2, <3>1 DEF Join, EntrySet
    <3>3. Extended(x, e.path) = Join(e.path, x.path)
      BY <1>5 DEF Extended
    <3> HIDE DEF Join
    <3> QED BY <1>2, <3>1, <3>2, <3>3 DEF EntrySet
  <2> HIDE DEF S
  <2>3. F \in SUBSET EntrySet
    BY <2>2
  <2>4. /\ \A e \in prov : S(e) \in F
        /\ \A f \in F : \E e \in prov : f = S(e)
    OBVIOUS
  <2> HIDE DEF F
  <2>5. /\ Merged(F) \in SUBSET EntrySet
        /\ \A e \in F : \E f \in Merged(F) : StandsFor(f, e)
        /\ \A f \in Merged(F) : \E e \in F : StandsFor(f, e)
    BY <2>3, MergedFacts
  <2>6. ASSUME NEW e \in prov
        PROVE  \E f \in Merged(F) : /\ f.root = e.root /\ f.scope = e.scope
                                    /\ f.path = Extended(x, e.path) /\ (e.local => f.local)
    BY <2>2, <2>4, <2>5 DEF StandsFor, SamePlace
  <2>7. ASSUME NEW f \in Merged(F)
        PROVE  \E e \in prov : /\ f.root = e.root /\ f.scope = e.scope
                               /\ f.path = Extended(x, e.path) /\ (e.local => f.local)
    BY <2>2, <2>4, <2>5 DEF StandsFor, SamePlace
  <2> QED BY <2>1, <2>5, <2>6, <2>7 DEF prov
<1> QED BY <1>2, <1>4, <1>5

----------------------------------------------------------------------------
(* What the execution holds, and how a view records it. *)

\* Entry e is of the place, or of the whole it is a part of.
Covers(e, place, mut) ==
    /\ e.root = place.root /\ e.scope = place.scope /\ e.path \in {Whole, place.path}
    /\ mut => e.mut

\* A binding that one of the first j scopes hides is the place or records it.
Records(sc, view, l, n, place, mut) ==
    \/ n = place.root /\ sc[l].id = place.scope
    \/ \E e \in view[l][n] : Covers(e, place, mut)
HiddenIn(sc, view, j, place, mut) ==
    \E h \in 1 .. j : \E l \in 1 .. (h - 1) :
        \E n \in DOMAIN sc[h].vars \cap DOMAIN sc[l].vars : Records(sc, view, l, n, place, mut)

\* The place that binding n of scope i refers to is recorded: for the
\* binding itself; or, when it was made from a name that it or another
\* binding hides, for one that is hidden as long as this one is there.
CoveredIn(sc, view, n, i, place, mut) ==
    \/ \E e \in view[i][n] : Covers(e, place, mut)
    \/ \E d \in view[i][n] : \E j \in 1 .. i :
          /\ ~ IsParam(d.root, d.scope) /\ d.scope = sc[j].id
          /\ HiddenIn(sc, view, j, place, mut)

\* Binding b is n of scope i.
BoundAt(sc, b, i) == sc[i].id = b[2] /\ b[1] \in DOMAIN sc[i].vars

CoverIn(sc, hd, view, len) ==
    \A b \in DOMAIN hd : \A i \in 1 .. len : BoundAt(sc, b, i) =>
        CoveredIn(sc, view, b[1], i, hd[b], sc[i].vars[b[1]].type.mut)

\* One provenance says all that another says.
Dominated(E, F) == \A e \in E : \E f \in F : SamePlace(f, e) /\ (e.mut => f.mut)

Grows(sc, t, len) ==
    \A i \in 1 .. len :
        /\ t[i].id = sc[i].id /\ DOMAIN sc[i].vars \subseteq DOMAIN t[i].vars
        /\ \A n \in DOMAIN sc[i].vars : t[i].vars[n].type = sc[i].vars[n].type

\* The second view says of hidden bindings what the first says.
HiddenKept(sc, view, w, len) ==
    \A h \in 1 .. len : \A l \in 1 .. (h - 1) :
        \A n \in DOMAIN sc[h].vars \cap DOMAIN sc[l].vars : Dominated(view[l][n], w[l][n])

LEMMA HiddenStays ==
    ASSUME NEW sc, NEW t, NEW view, NEW w, NEW len \in Nat, Grows(sc, t, len),
           HiddenKept(sc, view, w, len), NEW j \in 1 .. len, NEW place, NEW mut,
           HiddenIn(sc, view, j, place, mut)
    PROVE  HiddenIn(t, w, j, place, mut)
<1> SUFFICES ASSUME NEW h \in 1 .. j, NEW l \in 1 .. (h - 1),
                    NEW n \in DOMAIN sc[h].vars \cap DOMAIN sc[l].vars,
                    Records(sc, view, l, n, place, mut)
             PROVE  HiddenIn(t, w, j, place, mut)
  BY DEF HiddenIn
<1>2. h \in 1 .. len /\ l \in 1 .. len
  OBVIOUS
<1>3. n \in DOMAIN t[h].vars \cap DOMAIN t[l].vars /\ t[l].id = sc[l].id
  BY <1>2 DEF Grows
<1>4. Dominated(view[l][n], w[l][n])
  BY <1>2 DEF HiddenKept
<1>5. ASSUME NEW e \in view[l][n], Covers(e, place, mut)
      PROVE  \E f \in w[l][n] : Covers(f, place, mut)
  BY <1>4, <1>5 DEF Dominated, Covers, SamePlace
<1>6. Records(t, w, l, n, place, mut)
  BY <1>3, <1>5 DEF Records
<1> QED BY <1>3, <1>6 DEF HiddenIn

LEMMA CoveredStays ==
    ASSUME NEW sc, NEW t, NEW view, NEW w, NEW len \in Nat, Grows(sc, t, len),
           HiddenKept(sc, view, w, len), NEW i \in 1 .. len, NEW n,
           Dominated(view[i][n], w[i][n]), NEW place, NEW mut,
           CoveredIn(sc, view, n, i, place, mut)
    PROVE  CoveredIn(t, w, n, i, place, mut)
<1>1. CASE \E e \in view[i][n] : Covers(e, place, mut)
  <2>1. PICK e \in view[i][n] : Covers(e, place, mut)
    BY <1>1
  <2>2. PICK f \in w[i][n] : SamePlace(f, e) /\ (e.mut => f.mut)
    BY DEF Dominated
  <2>3. Covers(f, place, mut)
    BY <2>1, <2>2 DEF Covers, SamePlace
  <2> QED BY <2>3 DEF CoveredIn
<1>2. ASSUME NEW d \in view[i][n], NEW j \in 1 .. i, ~ IsParam(d.root, d.scope), d.scope = sc[j].id,
             HiddenIn(sc, view, j, place, mut)
      PROVE  CoveredIn(t, w, n, i, place, mut)
  <2>1. PICK f \in w[i][n] : SamePlace(f, d)
    BY DEF Dominated
  <2>2. j \in 1 .. len
    OBVIOUS
  <2>3. HiddenIn(t, w, j, place, mut)
    BY <1>2, <2>2, HiddenStays
  <2>4. ~ IsParam(f.root, f.scope) /\ f.scope = t[j].id
    BY <1>2, <2>1, <2>2 DEF SamePlace, Grows
  <2> QED BY <2>3, <2>4 DEF CoveredIn
<1> QED BY <1>1, <1>2 DEF CoveredIn

\* What is covered stays covered, for the bindings that are still there.
LEMMA CoverStays ==
    ASSUME NEW sc, NEW t, NEW view, NEW w, NEW len \in Nat, Grows(sc, t, len),
           HiddenKept(sc, view, w, len), NEW hd, NEW hd2, CoverIn(sc, hd, view, len),
           \A b \in DOMAIN hd2 : \A i \in 1 .. len : BoundAt(t, b, i) =>
              /\ b \in DOMAIN hd /\ hd2[b] = hd[b] /\ BoundAt(sc, b, i)
              /\ Dominated(view[i][b[1]], w[i][b[1]])
    PROVE  CoverIn(t, hd2, w, len)
<1> SUFFICES ASSUME NEW b \in DOMAIN hd2, NEW i \in 1 .. len, BoundAt(t, b, i)
             PROVE  CoveredIn(t, w, b[1], i, hd2[b], t[i].vars[b[1]].type.mut)
  BY DEF CoverIn
<1>1. /\ b \in DOMAIN hd /\ hd2[b] = hd[b] /\ BoundAt(sc, b, i)
      /\ Dominated(view[i][b[1]], w[i][b[1]])
  OBVIOUS
<1>2. CoveredIn(sc, view, b[1], i, hd[b], sc[i].vars[b[1]].type.mut)
  BY <1>1 DEF CoverIn
<1>3. t[i].vars[b[1]].type = sc[i].vars[b[1]].type
  BY <1>1 DEF BoundAt, Grows
<1>4. CoveredIn(t, w, b[1], i, hd[b], sc[i].vars[b[1]].type.mut)
  BY <1>1, <1>2, CoveredStays
<1> QED BY <1>1, <1>3, <1>4

\* The execution is in the arm being checked of each block before k.
LiveBelow(bs, k) == \A j \in 1 .. (k - 1) : bs[j].taken = bs[j].arm

\* References are held for bindings that are there; only a reference to a
\* whole shape refers to one; and what they refer to is in a scope around
\* the binding.
HeldOK(sc, hd) ==
    \A b \in DOMAIN hd :
        /\ b = <<b[1], b[2]>>
        /\ \E i \in 1 .. Len(sc) : BoundAt(sc, b, i)
        /\ \A i \in 1 .. Len(sc) : BoundAt(sc, b, i) =>
              /\ b[1] \in RefsOf(sc[i])
              /\ sc[i].vars[b[1]].type.field \/ hd[b].path = Whole
              /\ \E j \in 1 .. i : sc[j].id = hd[b].scope

\* In the scopes the execution is in, every reference holds a place.
AllHeld(sc, bs, hd) ==
    \A i \in 1 .. Len(sc) : LiveBelow(bs, i) =>
        \A n \in RefsOf(sc[i]) : <<n, sc[i].id>> \in DOMAIN hd

\* What both sides know when the execution is where the checker is.
Here ==
    /\ Layout(alphabet, scopes, blocks, nextId)
    /\ HeldOK(scopes, held)
    /\ \A i \in 1 .. Len(scopes) : \A n \in RefsOf(scopes[i]) :
          <<n, scopes[i].id>> \in DOMAIN held
    /\ CoverIn(scopes, held, Snapshot(scopes), Len(scopes))

\* The place a reference leads to is recorded for the reference.
LEMMA RefTarget ==
    ASSUME Here, NEW x \in Exprs, WellFormed(x), LocalRef(x.root),
           NEW mut, mut => TypeOf(x.root).mut
    PROVE  /\ <<x.root, ScopeOf(x.root)>> \in DOMAIN held
           /\ BoundAt(scopes, <<x.root, ScopeOf(x.root)>>, Level(x.root))
           /\ Target(x).via
           /\ Target(x).scope = held[<<x.root, ScopeOf(x.root)>>].scope
           /\ x.path # Whole \/ TypeOf(x.root).field \/ Target(x).path = Whole
           /\ \/ \E e \in ProvOf(x.root) :
                    /\ Covers(e, Target(x), mut)
                    /\ Extended(x, e.path) \in {Whole, Target(x).path}
              \/ \E d \in ProvOf(x.root) : \E j \in 1 .. Level(x.root) :
                    /\ ~ IsParam(d.root, d.scope) /\ d.scope = scopes[j].id
                    /\ HiddenIn(scopes, Snapshot(scopes), j, Target(x), mut)
<1> DEFINE b == <<x.root, ScopeOf(x.root)>>
           L == Level(x.root)
           t == TypeOf(x.root)
           view == Snapshot(scopes)
<1>1. /\ alphabet \in Alphabets /\ InScope(x.root) /\ scopes \in Seq(ScopeSet)
      /\ Layout(alphabet, scopes, blocks, nextId)
  BY DEF Here, Layout, Scoped, WellFormed
<1>2. /\ L \in 1 .. Len(scopes) /\ x.root \in DOMAIN scopes[L].vars
      /\ ScopeOf(x.root) = scopes[L].id /\ IsRef(t)
      /\ x.root \in RefsOf(scopes[L])
  BY <1>1, RootFacts DEF LocalRef
<1>3. /\ BoundAt(scopes, b, L) /\ b[1] = x.root
      /\ scopes[L].vars[x.root].type = t /\ view[L][x.root] = ProvOf(x.root)
  BY <1>1, <1>2, SnapshotFacts DEF BoundAt, TypeOf, ProvOf
<1>4. b \in DOMAIN held
  BY <1>2 DEF Here
<1>5. Target(x) = Place(held[b].root, held[b].scope, Join(held[b].path, x.path), TRUE)
  BY <1>2, <1>4 DEF Target
<1> DEFINE pl == Target(x)
<1>6. /\ pl.root = held[b].root /\ pl.scope = held[b].scope /\ pl.via
      /\ pl.path = Join(held[b].path, x.path)
  BY <1>5 DEF Place
<1>7. t.field \/ held[b].path = Whole
  BY <1>2, <1>3, <1>4 DEF Here, HeldOK
<1>8. x.form \in {"borrow", "copy"} /\ (x.form = "copy" => x.path = Whole)
  BY <1>1, ExprFacts
<1>9. x.form = "borrow" => ~ t.field
  BY <1>2 DEF WellFormed
<1>10. CoveredIn(scopes, view, x.root, L, held[b], t.mut)
  BY <1>2, <1>3, <1>4 DEF Here, CoverIn
<1> HIDE DEF pl, b, t, view, L
<1>11. ASSUME NEW p \in {Whole, held[b].path}
       PROVE  p \in {Whole, pl.path} /\ Extended(x, p) \in {Whole, pl.path}
  <2>1. CASE x.form = "copy"
    <3>1. pl.path = held[b].path
      BY <1>6, <1>8, <2>1 DEF Join
    <3> QED BY <2>1, <3>1 DEF Extended
  <2>2. CASE x.form = "borrow"
    <3>1. held[b].path = Whole /\ p = Whole /\ pl.path = x.path
      BY <1>6, <1>7, <1>9, <2>2 DEF Join
    <3> QED BY <2>2, <3>1 DEF Extended, Join
  <2> QED BY <1>8, <2>1, <2>2
<1>12. ASSUME NEW e, Covers(e, held[b], t.mut)
       PROVE  Covers(e, pl, mut) /\ Extended(x, e.path) \in {Whole, pl.path}
  <2>1. mut => t.mut
    BY DEF t
  <2> QED BY <1>6, <1>11, <1>12, <2>1 DEF Covers
<1>13. ASSUME NEW j, HiddenIn(scopes, view, j, held[b], t.mut)
       PROVE  HiddenIn(scopes, view, j, pl, mut)
  BY <1>6, <1>12, <1>13 DEF HiddenIn, Records
<1>14. \/ \E e \in ProvOf(x.root) :
             Covers(e, pl, mut) /\ Extended(x, e.path) \in {Whole, pl.path}
       \/ \E d \in ProvOf(x.root) : \E j \in 1 .. L :
             /\ ~ IsParam(d.root, d.scope) /\ d.scope = scopes[j].id
             /\ HiddenIn(scopes, view, j, pl, mut)
  <2>1. CASE \E e \in view[L][x.root] : Covers(e, held[b], t.mut)
    BY <1>3, <1>12, <2>1
  <2>2. CASE \E d \in view[L][x.root] : \E j \in 1 .. L :
                 /\ ~ IsParam(d.root, d.scope) /\ d.scope = scopes[j].id
                 /\ HiddenIn(scopes, view, j, held[b], t.mut)
    BY <1>3, <1>13, <2>2
  <2> QED BY <1>10, <2>1, <2>2 DEF CoveredIn
<1>15. x.path # Whole \/ t.field \/ pl.path = Whole
  BY <1>6, <1>7 DEF Join
<1> QED BY <1>3, <1>4, <1>6, <1>14, <1>15 DEF pl, b, t, view, L

\* Entries record a place, seen from scope i, for a reference that is or is
\* not mutable.
Recorded(P, i, place, mut) ==
    \/ \E e \in P : e.root = place.root /\ e.scope = place.scope /\ e.path \in {Whole, place.path}
    \/ \E d \in P : \E j \in 1 .. i :
          /\ ~ IsParam(d.root, d.scope) /\ d.scope = scopes[j].id
          /\ HiddenIn(scopes, Snapshot(scopes), j, place, mut)

\* The type of an expression that is accepted.
LEMMA ExprType ==
    ASSUME Layout(alphabet, scopes, blocks, nextId), NEW x \in Exprs, WellFormed(x),
           NEW entries, ExprAllowed(x, entries)
    PROVE  /\ TypeOfExpr(x) \in TypeSet /\ TypeOfExpr(x).ref
           /\ TypeOfExpr(x).field <=> IF x.form = "copy" THEN TypeOf(x.root).field
                                                        ELSE x.path # Whole
           /\ IsRef(TypeOf(x.root)) /\ TypeOfExpr(x).mut => TypeOf(x.root).mut
           /\ x.form = "borrow" => TypeOfExpr(x).mut = x.mut
           /\ ~ IsRef(TypeOf(x.root)) => x.form = "borrow"
<1> DEFINE t == TypeOf(x.root)
<1>1. alphabet \in Alphabets /\ InScope(x.root)
  BY DEF Layout, WellFormed
<1>2. t \in TypeSet
  BY <1>1, RootFacts
<1>3. x.form \in {"borrow", "copy"} /\ x.mut \in BOOLEAN
  BY <1>1, ExprFacts
<1>4. x.form = "copy" => IsRef(t)
  BY <1>3 DEF WellFormed
<1>5. CASE x.form = "copy"
  BY <1>2, <1>4, <1>5 DEF TypeOfExpr, IsRef
<1>6. CASE x.form = "borrow"
  <2>1. x.mut => (IsRef(t) => t.mut)
    BY <1>6 DEF ExprAllowed
  <2>2. TypeOfExpr(x) = RefType(x.mut, x.path # Whole)
    BY <1>6 DEF TypeOfExpr
  <2>3. /\ RefType(x.mut, x.path # Whole) \in TypeSet
        /\ RefType(x.mut, x.path # Whole).ref
        /\ RefType(x.mut, x.path # Whole).mut = x.mut
        /\ RefType(x.mut, x.path # Whole).field = (x.path # Whole)
    BY <1>3 DEF RefType, TypeSet
  <2> QED BY <1>6, <2>1, <2>2, <2>3
<1> QED BY <1>3, <1>5, <1>6

\* What its provenance says of it.
LEMMA ProvenanceFacts ==
    ASSUME Layout(alphabet, scopes, blocks, nextId), NEW x \in Exprs, WellFormed(x)
    PROVE  /\ ProvenanceOf(x) \in SUBSET EntrySet /\ ProvenanceOf(x) # {}
           /\ \A f \in ProvenanceOf(x) :
                 /\ \E j \in 1 .. Level(x.root) : scopes[j].id = f.scope
                 /\ f.local \/ IsParam(f.root, f.scope)
<1>1. InScope(x.root)
  BY DEF WellFormed
<1>2. /\ Level(x.root) \in 1 .. Len(scopes)
      /\ ScopeOf(x.root) = scopes[Level(x.root)].id /\ ScopeOf(x.root) \in Nat
      /\ ProvOK(scopes, Level(x.root), x.root, ProvOf(x.root))
  BY <1>1, RootFacts
<1>3. CASE LocalRef(x.root)
  <2>1. ProvOf(x.root) # {} /\ \A e \in ProvOf(x.root) :
           /\ \E j \in 1 .. Level(x.root) : scopes[j].id = e.scope
           /\ e.local \/ IsParam(e.root, e.scope)
    BY <1>2, <1>3 DEF ProvOK, Around, LocalRef
  <2>2. /\ ProvenanceOf(x) \in SUBSET EntrySet
        /\ \A e \in ProvOf(x.root) : \E f \in ProvenanceOf(x) : f.root = e.root
        /\ \A f \in ProvenanceOf(x) : \E e \in ProvOf(x.root) :
              f.root = e.root /\ f.scope = e.scope /\ (e.local => f.local)
    BY <1>3, FromReference
  <2> QED BY <2>1, <2>2
<1>4. CASE ~ LocalRef(x.root)
  <2>1. ProvOf(x.root) = {}
    BY <1>1, <1>4, RootFacts
  <2>2. PICK e \in EntrySet : /\ Provenance(x, ScopeOf(x.root), ProvOf(x.root)) = {e}
                              /\ e.scope = ScopeOf(x.root) /\ (e.local \/ IsParam(e.root, e.scope))
    BY <1>2, <1>4, <2>1, OwnPlace
  <2>3. ProvenanceOf(x) = {e}
    BY <2>2 DEF ProvenanceOf
  <2>4. Level(x.root) \in 1 .. Level(x.root)
    BY <1>2
  <2> QED BY <1>2, <2>2, <2>3, <2>4
<1> QED BY <1>3, <1>4

\* The place an accepted expression leads to is recorded in its provenance.
LEMMA TargetRecorded ==
    ASSUME Here, NEW x \in Exprs, WellFormed(x), NEW entries, ExprAllowed(x, entries)
    PROVE  /\ Recorded(ProvenanceOf(x), Level(x.root), Target(x), TypeOfExpr(x).mut)
           /\ TypeOfExpr(x).field \/ Target(x).path = Whole
           /\ \E j \in 1 .. Level(x.root) : scopes[j].id = Target(x).scope
           /\ ~ Target(x).via => /\ ~ IsRef(TypeOf(x.root))
                                 /\ Target(x).root = x.root /\ Target(x).path = x.path
                                 /\ Target(x).scope = ScopeOf(x.root)
<1> DEFINE pl == Target(x)
           mut == TypeOfExpr(x).mut
           L == Level(x.root)
<1>1. /\ Layout(alphabet, scopes, blocks, nextId) /\ alphabet \in Alphabets
      /\ InScope(x.root) /\ HeldOK(scopes, held)
  BY DEF Here, Layout, WellFormed
<1>2. /\ L \in 1 .. Len(scopes) /\ L \in 1 .. L
      /\ ScopeOf(x.root) = scopes[L].id /\ ScopeOf(x.root) \in Nat
      /\ x.root \in DOMAIN scopes[L].vars
      /\ IsRef(TypeOf(x.root)) <=> LocalRef(x.root) \/ IsParam(x.root, ScopeOf(x.root))
      /\ ~ LocalRef(x.root) => ProvOf(x.root) = {}
  BY <1>1, RootFacts
<1>3. /\ IsRef(TypeOf(x.root)) /\ mut => TypeOf(x.root).mut
      /\ TypeOfExpr(x).field <=> IF x.form = "copy" THEN TypeOf(x.root).field
                                                   ELSE x.path # Whole
  BY <1>1, ExprType
<1>4. x.form \in {"borrow", "copy"} /\ (x.form = "copy" => x.path = Whole)
  BY <1>1, ExprFacts
<1> HIDE DEF mut, L
<1>5. CASE LocalRef(x.root)
  <2> DEFINE b == <<x.root, ScopeOf(x.root)>>
  <2>1. mut => TypeOf(x.root).mut
    BY <1>2, <1>3, <1>5
  <2>2. /\ b \in DOMAIN held /\ BoundAt(scopes, b, L)
        /\ pl.via /\ pl.scope = held[b].scope
        /\ x.path # Whole \/ TypeOf(x.root).field \/ pl.path = Whole
    BY <1>5, <2>1, RefTarget DEF L
  <2>3. \/ \E e \in ProvOf(x.root) :
              Covers(e, pl, mut) /\ Extended(x, e.path) \in {Whole, pl.path}
        \/ \E d \in ProvOf(x.root) : \E j \in 1 .. L :
              /\ ~ IsParam(d.root, d.scope) /\ d.scope = scopes[j].id
              /\ HiddenIn(scopes, Snapshot(scopes), j, pl, mut)
    BY <1>5, <2>1, RefTarget DEF L
  <2>4. \E j \in 1 .. L : scopes[j].id = pl.scope
    BY <1>1, <1>2, <2>2 DEF HeldOK
  <2>5. TypeOfExpr(x).field \/ pl.path = Whole
    BY <1>2, <1>3, <1>4, <1>5, <2>2 DEF WellFormed
  <2>6. \A e \in ProvOf(x.root) : \E f \in ProvenanceOf(x) :
           f.root = e.root /\ f.scope = e.scope /\ f.path = Extended(x, e.path)
    BY <1>1, <1>5, FromReference
  <2> HIDE DEF pl
  <2>7. Recorded(ProvenanceOf(x), L, pl, mut)
    BY <2>3, <2>6 DEF Recorded, Covers
  <2> QED BY <2>2, <2>4, <2>5, <2>7 DEF pl, mut, L
<1>6. CASE ~ LocalRef(x.root)
  <2>1. <<x.root, ScopeOf(x.root)>> \notin DOMAIN held
    BY <1>1, <1>2, <1>6 DEF HeldOK, BoundAt, LocalRef, L
  <2>2. pl = Place(x.root, ScopeOf(x.root), x.path, IsRef(TypeOf(x.root)))
    <3>1. IsRef(TypeOf(x.root)) \in BOOLEAN
      BY <1>1, RootFacts DEF IsRef, TypeSet
    <3>2. CASE IsRef(TypeOf(x.root))
      BY <2>1, <3>2, Zenon DEF Target
    <3>3. CASE ~ IsRef(TypeOf(x.root))
      <4>1. Target(x) = Place(x.root, ScopeOf(x.root), x.path, FALSE)
        BY <3>3, Zenon DEF Target
      <4>2. IsRef(TypeOf(x.root)) = FALSE
        BY <3>1, <3>3
      <4> QED BY <4>1, <4>2
    <3> QED BY <3>1, <3>2, <3>3
  <2>3. /\ pl.root = x.root /\ pl.scope = ScopeOf(x.root) /\ pl.path = x.path
        /\ pl.via = IsRef(TypeOf(x.root))
    BY <2>2 DEF Place
  <2> HIDE DEF pl
  <2>4. ProvOf(x.root) = {}
    BY <1>2, <1>6
  <2>5. PICK e \in EntrySet : /\ Provenance(x, ScopeOf(x.root), ProvOf(x.root)) = {e}
                              /\ e.root = x.root /\ e.scope = ScopeOf(x.root) /\ e.path = x.path
    BY <1>1, <1>2, <1>6, <2>4, OwnPlace
  <2>6. Recorded(ProvenanceOf(x), L, pl, mut)
    BY <2>3, <2>5 DEF ProvenanceOf, Recorded
  <2>7. TypeOfExpr(x).field \/ pl.path = Whole
    BY <1>3, <1>4, <2>3
  <2> QED BY <1>2, <2>3, <2>6, <2>7 DEF pl, mut, L
<1> QED BY <1>5, <1>6

\* Recorded within a level that all entries outlive, it is recorded there,
\* and so is the scope of the place.
LEMMA RecordedOutlives ==
    ASSUME Layout(alphabet, scopes, blocks, nextId), NEW P, NEW i \in 1 .. Len(scopes),
           NEW k \in 1 .. Len(scopes), NEW place, NEW mut, Recorded(P, i, place, mut),
           Outlives(P, k)
    PROVE  Recorded(P, k, place, mut) /\ \E j \in 1 .. k : scopes[j].id = place.scope
<1>1. /\ Scoped(scopes, nextId) /\ scopes \in Seq(ScopeSet)
      /\ ViewOK(scopes, Snapshot(scopes), Len(scopes))
  BY DEF Layout, Scoped
<1>2. CASE \E e \in P : e.root = place.root /\ e.scope = place.scope /\ e.path \in {Whole, place.path}
  BY <1>2 DEF Recorded, Outlives
<1>3. ASSUME NEW d \in P, NEW j \in 1 .. i, ~ IsParam(d.root, d.scope), d.scope = scopes[j].id,
             HiddenIn(scopes, Snapshot(scopes), j, place, mut)
      PROVE  Recorded(P, k, place, mut) /\ \E m \in 1 .. k : scopes[m].id = place.scope
  <2>1. PICK m \in 1 .. k : scopes[m].id = d.scope
    BY DEF Outlives
  <2>2. m = j
    BY <1>1, <1>3, <2>1, UniqueIds
  <2>3. Recorded(P, k, place, mut)
    BY <1>3, <2>2 DEF Recorded
  <2>4. PICK h \in 1 .. j : \E l \in 1 .. (h - 1) :
                \E n \in DOMAIN scopes[h].vars \cap DOMAIN scopes[l].vars :
                    Records(scopes, Snapshot(scopes), l, n, place, mut)
    BY <1>3 DEF HiddenIn
  <2>5. PICK l \in 1 .. (h - 1) : \E n \in DOMAIN scopes[h].vars \cap DOMAIN scopes[l].vars :
                    Records(scopes, Snapshot(scopes), l, n, place, mut)
    BY <2>4
  <2>6. PICK n \in DOMAIN scopes[l].vars : Records(scopes, Snapshot(scopes), l, n, place, mut)
    BY <2>5
  <2>7. ProvOK(scopes, l, n, Snapshot(scopes)[l][n])
    BY <1>1, <2>6 DEF ViewOK
  <2>8. \E q \in 1 .. l : scopes[q].id = place.scope
    <3>1. l \in 1 .. l
      OBVIOUS
    <3> QED BY <2>6, <2>7, <3>1 DEF ProvOK, Around, Covers, Records
  <2>9. 1 .. l \subseteq 1 .. k
    BY <2>2
  <2> QED BY <2>3, <2>8, <2>9
<1> QED BY <1>2, <1>3 DEF Recorded

\* What is registered for a binding in scope k covers its place.
LEMMA RegisteredCovers ==
    ASSUME scopes \in Seq(ScopeSet), NEW P \in SUBSET EntrySet, NEW k \in 1 .. Len(scopes),
           NEW i \in 1 .. k, NEW place, NEW mut \in BOOLEAN, Recorded(P, i, place, mut),
           NEW t, NEW w, Grows(scopes, t, Len(scopes)),
           HiddenKept(scopes, Snapshot(scopes), w, Len(scopes)),
           NEW n, w[k][n] = As(P, mut)
    PROVE  CoveredIn(t, w, n, k, place, mut)
<1>1. \A e \in P : \E f \in w[k][n] : SamePlace(f, e) /\ (mut => f.mut)
  BY AsFacts
<1>2. CASE \E e \in P : e.root = place.root /\ e.scope = place.scope /\ e.path \in {Whole, place.path}
  <2>1. \E f \in w[k][n] : Covers(f, place, mut)
    BY <1>1, <1>2 DEF Covers, SamePlace
  <2> QED BY <2>1 DEF CoveredIn
<1>3. ASSUME NEW d \in P, NEW j \in 1 .. i, ~ IsParam(d.root, d.scope), d.scope = scopes[j].id,
             HiddenIn(scopes, Snapshot(scopes), j, place, mut)
      PROVE  CoveredIn(t, w, n, k, place, mut)
  <2>1. j \in 1 .. k /\ j \in 1 .. Len(scopes) /\ Len(scopes) \in Nat
    OBVIOUS
  <2>2. HiddenIn(t, w, j, place, mut)
    BY <1>3, <2>1, HiddenStays
  <2>3. t[j].id = scopes[j].id
    BY <2>1 DEF Grows
  <2>4. PICK f \in w[k][n] : SamePlace(f, d)
    BY <1>1
  <2> QED BY <1>3, <2>1, <2>2, <2>3, <2>4 DEF CoveredIn, SamePlace
<1> QED BY <1>2, <1>3 DEF Recorded

----------------------------------------------------------------------------
(* The layout is kept by every update. *)

LEMMA ViewMoves ==
    ASSUME NEW sc, NEW t, NEW len \in Nat, Frame(sc, t, len),
           NEW m \in 0 .. len, NEW view, ViewOK(sc, view, m)
    PROVE  ViewOK(t, view, m)
<1>1. ASSUME NEW i \in 1 .. m, NEW n \in DOMAIN sc[i].vars
      PROVE  ProvOK(t, i, n, view[i][n])
  <2>1. ProvOK(sc, i, n, view[i][n])
    BY DEF ViewOK
  <2>2. (\A j \in 1 .. i : t[j].id = sc[j].id) /\ i \in 1 .. len
    BY DEF Frame
  <2>3. RefsOf(t[i]) = RefsOf(sc[i])
    BY <2>2, FrameRefs
  <2> QED BY <2>1, <2>2, <2>3 DEF ProvOK, Around
<1>2. \A i \in 1 .. m : DOMAIN t[i].vars = DOMAIN sc[i].vars
  BY DEF Frame
<1> QED BY <1>1, <1>2 DEF ViewOK

LEMMA BlockedMoves ==
    ASSUME NEW sc \in Seq(ScopeSet), NEW t, NEW bs, Blocked(sc, bs),
           Len(t) = Len(sc), Frame(sc, t, Len(sc) - 1)
    PROVE  Blocked(t, bs)
<1>1. Len(bs) \in Nat /\ Len(bs) = Len(sc) - 1
  BY DEF Blocked
<1>2. ASSUME NEW k \in 1 .. Len(bs)
      PROVE  /\ ViewOK(t, bs[k].before, k)
             /\ \A st \in bs[k].states : ViewOK(t, st, k)
  <2>1. k \in 0 .. Len(bs)
    OBVIOUS
  <2> QED BY <1>1, <2>1, ViewMoves DEF Blocked
<1> QED BY <1>2 DEF Blocked

\* The same bindings, and a view of them for their provenance.
LEMMA FrameLayout ==
    ASSUME NEW al, NEW sc, NEW bs, NEW next, Layout(al, sc, bs, next),
           NEW t \in Seq(ScopeSet), Len(t) = Len(sc), Frame(sc, t, Len(sc)),
           NEW view, ViewOK(sc, view, Len(sc)), Provs(t, view, Len(sc))
    PROVE  Layout(al, t, bs, next)
<1>1. Scoped(sc, next) /\ Blocked(sc, bs) /\ sc \in Seq(ScopeSet) /\ Len(sc) \in Nat
  BY DEF Layout, Scoped
<1>2. Scoped(t, next)
  <2>1. \A i \in 1 .. Len(sc) : t[i].id = sc[i].id
    BY DEF Frame
  <2>2. \A i \in 1 .. Len(sc) : \A n \in DOMAIN sc[i].vars :
           n \in DOMAIN t[i].vars /\ t[i].vars[n].type = sc[i].vars[n].type
    BY DEF Frame
  <2> QED BY <1>1, <2>1, <2>2 DEF Scoped
<1>3. Blocked(t, bs)
  <2>1. Frame(sc, t, Len(sc) - 1)
    BY <1>1 DEF Frame
  <2> QED BY <1>1, <2>1, BlockedMoves
<1>4. ViewOK(t, Snapshot(t), Len(t))
  <2>1. ViewOK(t, view, Len(sc))
    BY <1>1, ViewMoves
  <2>2. /\ Len(Snapshot(t)) = Len(t)
        /\ \A i \in 1 .. Len(t) :
              /\ DOMAIN Snapshot(t)[i] = DOMAIN t[i].vars
              /\ \A n \in DOMAIN t[i].vars : Snapshot(t)[i][n] = view[i][n]
    BY SnapshotFacts DEF Provs
  <2> QED BY <2>1, <2>2 DEF ViewOK
<1> QED BY <1>2, <1>3, <1>4 DEF Layout

\* scope_set_moved.
LEMMA FlagLayout ==
    ASSUME NEW al, NEW sc, NEW bs, NEW next, Layout(al, sc, bs, next),
           NEW k \in 1 .. Len(sc), NEW n \in DOMAIN sc[k].vars, NEW m \in BOOLEAN,
           NEW t, t = FlagPut(sc, k, n, m)
    PROVE  Layout(al, t, bs, next)
<1>1. sc \in Seq(ScopeSet) /\ ViewOK(sc, Snapshot(sc), Len(sc))
  BY DEF Layout, Scoped
<1>2. /\ t \in Seq(ScopeSet) /\ Len(t) = Len(sc)
      /\ Frame(sc, t, Len(sc)) /\ Provs(t, Snapshot(sc), Len(sc))
  BY <1>1, FlagSet
<1> QED BY ONLY <1>1, <1>2, FrameLayout, Layout(al, sc, bs, next)

\* update_borrow_assignment.
LEMMA ProvLayout ==
    ASSUME NEW al, NEW sc, NEW bs, NEW next, Layout(al, sc, bs, next),
           NEW k \in 1 .. Len(sc), NEW n \in DOMAIN sc[k].vars, NEW P,
           ProvOK(sc, k, n, P), NEW t, t = ProvPut(sc, k, n, P)
    PROVE  Layout(al, t, bs, next)
<1>1. sc \in Seq(ScopeSet) /\ ViewOK(sc, Snapshot(sc), Len(sc)) /\ P \in SUBSET EntrySet
  BY DEF Layout, Scoped, ProvOK, Around
<1> DEFINE view == Snapshot(t)
<1>2. /\ t \in Seq(ScopeSet) /\ Len(t) = Len(sc) /\ Frame(sc, t, Len(sc))
      /\ t[k].vars[n].prov = P
      /\ \A i \in 1 .. Len(sc) : \A x \in DOMAIN sc[i].vars :
            i # k \/ x # n => t[i].vars[x].prov = sc[i].vars[x].prov
  BY <1>1, ProvSet
<1>3. Provs(t, view, Len(sc))
  BY <1>2, SnapshotFacts DEF Provs
<1>4. ViewOK(sc, view, Len(sc))
  <2>1. ASSUME NEW i \in 1 .. Len(sc), NEW x \in DOMAIN sc[i].vars
        PROVE  ProvOK(sc, i, x, view[i][x])
    <3>1. x \in DOMAIN t[i].vars /\ view[i][x] = t[i].vars[x].prov
      BY <1>2, SnapshotFacts DEF Frame
    <3>2. ProvOK(sc, i, x, sc[i].vars[x].prov)
      BY <1>1, SnapshotFacts DEF ViewOK
    <3>3. CASE i = k /\ x = n
      BY <1>2, <3>1, <3>3
    <3>4. CASE i # k \/ x # n
      BY <1>2, <3>1, <3>2, <3>4
    <3> QED BY <3>3, <3>4
  <2>2. Len(view) = Len(sc) /\ \A i \in 1 .. Len(sc) : DOMAIN view[i] = DOMAIN sc[i].vars
    BY <1>2, SnapshotFacts DEF Frame
  <2> QED BY <2>1, <2>2 DEF ViewOK
<1> QED BY ONLY <1>2, <1>3, <1>4, FrameLayout, Layout(al, sc, bs, next)

\* Scopes with the same identities and what was bound before.
LEMMA ScopedStays ==
    ASSUME NEW sc, NEW next, Scoped(sc, next), NEW m \in 1 .. Len(sc),
           NEW t \in Seq(ScopeSet), Len(t) = m,
           \A i \in 1 .. m : t[i].id = sc[i].id,
           \A i \in 1 .. m : \A n \in DOMAIN sc[i].vars :
              n \in DOMAIN t[i].vars /\ t[i].vars[n].type = sc[i].vars[n].type
    PROVE  Scoped(t, next)
<1>1. sc \in Seq(ScopeSet) /\ Len(sc) \in Nat /\ next \in Nat /\ next > Len(sc)
  BY DEF Scoped
<1>2. Len(t) > 0 /\ next > Len(t) /\ \A i \in 1 .. Len(t) : i \in 1 .. Len(sc)
  BY <1>1
<1>3. \A i, j \in 1 .. Len(t) : i < j => t[i].id < t[j].id
  BY <1>2 DEF Scoped
<1>4. \A i \in 1 .. Len(t) : t[i].id < next
  BY <1>2 DEF Scoped
<1>5. \A i \in 1 .. Len(t) : t[i].id = 1 =>
          \A n \in Params : n \in DOMAIN t[i].vars /\ IsRef(t[i].vars[n].type)
  BY <1>2 DEF Scoped
<1> QED BY <1>1, <1>2, <1>3, <1>4, <1>5 DEF Scoped

\* STMT_LET.
LEMMA DeclareLayout ==
    ASSUME NEW al, NEW sc, NEW bs, NEW next, Layout(al, sc, bs, next),
           NEW k, k = Len(sc), NEW name \in AllNames, name \notin DOMAIN sc[k].vars,
           NEW b \in BindingSet, Around(sc, k, b.prov), b.prov # {} <=> IsRef(b.type),
           NEW t, t = BindingPut(sc, k, name, b)
    PROVE  Layout(al, t, bs, next)
<1>1. /\ Scoped(sc, next) /\ Blocked(sc, bs) /\ sc \in Seq(ScopeSet)
      /\ Len(sc) \in Nat /\ k \in 1 .. Len(sc)
      /\ ViewOK(sc, Snapshot(sc), Len(sc))
  BY DEF Layout, Scoped
<1>2. /\ t \in Seq(ScopeSet) /\ Len(t) = Len(sc)
      /\ \A i \in 1 .. Len(sc) : t[i].id = sc[i].id
      /\ \A i \in 1 .. Len(sc) : i # k => t[i] = sc[i]
      /\ DOMAIN t[k].vars = DOMAIN sc[k].vars \cup {name}
      /\ t[k].vars[name] = b
      /\ \A n \in DOMAIN sc[k].vars : t[k].vars[n] = sc[k].vars[n]
  BY <1>1, DeclaredFacts
<1>3. ASSUME NEW i \in 1 .. Len(sc), NEW n \in DOMAIN t[i].vars
      PROVE  ProvOK(t, i, n, t[i].vars[n].prov)
  <2>1. \A p : Around(sc, i, p) => Around(t, i, p)
    BY <1>2 DEF Around
  <2>2. CASE i = k /\ n = name
    <3>1. ~ IsParam(name, sc[k].id)
      BY <1>1 DEF Scoped, IsParam
    <3>2. name \in RefsOf(t[k]) <=> IsRef(b.type)
      BY <1>1, <1>2, <3>1 DEF RefsOf
    <3> QED BY <1>2, <2>1, <2>2, <3>2 DEF ProvOK
  <2>3. CASE ~ (i = k /\ n = name)
    <3>1. n \in DOMAIN sc[i].vars /\ t[i].vars[n] = sc[i].vars[n] /\ t[i].id = sc[i].id
      BY <1>2, <2>3
    <3>2. ProvOK(sc, i, n, sc[i].vars[n].prov)
      BY <1>1, <3>1, SnapshotFacts DEF ViewOK
    <3>3. n \in RefsOf(t[i]) <=> n \in RefsOf(sc[i])
      BY <3>1, RefsSame
    <3> QED BY <2>1, <3>1, <3>2, <3>3, SMTT(20) DEF ProvOK
  <2> QED BY <2>2, <2>3
<1>4. Scoped(t, next)
  <2>1. \A i \in 1 .. Len(sc) : \A n \in DOMAIN sc[i].vars :
           n \in DOMAIN t[i].vars /\ t[i].vars[n].type = sc[i].vars[n].type
    BY <1>2, SMTT(20)
  <2>2. Len(sc) \in 1 .. Len(sc) /\ \A i \in 1 .. Len(sc) : t[i].id = sc[i].id
    BY <1>1, <1>2
  <2>3. Scoped(sc, next) /\ t \in Seq(ScopeSet) /\ Len(t) = Len(sc)
    BY <1>1, <1>2
  <2> QED BY ONLY <2>1, <2>2, <2>3, ScopedStays
<1>5. ViewOK(t, Snapshot(t), Len(t))
  BY <1>2, <1>3, SnapshotFacts DEF ViewOK
<1>6. Frame(sc, t, Len(sc) - 1)
  BY <1>1, <1>2 DEF Frame
<1>7. Blocked(t, bs)
  BY <1>1, <1>2, <1>6, BlockedMoves
<1> QED BY <1>4, <1>5, <1>7 DEF Layout

\* The blocks are the same, but for what they say of the execution.
LEMMA BlocksLayout ==
    ASSUME NEW al, NEW sc, NEW bs, NEW next, Layout(al, sc, bs, next),
           NEW bs2 \in Seq(BlockSet), Len(bs2) = Len(bs),
           \A k \in 1 .. Len(bs) : bs2[k].before = bs[k].before /\ bs2[k].states = bs[k].states
    PROVE  Layout(al, sc, bs2, next)
<1>1. Blocked(sc, bs2)
  BY DEF Layout, Blocked
<1> QED BY <1>1 DEF Layout

\* A block is opened, from the state before it.
LEMMA OpenLayout ==
    ASSUME NEW al, NEW sc, NEW bs, NEW next, Layout(al, sc, bs, next),
           NEW nb \in BlockSet, ViewOK(sc, nb.before, Len(sc)),
           \A st \in nb.states : ViewOK(sc, st, Len(sc)),
           NEW t, t = Append(sc, [id |-> next, vars |-> <<>>]),
           NEW bs2, bs2 = Append(bs, nb)
    PROVE  Layout(al, t, bs2, next + 1)
<1>1. /\ Scoped(sc, next) /\ Blocked(sc, bs) /\ sc \in Seq(ScopeSet)
      /\ Len(sc) \in Nat /\ Len(sc) > 0 /\ next \in Nat /\ next > Len(sc)
      /\ ViewOK(sc, Snapshot(sc), Len(sc)) /\ bs \in Seq(BlockSet)
      /\ Len(sc) = Len(bs) + 1 /\ Len(bs) \in Nat
  <2>1. Scoped(sc, next) /\ Blocked(sc, bs) /\ ViewOK(sc, Snapshot(sc), Len(sc))
    BY DEF Layout
  <2>2. sc \in Seq(ScopeSet) /\ Len(sc) \in Nat /\ Len(sc) > 0 /\ next \in Nat /\ next > Len(sc)
    BY <2>1 DEF Scoped
  <2>3. bs \in Seq(BlockSet) /\ Len(sc) = Len(bs) + 1 /\ Len(bs) \in Nat
    BY <2>1 DEF Blocked
  <2> QED BY <2>1, <2>2, <2>3
<1>2. /\ t \in Seq(ScopeSet) /\ Len(t) = Len(sc) + 1
      /\ \A i \in 1 .. Len(sc) : t[i] = sc[i]
      /\ t[Len(sc) + 1].id = next /\ DOMAIN t[Len(sc) + 1].vars = {}
  <2>1. sc \in Seq(ScopeSet) /\ next \in Nat
    BY <1>1
  <2> QED BY ONLY <2>1, t = Append(sc, [id |-> next, vars |-> <<>>]), OpenedFacts
<1>3. Frame(sc, t, Len(sc))
  BY <1>2 DEF Frame
<1>4. \A i \in 1 .. Len(t) : i \in 1 .. Len(sc) \/ i = Len(sc) + 1
  BY <1>1, <1>2
<1>5. Scoped(t, next + 1)
  <2>1. \A i \in 1 .. Len(sc) : t[i].id \in Nat /\ t[i].id < next
    BY <1>1, <1>2, ScopeFacts DEF Scoped
  <2>2. \A i \in 1 .. Len(t) : t[i].id < next + 1
    BY <1>1, <1>2, <1>4, <2>1
  <2>3. ASSUME NEW i \in 1 .. Len(t), NEW j \in 1 .. Len(t), i < j
        PROVE  t[i].id < t[j].id
    <3>1. i \in 1 .. Len(sc)
      BY <1>1, <1>2, <2>3
    <3>2. CASE j \in 1 .. Len(sc)
      BY <1>1, <1>2, <2>3, <3>1, <3>2 DEF Scoped
    <3>3. CASE j = Len(sc) + 1
      BY <1>2, <2>1, <3>1, <3>3
    <3> QED BY <1>4, <3>2, <3>3
  <2>4. ASSUME NEW i \in 1 .. Len(t), t[i].id = 1
        PROVE  \A n \in Params : n \in DOMAIN t[i].vars /\ IsRef(t[i].vars[n].type)
    <3>1. next # 1
      BY <1>1
    <3> QED BY <1>1, <1>2, <1>4, <2>4, <3>1 DEF Scoped
  <2>5. Len(t) > 0 /\ next + 1 \in Nat /\ next + 1 > Len(t)
    BY <1>1, <1>2
  <2> QED BY <1>2, <2>2, <2>3, <2>4, <2>5 DEF Scoped
<1>6. ViewOK(t, Snapshot(t), Len(t))
  <2>1. ViewOK(t, Snapshot(sc), Len(sc))
    BY <1>1, <1>3, ViewMoves
  <2>4. /\ Len(Snapshot(t)) = Len(t)
        /\ \A i \in 1 .. Len(t) :
              /\ DOMAIN Snapshot(t)[i] = DOMAIN t[i].vars
              /\ \A n \in DOMAIN t[i].vars : Snapshot(t)[i][n] = t[i].vars[n].prov
    BY <1>2, SnapshotFacts
  <2>5. \A i \in 1 .. Len(sc) : \A n \in DOMAIN sc[i].vars :
           Snapshot(sc)[i][n] = sc[i].vars[n].prov
    BY <1>1, SnapshotFacts
  <2>2. ASSUME NEW i \in 1 .. Len(sc)
        PROVE  /\ DOMAIN Snapshot(t)[i] = DOMAIN t[i].vars
               /\ \A n \in DOMAIN t[i].vars : ProvOK(t, i, n, Snapshot(t)[i][n])
    <3>1. i \in 1 .. Len(t)
      BY <1>1, <1>2
    <3>2. /\ DOMAIN Snapshot(t)[i] = DOMAIN t[i].vars
          /\ \A n \in DOMAIN t[i].vars : Snapshot(t)[i][n] = Snapshot(sc)[i][n]
      BY <1>2, <2>4, <2>5, <3>1
    <3> QED BY <2>1, <3>2 DEF ViewOK
  <2>3. Len(Snapshot(t)) = Len(t) /\ DOMAIN Snapshot(t)[Len(sc) + 1] = {}
    <3>1. Len(sc) + 1 \in 1 .. Len(t)
      BY <1>1, <1>2
    <3> QED BY <1>2, <2>4, <3>1
  <2> QED BY <1>2, <1>4, <2>2, <2>3 DEF ViewOK
<1>7. Blocked(t, bs2)
  <2>1. bs2 \in Seq(BlockSet) /\ Len(bs2) = Len(bs) + 1
        /\ (\A k \in 1 .. Len(bs) : bs2[k] = bs[k]) /\ bs2[Len(bs) + 1] = nb
    BY <1>1
  <2>2. ASSUME NEW k \in 1 .. Len(bs2)
        PROVE  /\ ViewOK(t, bs2[k].before, k)
               /\ \A st \in bs2[k].states : ViewOK(t, st, k)
    <3>1. k \in 0 .. Len(sc)
      BY <1>1, <2>1
    <3>2. /\ ViewOK(sc, bs2[k].before, k)
          /\ \A st \in bs2[k].states : ViewOK(sc, st, k)
      <4>1. CASE k \in 1 .. Len(bs)
        BY <1>1, <2>1, <4>1 DEF Blocked
      <4>2. CASE k = Len(bs) + 1
        BY <1>1, <2>1, <4>2
      <4> QED BY <1>1, <2>1, <4>1, <4>2
    <3> QED BY <1>1, <1>3, <3>1, <3>2, ViewMoves
  <2> QED BY <1>1, <1>2, <2>1, <2>2 DEF Blocked
<1> QED BY <1>5, <1>6, <1>7 DEF Layout

\* The innermost scope is left, and the others are given a view.
LEMMA PoppedFacts ==
    ASSUME NEW sc \in Seq(ScopeSet), Len(sc) > 1,
           NEW view, ViewOK(sc, view, Len(sc) - 1),
           NEW t, t = Restored(Outer(sc), view)
    PROVE  /\ t \in Seq(ScopeSet) /\ Len(t) = Len(sc) - 1
           /\ Frame(sc, t, Len(sc) - 1) /\ Flags(sc, t, Len(sc) - 1)
           /\ Provs(t, view, Len(sc) - 1)
<1> DEFINE u == Outer(sc)
           m == Len(sc) - 1
<1>1. u \in Seq(ScopeSet) /\ Len(u) = m /\ \A i \in 1 .. m : u[i] = sc[i]
  BY OuterFacts
<1>2. /\ Len(view) = m
      /\ \A i \in 1 .. m : /\ DOMAIN view[i] = DOMAIN sc[i].vars
                           /\ \A n \in DOMAIN sc[i].vars : view[i][n] \in SUBSET EntrySet
  BY DEF ViewOK, ProvOK, Around
<1> HIDE DEF u, m
<1>3. /\ t \in Seq(ScopeSet) /\ Len(t) = m
      /\ Frame(u, t, m) /\ Flags(u, t, m) /\ Provs(t, view, m)
  <2>1. /\ Len(view) = Len(u)
        /\ \A i \in 1 .. Len(u) : /\ DOMAIN view[i] = DOMAIN u[i].vars
                                  /\ \A n \in DOMAIN u[i].vars : view[i][n] \in SUBSET EntrySet
    BY <1>1, <1>2
  <2>2. t = Restored(u, view)
    BY DEF u
  <2>3. /\ t \in Seq(ScopeSet) /\ Len(t) = Len(u)
        /\ Frame(u, t, Len(u)) /\ Flags(u, t, Len(u)) /\ Provs(t, view, Len(u))
    BY ONLY <1>1, <2>1, <2>2, RestoredFacts
  <2> QED BY <1>1, <2>3
<1>4. Frame(sc, t, m) /\ Flags(sc, t, m)
  BY <1>1, <1>3 DEF Frame, Flags
<1> QED BY <1>3, <1>4 DEF m

LEMMA PoppedLayout ==
    ASSUME NEW al, NEW sc, NEW bs, NEW next, Layout(al, sc, bs, next), Len(bs) > 0,
           NEW view, ViewOK(sc, view, Len(sc) - 1),
           NEW t, t = Restored(Outer(sc), view),
           NEW bs2 \in Seq(BlockSet), Len(bs2) = Len(bs) - 1,
           \A k \in 1 .. Len(bs2) : bs2[k].before = bs[k].before /\ bs2[k].states = bs[k].states
    PROVE  Layout(al, t, bs2, next)
<1> DEFINE m == Len(sc) - 1
<1>1. /\ Scoped(sc, next) /\ Blocked(sc, bs) /\ sc \in Seq(ScopeSet)
      /\ Len(bs) \in Nat /\ Len(bs) = m /\ m \in Nat /\ m > 0 /\ Len(sc) > 1
      /\ Len(sc) \in Nat /\ next \in Nat /\ next > Len(sc)
  BY DEF Layout, Scoped, Blocked
<1>2. /\ t \in Seq(ScopeSet) /\ Len(t) = m /\ Frame(sc, t, m) /\ Provs(t, view, m)
  BY <1>1, PoppedFacts
<1>3. \A i \in 1 .. m : i \in 1 .. Len(sc)
  BY <1>1
<1> HIDE DEF m
<1>4. Scoped(t, next)
  <2>1. \A i \in 1 .. m : t[i].id = sc[i].id
    BY <1>2 DEF Frame
  <2>2. \A i \in 1 .. m : \A n \in DOMAIN sc[i].vars :
           n \in DOMAIN t[i].vars /\ t[i].vars[n].type = sc[i].vars[n].type
    BY <1>2 DEF Frame
  <2>3. m \in 1 .. Len(sc)
    BY <1>1 DEF m
  <2>4. Scoped(sc, next) /\ t \in Seq(ScopeSet) /\ Len(t) = m
    BY <1>1, <1>2
  <2> QED BY ONLY <2>1, <2>2, <2>3, <2>4, ScopedStays
<1>5. ViewOK(t, Snapshot(t), Len(t))
  <2>1. ViewOK(t, view, m)
    BY <1>1, <1>2, ViewMoves DEF m
  <2>2. /\ Len(Snapshot(t)) = Len(t)
        /\ \A i \in 1 .. Len(t) :
              /\ DOMAIN Snapshot(t)[i] = DOMAIN t[i].vars
              /\ \A n \in DOMAIN t[i].vars : Snapshot(t)[i][n] = view[i][n]
    <3>1. /\ Len(Snapshot(t)) = Len(t)
          /\ \A i \in 1 .. Len(t) :
                /\ DOMAIN Snapshot(t)[i] = DOMAIN t[i].vars
                /\ \A n \in DOMAIN t[i].vars : Snapshot(t)[i][n] = t[i].vars[n].prov
      BY <1>2, SnapshotFacts
    <3>2. \A i \in 1 .. Len(t) : \A n \in DOMAIN t[i].vars : t[i].vars[n].prov = view[i][n]
      BY <1>2 DEF Provs
    <3> QED BY ONLY <3>1, <3>2
  <2> QED BY <1>2, <2>1, <2>2 DEF ViewOK
<1>6. Blocked(t, bs2)
  <2>1. ASSUME NEW k \in 1 .. Len(bs2)
        PROVE  /\ ViewOK(t, bs2[k].before, k)
               /\ \A st \in bs2[k].states : ViewOK(t, st, k)
    <3>1. k \in 1 .. Len(bs) /\ k \in 0 .. m
      BY <1>1
    <3>2. /\ ViewOK(sc, bs2[k].before, k)
          /\ \A st \in bs2[k].states : ViewOK(sc, st, k)
      BY <1>1, <3>1 DEF Blocked
    <3> QED BY <1>1, <1>2, <3>1, <3>2, ViewMoves
  <2>2. Len(t) = Len(bs2) + 1
    BY <1>1, <1>2
  <2> QED BY <2>1, <2>2 DEF Blocked
<1> QED BY <1>4, <1>5, <1>6 DEF Layout

\* A branch that is joined says what each of its states says.
LEMMA JoinedFacts ==
    ASSUME NEW sc, NEW len \in Nat, NEW before, ViewOK(sc, before, len),
           NEW states, \A s \in states : ViewOK(sc, s, len),
           NEW J, J = Joined(before, states)
    PROVE  /\ ViewOK(sc, J, len)
           /\ \A s \in states : \A i \in 1 .. len : \A n \in DOMAIN sc[i].vars :
                 Dominated(s[i][n], J[i][n])
<1>1. CASE states = {}
  BY <1>1 DEF Joined
<1>2. CASE states # {}
  <2> DEFINE U(i, n) == UNION {s[i][n] : s \in states}
             row(i) == [n \in DOMAIN before[i] |-> Merged(U(i, n))]
  <2>1. Len(before) = len /\ \A i \in 1 .. len : DOMAIN before[i] = DOMAIN sc[i].vars
    BY DEF ViewOK
  <2>2. J = [i \in 1 .. len |-> row(i)]
    BY <1>2, <2>1 DEF Joined
  <2>3. ASSUME NEW i \in 1 .. len, NEW n \in DOMAIN sc[i].vars
        PROVE  /\ J[i][n] = Merged(U(i, n)) /\ ProvOK(sc, i, n, J[i][n])
               /\ \A s \in states : Dominated(s[i][n], J[i][n])
    <3>1. J[i][n] = Merged(U(i, n))
      BY <2>1, <2>2
    <3>2. \A s \in states : ProvOK(sc, i, n, s[i][n])
      BY DEF ViewOK
    <3>3. U(i, n) \in SUBSET EntrySet
      BY <3>2 DEF ProvOK, Around
    <3>4. \A e \in U(i, n) : \E s \in states : e \in s[i][n]
      OBVIOUS
    <3>5. \A s \in states : \A e \in s[i][n] : e \in U(i, n)
      OBVIOUS
    <3> DEFINE V == U(i, n)
    <3>6. V \in SUBSET EntrySet /\ J[i][n] = Merged(V)
          /\ (\A e \in V : \E s \in states : e \in s[i][n])
          /\ \A s \in states : \A e \in s[i][n] : e \in V
      BY <3>1, <3>3, <3>4, <3>5
    <3> HIDE DEF V, U, row
    <3>7. /\ Merged(V) \in SUBSET EntrySet
          /\ \A e \in V : \E f \in Merged(V) : StandsFor(f, e)
          /\ \A f \in Merged(V) : \E e \in V : StandsFor(f, e)
      BY <3>6, MergedFacts
    <3>8. \A s \in states : Dominated(s[i][n], Merged(V))
      BY <3>6, <3>7 DEF Dominated, StandsFor
    <3>9. Merged(V) # {} <=> n \in RefsOf(sc[i])
      <4>1. PICK s \in states : TRUE
        BY <1>2
      <4>2. Merged(V) # {} <=> V # {}
        BY <3>7
      <4>3. V # {} <=> n \in RefsOf(sc[i])
        BY <3>2, <3>6, <4>1 DEF ProvOK
      <4> QED BY <4>2, <4>3
    <3>10. ASSUME NEW f \in Merged(V)
           PROVE  (\E j \in 1 .. i : sc[j].id = f.scope) /\ (f.local \/ IsParam(f.root, f.scope))
      <4>1. PICK e \in V : StandsFor(f, e)
        BY <3>7
      <4>2. PICK s \in states : e \in s[i][n]
        BY <3>6, <4>1
      <4>3. (\E j \in 1 .. i : sc[j].id = e.scope) /\ (e.local \/ IsParam(e.root, e.scope))
        BY <3>2, <4>2 DEF ProvOK, Around
      <4> QED BY <4>1, <4>3 DEF StandsFor, SamePlace
    <3>11. ProvOK(sc, i, n, Merged(V))
      BY <3>7, <3>9, <3>10 DEF ProvOK, Around
    <3> QED BY <3>1, <3>6, <3>8, <3>11
  <2>4. Len(J) = len /\ \A i \in 1 .. len : DOMAIN J[i] = DOMAIN sc[i].vars
    BY <2>1, <2>2
  <2> HIDE DEF U, row
  <2> QED BY <2>3, <2>4 DEF ViewOK
<1> QED BY <1>1, <1>2

----------------------------------------------------------------------------
(* The layout is an invariant. *)

LEMMA BindingIn ==
    ASSUME NEW type \in TypeSet, NEW prov \in SUBSET EntrySet
    PROVE  /\ Binding(type, prov) \in BindingSet /\ Binding(type, prov).type = type
           /\ Binding(type, prov).prov = prov /\ Binding(type, prov).moved = FALSE
BY DEF Binding, BindingSet

\* A provenance that is registered for a reference.
LEMMA AsOK ==
    ASSUME NEW sc, NEW k, NEW P \in SUBSET EntrySet, P # {},
           \A f \in P : (\E j \in 1 .. k : sc[j].id = f.scope) /\ (f.local \/ IsParam(f.root, f.scope)),
           NEW mut \in BOOLEAN
    PROVE  Around(sc, k, As(P, mut)) /\ As(P, mut) # {}
<1>1. /\ As(P, mut) \in SUBSET EntrySet
      /\ \A e \in P : \E f \in As(P, mut) : SamePlace(f, e)
      /\ \A f \in As(P, mut) : \E e \in P : SamePlace(f, e) /\ (e.local => f.local)
  BY AsFacts
<1>2. As(P, mut) # {}
  BY <1>1
<1>3. ASSUME NEW f \in As(P, mut)
      PROVE  (\E j \in 1 .. k : sc[j].id = f.scope) /\ (f.local \/ IsParam(f.root, f.scope))
  <2>1. PICK e \in P : SamePlace(f, e) /\ (e.local => f.local)
    BY <1>1
  <2> QED BY <2>1 DEF SamePlace
<1> QED BY <1>1, <1>2, <1>3 DEF Around

\* The innermost scope, where names are bound.
LEMMA InnerFacts ==
    ASSUME Layout(alphabet, scopes, blocks, nextId)
    PROVE  /\ scopes \in Seq(ScopeSet) /\ Len(scopes) \in Nat /\ Len(scopes) > 0
           /\ Len(scopes) \in 1 .. Len(scopes) /\ Inner = scopes[Len(scopes)]
           /\ Inner.id \in Nat /\ alphabet \in Alphabets
<1>1. scopes \in Seq(ScopeSet) /\ Len(scopes) > 0 /\ alphabet \in Alphabets
  BY DEF Layout, Scoped
<1>2. Len(scopes) \in Nat /\ Len(scopes) \in 1 .. Len(scopes)
  BY <1>1
<1> QED BY <1>1, <1>2, ScopeFacts DEF Inner

\* What STMT_LET of a reference registers.
LEMMA LetProvenanceOK ==
    ASSUME Layout(alphabet, scopes, blocks, nextId), NEW name,
           NEW x \in Exprs, WellFormed(x), NEW entries, ExprAllowed(x, entries)
    PROVE  Around(scopes, Len(scopes), LetProvenance(name, x)) /\ LetProvenance(name, x) # {}
<1> DEFINE P == IF x.root = name THEN Provenance(x, Inner.id, {}) ELSE ProvenanceOf(x)
<1>1. LetProvenance(name, x) = As(P, TypeOfExpr(x).mut)
  BY DEF LetProvenance
<1>2. TypeOfExpr(x).mut \in BOOLEAN
  BY ExprType DEF TypeSet
<1>3. /\ P \in SUBSET EntrySet /\ P # {}
      /\ \A f \in P : /\ \E j \in 1 .. Len(scopes) : scopes[j].id = f.scope
                      /\ f.local \/ IsParam(f.root, f.scope)
  <2>1. CASE x.root = name
    <3>1. Inner.id \in Nat /\ Inner = scopes[Len(scopes)] /\ Len(scopes) \in 1 .. Len(scopes)
      BY InnerFacts
    <3>2. PICK e \in EntrySet : /\ Provenance(x, Inner.id, {}) = {e} /\ e.scope = Inner.id
                                /\ e.local \/ IsParam(e.root, e.scope)
      BY <3>1, OwnPlace
    <3>3. P = {e} /\ scopes[Len(scopes)].id = e.scope
      BY <2>1, <3>1, <3>2
    <3> HIDE DEF P
    <3> QED BY <3>1, <3>2, <3>3
  <2>2. CASE x.root # name
    <3>1. /\ ProvenanceOf(x) \in SUBSET EntrySet /\ ProvenanceOf(x) # {}
          /\ \A f \in ProvenanceOf(x) :
                /\ \E j \in 1 .. Level(x.root) : scopes[j].id = f.scope
                /\ f.local \/ IsParam(f.root, f.scope)
      BY ProvenanceFacts
    <3>2. Level(x.root) \in 1 .. Len(scopes) /\ Len(scopes) \in Nat
      BY RootFacts, InnerFacts DEF WellFormed
    <3>3. \A j \in 1 .. Level(x.root) : j \in 1 .. Len(scopes)
      BY <3>2
    <3>4. P = ProvenanceOf(x)
      BY <2>2
    <3> HIDE DEF P
    <3>5. ASSUME NEW f \in P
          PROVE  /\ \E j \in 1 .. Len(scopes) : scopes[j].id = f.scope
                 /\ f.local \/ IsParam(f.root, f.scope)
      BY ONLY <3>1, <3>3, <3>4, <3>5
    <3> QED BY ONLY <3>1, <3>4, <3>5
  <2> QED BY <2>1, <2>2
<1> HIDE DEF P
<1>4. Around(scopes, Len(scopes), As(P, TypeOfExpr(x).mut)) /\ As(P, TypeOfExpr(x).mut) # {}
  BY ONLY <1>2, <1>3, AsOK, InnerFacts, Layout(alphabet, scopes, blocks, nextId)
<1> QED BY ONLY <1>1, <1>4

\* What an assignment of a reference registers.
LEMMA SetProvenanceOK ==
    ASSUME Layout(alphabet, scopes, blocks, nextId), NEW name, InScope(name), LocalRef(name),
           NEW x \in Exprs, WellFormed(x), Outlives(ProvenanceOf(x), Level(name))
    PROVE  ProvOK(scopes, Level(name), name, As(ProvenanceOf(x), TypeOf(name).mut))
<1>1. /\ ProvenanceOf(x) \in SUBSET EntrySet /\ ProvenanceOf(x) # {}
      /\ \A f \in ProvenanceOf(x) : f.local \/ IsParam(f.root, f.scope)
  BY ProvenanceFacts
<1>2. \A f \in ProvenanceOf(x) : \E j \in 1 .. Level(name) : scopes[j].id = f.scope
  BY DEF Outlives
<1>3. TypeOf(name).mut \in BOOLEAN
  BY RootFacts DEF TypeSet
<1> QED BY <1>1, <1>2, <1>3, AsOK DEF ProvOK, LocalRef

\* The blocks, taken apart.
LEMMA BlockFacts ==
    ASSUME NEW al, NEW sc, NEW bs, NEW next, Layout(al, sc, bs, next)
    PROVE  /\ bs \in Seq(BlockSet) /\ Len(bs) \in Nat /\ Len(sc) = Len(bs) + 1
           /\ \A k \in 1 .. Len(bs) :
                 /\ bs[k] \in BlockSet /\ bs[k].arm \in Nat /\ bs[k].arm >= 1
                 /\ bs[k].taken \in Nat /\ bs[k].exits \in BOOLEAN /\ bs[k].allExit \in BOOLEAN
                 /\ bs[k].kind \in {"if", "match", "while"} /\ bs[k].cond \in Conditions
                 /\ bs[k].before \in ViewSet /\ bs[k].states \in SUBSET ViewSet
                 /\ ViewOK(sc, bs[k].before, k)
                 /\ \A st \in bs[k].states : ViewOK(sc, st, k)
<1>1. bs \in Seq(BlockSet) /\ Len(sc) = Len(bs) + 1
  BY DEF Layout, Blocked
<1>2. \A b \in BlockSet :
         /\ b.arm \in Nat /\ b.arm >= 1
         /\ b.taken \in Nat /\ b.exits \in BOOLEAN /\ b.allExit \in BOOLEAN
         /\ b.kind \in {"if", "match", "while"} /\ b.cond \in Conditions
         /\ b.before \in ViewSet /\ b.states \in SUBSET ViewSet
  BY DEF BlockSet
<1> QED BY <1>1, <1>2 DEF Layout, Blocked

\* The innermost block is left; the one around it may be left, too.
LEMMA ExitsFacts ==
    ASSUME NEW bs \in Seq(BlockSet)
    PROVE  /\ Exits(bs) \in Seq(BlockSet) /\ Len(Exits(bs)) = Len(bs)
           /\ \A k \in 1 .. Len(bs) :
                 /\ Exits(bs)[k].before = bs[k].before /\ Exits(bs)[k].states = bs[k].states
                 /\ Exits(bs)[k].kind = bs[k].kind /\ Exits(bs)[k].cond = bs[k].cond
                 /\ Exits(bs)[k].arm = bs[k].arm /\ Exits(bs)[k].taken = bs[k].taken
                 /\ Exits(bs)[k].allExit = bs[k].allExit
                 /\ k # Len(bs) => Exits(bs)[k] = bs[k]
<1>1. CASE bs = <<>>
  BY <1>1 DEF Exits
<1>2. CASE bs # <<>>
  <2> DEFINE m == Len(bs)
             b == [bs[m] EXCEPT !.exits = TRUE]
  <2>1. m \in Nat /\ m \in 1 .. m /\ bs[m] \in BlockSet
    BY <1>2
  <2>2. /\ b \in BlockSet /\ b.before = bs[m].before /\ b.states = bs[m].states
        /\ b.kind = bs[m].kind /\ b.cond = bs[m].cond /\ b.arm = bs[m].arm
        /\ b.taken = bs[m].taken /\ b.allExit = bs[m].allExit
    BY <2>1 DEF BlockSet
  <2> DEFINE e == [bs EXCEPT ![m] = b]
  <2>3. Exits(bs) = e
    BY <1>2 DEF Exits
  <2> HIDE DEF b
  <2>4. /\ e \in Seq(BlockSet) /\ Len(e) = m /\ e[m] = b
        /\ \A k \in 1 .. m : k # m => e[k] = bs[k]
    BY <2>1, <2>2
  <2> QED BY <2>2, <2>3, <2>4
<1> QED BY <1>1, <1>2

\* The innermost block.
LEMMA TopFacts ==
    ASSUME Layout(alphabet, scopes, blocks, nextId), blocks # <<>>
    PROVE  /\ Len(blocks) \in Nat /\ Len(blocks) \in 1 .. Len(blocks) /\ Len(blocks) > 0
           /\ Len(scopes) \in Nat /\ Len(scopes) - 1 = Len(blocks) /\ Len(scopes) > 1
           /\ Top = blocks[Len(blocks)]
           /\ Below \in Seq(BlockSet) /\ Len(Below) = Len(blocks) - 1
           /\ \A k \in 1 .. (Len(blocks) - 1) : Below[k] = blocks[k]
<1>1. blocks \in Seq(BlockSet) /\ Len(blocks) \in Nat /\ Len(scopes) = Len(blocks) + 1
  BY BlockFacts
<1>2. Len(blocks) > 0
  BY <1>1
<1>3. /\ Below \in Seq(BlockSet) /\ Len(Below) = Len(blocks) - 1
      /\ \A k \in 1 .. (Len(blocks) - 1) : Below[k] = blocks[k]
  BY <1>1, <1>2, AllButLast DEF Below
<1> QED BY <1>1, <1>2, <1>3 DEF Top

\* The state at the end of an arm is a view of the scopes around it.
LEMMA OuterView ==
    ASSUME NEW al, NEW sc, NEW bs, NEW next, Layout(al, sc, bs, next), Len(bs) > 0
    PROVE  /\ Snapshot(Outer(sc)) \in ViewSet
           /\ ViewOK(sc, Snapshot(Outer(sc)), Len(sc) - 1)
           /\ \A i \in 1 .. (Len(sc) - 1) : \A n \in DOMAIN sc[i].vars :
                 Snapshot(Outer(sc))[i][n] = sc[i].vars[n].prov
<1> DEFINE u == Outer(sc)
           m == Len(sc) - 1
<1>1. /\ sc \in Seq(ScopeSet) /\ Len(sc) \in Nat /\ m \in Nat /\ Len(sc) > 0
      /\ ViewOK(sc, Snapshot(sc), Len(sc))
  BY DEF Layout, Scoped, Blocked
<1>2. u \in Seq(ScopeSet) /\ Len(u) = m /\ \A i \in 1 .. m : u[i] = sc[i]
  BY <1>1, OuterFacts
<1> HIDE DEF u
<1>3. /\ Snapshot(u) \in ViewSet /\ Len(Snapshot(u)) = m
      /\ \A i \in 1 .. m :
            /\ DOMAIN Snapshot(u)[i] = DOMAIN sc[i].vars
            /\ \A n \in DOMAIN sc[i].vars : Snapshot(u)[i][n] = sc[i].vars[n].prov
  BY ONLY <1>2, SnapshotFacts
<1>4. ASSUME NEW i \in 1 .. m, NEW n \in DOMAIN sc[i].vars
      PROVE  ProvOK(sc, i, n, Snapshot(u)[i][n])
  <2>1. i \in 1 .. Len(sc)
    BY <1>1
  <2>2. ProvOK(sc, i, n, Snapshot(sc)[i][n])
    BY <1>1, <2>1 DEF ViewOK
  <2>3. Snapshot(sc)[i][n] = sc[i].vars[n].prov
    BY <1>1, <2>1, SnapshotFacts
  <2> QED BY <1>3, <2>2, <2>3
<1>5. ViewOK(sc, Snapshot(u), m)
  BY <1>3, <1>4 DEF ViewOK
<1> QED BY <1>3, <1>5 DEF u

\* STMT_BREAK and STMT_CONTINUE: the execution waits in the blocks of the
\* loop.
Waiting(loop) == [k \in 1 .. Len(blocks) |->
                     IF k >= loop THEN [blocks[k] EXCEPT !.taken = 0] ELSE blocks[k]]

LEMMA WaitingFacts ==
    ASSUME Layout(alphabet, scopes, blocks, nextId), NEW loop \in 1 .. Len(blocks)
    PROVE  /\ Waiting(loop) \in Seq(BlockSet) /\ Len(Waiting(loop)) = Len(blocks)
           /\ \A k \in 1 .. Len(blocks) : /\ Waiting(loop)[k].before = blocks[k].before
                                          /\ Waiting(loop)[k].states = blocks[k].states
                                          /\ Waiting(loop)[k].arm = blocks[k].arm
                                          /\ k >= loop => Waiting(loop)[k].taken = 0
<1>1. Len(blocks) \in Nat /\ \A k \in 1 .. Len(blocks) : blocks[k] \in BlockSet
  BY BlockFacts
<1> DEFINE b(k) == [blocks[k] EXCEPT !.taken = 0]
<1>2. \A k \in 1 .. Len(blocks) :
         /\ b(k) \in BlockSet /\ b(k).before = blocks[k].before
         /\ b(k).states = blocks[k].states /\ b(k).arm = blocks[k].arm /\ b(k).taken = 0
  BY <1>1 DEF BlockSet
<1>3. Waiting(loop) = [k \in 1 .. Len(blocks) |-> IF k >= loop THEN b(k) ELSE blocks[k]]
  BY DEF Waiting
<1> HIDE DEF b
<1>4. Waiting(loop) \in [1 .. Len(blocks) -> BlockSet]
  BY <1>1, <1>2, <1>3
<1>5. Waiting(loop) \in Seq(BlockSet) /\ Len(Waiting(loop)) = Len(blocks)
  BY <1>1, <1>4, SeqOfFunction
<1>6. \A k \in 1 .. Len(blocks) : Waiting(loop)[k] = IF k >= loop THEN b(k) ELSE blocks[k]
  BY <1>3
<1> QED BY <1>2, <1>5, <1>6

\* The innermost loop.
Loop == CHOOSE k \in Loops : \A j \in Loops : j <= k

LEMMA LoopFacts ==
    ASSUME Layout(alphabet, scopes, blocks, nextId), Loops # {}
    PROVE  Loop \in 1 .. Len(blocks)
<1> DEFINE n == Len(blocks)
           S == {n - i : i \in Loops}
<1>1. n \in Nat /\ Loops \subseteq 1 .. n
  BY BlockFacts DEF Loops
<1> HIDE DEF n
<1>2. S \in SUBSET Nat /\ S # {}
  BY <1>1
<1>3. PICK m \in S : \A y \in S : m <= y
  BY ONLY <1>2, LeastNat
<1>4. PICK i \in Loops : m = n - i
  BY <1>3
<1>5. \A j \in Loops : j <= i
  <2> TAKE j \in Loops
  <2>1. m <= n - j
    BY <1>3
  <2> QED BY <1>1, <1>4, <2>1
<1>6. Loop \in Loops
  BY <1>5 DEF Loop
<1> QED BY <1>1, <1>6 DEF n

\* The next arm: the scopes around it have the view from before the
\* statement.
LEMMA NextArmFacts ==
    ASSUME Layout(alphabet, scopes, blocks, nextId), NextArm, NEW m, m = Len(blocks)
    PROVE  /\ Layout(alphabet', scopes', blocks', nextId')
           /\ m \in Nat /\ m >= 1 /\ Len(scopes) = m + 1 /\ Len(scopes') = m + 1
           /\ Frame(scopes, scopes', m) /\ Flags(scopes, scopes', m)
           /\ Provs(scopes', blocks[m].before, m)
           /\ DOMAIN scopes'[m + 1].vars = {} /\ scopes'[m + 1].id = nextId
           /\ Len(blocks') = m /\ \A k \in 1 .. (m - 1) : blocks'[k] = blocks[k]
           /\ blocks'[m].kind = blocks[m].kind /\ blocks'[m].cond = blocks[m].cond
           /\ blocks'[m].before = blocks[m].before /\ blocks'[m].taken = blocks[m].taken
           /\ blocks'[m].states = blocks[m].states \cup Captured(blocks[m])
           /\ blocks'[m].arm = blocks[m].arm + 1 /\ blocks'[m].exits = FALSE
           /\ blocks'[m].allExit = (blocks[m].allExit /\ blocks[m].exits)
           /\ blocks[m].kind # "while"
<1> DEFINE mid == Restored(Outer(scopes), Top.before)
           nb == [Top EXCEPT !.states = @ \cup Captured(Top), !.arm = @ + 1,
                             !.exits = FALSE, !.allExit = @ /\ Top.exits]
<1>1. /\ blocks # <<>> /\ blocks' = Append(Below, nb) /\ scopes' = Opened(mid)
      /\ nextId' = nextId + 1 /\ alphabet' = alphabet /\ Top.kind # "while"
  BY DEF NextArm, Statement
<1>2. /\ m \in Nat /\ m >= 1 /\ m > 0 /\ m \in 1 .. m
      /\ Len(scopes) \in Nat /\ Len(scopes) - 1 = m /\ Len(scopes) > 1
      /\ Top = blocks[m] /\ Below \in Seq(BlockSet) /\ Len(Below) = m - 1
      /\ \A k \in 1 .. (m - 1) : Below[k] = blocks[k]
  BY <1>1, TopFacts
<1>3. scopes \in Seq(ScopeSet)
  BY InnerFacts
<1>4. /\ Top \in BlockSet /\ Top.arm \in Nat /\ Top.states \in SUBSET ViewSet
      /\ Top.allExit \in BOOLEAN /\ Top.exits \in BOOLEAN
      /\ ViewOK(scopes, Top.before, m)
      /\ \A st \in Top.states : ViewOK(scopes, st, m)
      /\ \A k \in 1 .. Len(Below) :
            Below[k].before = blocks[k].before /\ Below[k].states = blocks[k].states
  BY <1>2, BlockFacts
<1>5. /\ mid \in Seq(ScopeSet) /\ Len(mid) = m /\ Frame(scopes, mid, m)
      /\ Flags(scopes, mid, m) /\ Provs(mid, Top.before, m)
  <2>1. ViewOK(scopes, Top.before, Len(scopes) - 1)
    BY <1>2, <1>4
  <2>2. /\ mid \in Seq(ScopeSet) /\ Len(mid) = Len(scopes) - 1
        /\ Frame(scopes, mid, Len(scopes) - 1)
        /\ Flags(scopes, mid, Len(scopes) - 1) /\ Provs(mid, Top.before, Len(scopes) - 1)
    BY <1>2, <1>3, <2>1, PoppedFacts
  <2> QED BY <1>2, <2>2
<1>6. Layout(alphabet, mid, Below, nextId)
  BY <1>2, <1>4, PoppedLayout
<1>7. /\ Captured(Top) \subseteq {Snapshot(Outer(scopes))}
      /\ Snapshot(Outer(scopes)) \in ViewSet
      /\ ViewOK(scopes, Snapshot(Outer(scopes)), m)
  BY <1>2, OuterView DEF Captured
<1>8. /\ nb \in BlockSet /\ nb.kind = Top.kind /\ nb.cond = Top.cond
      /\ nb.before = Top.before /\ nb.taken = Top.taken
      /\ nb.states = Top.states \cup Captured(Top) /\ nb.arm = Top.arm + 1
      /\ nb.exits = FALSE /\ nb.allExit = (Top.allExit /\ Top.exits)
  <2> DEFINE S == Top.states \cup Captured(Top)
             all == Top.allExit /\ Top.exits
             arm == Top.arm + 1
  <2>1. S \in SUBSET ViewSet /\ all \in BOOLEAN /\ arm \in Nat \ {0}
    BY <1>4, <1>7
  <2>2. nb = [Top EXCEPT !.states = S, !.arm = arm, !.exits = FALSE, !.allExit = all]
    OBVIOUS
  <2> HIDE DEF S, all, arm, nb
  <2>3. /\ nb \in BlockSet /\ nb.kind = Top.kind /\ nb.cond = Top.cond
        /\ nb.before = Top.before /\ nb.taken = Top.taken
        /\ nb.states = S /\ nb.arm = arm /\ nb.exits = FALSE /\ nb.allExit = all
    BY <1>4, <2>1, <2>2 DEF BlockSet
  <2> QED BY <2>3 DEF S, all, arm
<1> HIDE DEF nb, mid
<1>9. /\ ViewOK(mid, nb.before, Len(mid))
      /\ \A st \in nb.states : ViewOK(mid, st, Len(mid))
  <2>1. m \in 0 .. m
    BY <1>2
  <2>2. \A v : ViewOK(scopes, v, m) => ViewOK(mid, v, m)
    BY <1>2, <1>5, <2>1, ViewMoves
  <2> QED BY <1>4, <1>5, <1>7, <1>8, <2>2
<1>10. scopes' = Append(mid, [id |-> nextId, vars |-> <<>>])
  BY <1>1 DEF Opened
<1>11. Layout(alphabet', scopes', blocks', nextId')
  BY ONLY <1>1, <1>6, <1>8, <1>9, <1>10, OpenLayout
<1>12. nextId \in Nat
  BY DEF Layout, Scoped
<1>13. /\ Len(scopes') = m + 1 /\ \A i \in 1 .. m : scopes'[i] = mid[i]
       /\ scopes'[m + 1].id = nextId /\ DOMAIN scopes'[m + 1].vars = {}
  BY <1>5, <1>10, <1>12, OpenedFacts
<1>14. /\ Frame(scopes, scopes', m) /\ Flags(scopes, scopes', m)
       /\ Provs(scopes', blocks[m].before, m)
  <2>1. \A i \in 1 .. m : scopes'[i] = mid[i]
    BY <1>13
  <2>2. Frame(scopes, scopes', m)
    BY ONLY <1>5, <2>1 DEF Frame
  <2>3. Flags(scopes, scopes', m)
    BY ONLY <1>5, <2>1 DEF Flags
  <2>4. Provs(scopes', blocks[m].before, m)
    BY ONLY <1>2, <1>5, <2>1 DEF Provs
  <2> QED BY <2>2, <2>3, <2>4
<1>15. /\ Len(blocks') = m /\ \A k \in 1 .. (m - 1) : blocks'[k] = blocks[k]
       /\ blocks'[m] = nb
  BY <1>1, <1>2, <1>8
<1>16. Len(scopes) = m + 1
  BY <1>2
<1> QED BY <1>1, <1>2, <1>8, <1>11, <1>13, <1>14, <1>15, <1>16

\* The states that are joined at the end of the statement.
EndStates == Top.states \cup Captured(Top)
                 \cup IF Top.kind = "while" THEN {Top.before} ELSE {}

\* The end of the statement: the scopes around it have a view that says
\* what each of the joined states says.
LEMMA EndBlockFacts ==
    ASSUME Layout(alphabet, scopes, blocks, nextId), EndBlock, NEW m, m = Len(blocks)
    PROVE  /\ Layout(alphabet', scopes', blocks', nextId')
           /\ m \in Nat /\ m >= 1 /\ Len(scopes) = m + 1 /\ Len(scopes') = m
           /\ Frame(scopes, scopes', m) /\ Flags(scopes, scopes', m)
           /\ \A st \in EndStates : \A i \in 1 .. m : \A n \in DOMAIN scopes[i].vars :
                 Dominated(st[i][n], scopes'[i].vars[n].prov)
           /\ Len(blocks') = m - 1
           /\ \A k \in 1 .. (m - 1) :
                 /\ blocks'[k].kind = blocks[k].kind /\ blocks'[k].cond = blocks[k].cond
                 /\ blocks'[k].before = blocks[k].before /\ blocks'[k].taken = blocks[k].taken
                 /\ blocks'[k].states = blocks[k].states /\ blocks'[k].arm = blocks[k].arm
                 /\ blocks'[k].allExit = blocks[k].allExit
                 /\ \/ blocks'[k] = blocks[k]
                    \/ k = m - 1 /\ Top.kind # "while" /\ Top.allExit /\ Top.exits
<1> DEFINE J == Joined(Top.before, EndStates)
<1>1. /\ blocks # <<>> /\ scopes' = Restored(Outer(scopes), J)
      /\ blocks' = IF Top.kind # "while" /\ Top.allExit /\ Top.exits THEN Exits(Below) ELSE Below
      /\ nextId' = nextId /\ alphabet' = alphabet
  BY DEF EndBlock, Statement, EndStates
<1>2. /\ m \in Nat /\ m >= 1 /\ m > 0 /\ m \in 1 .. m
      /\ Len(scopes) \in Nat /\ Len(scopes) - 1 = m /\ Len(scopes) > 1
      /\ Top = blocks[m] /\ Below \in Seq(BlockSet) /\ Len(Below) = m - 1
      /\ \A k \in 1 .. (m - 1) : Below[k] = blocks[k]
  BY <1>1, TopFacts
<1>3. scopes \in Seq(ScopeSet)
  BY InnerFacts
<1>4. /\ ViewOK(scopes, Top.before, m)
      /\ \A st \in Top.states : ViewOK(scopes, st, m)
  BY <1>2, BlockFacts
<1>5. /\ Captured(Top) \subseteq {Snapshot(Outer(scopes))}
      /\ ViewOK(scopes, Snapshot(Outer(scopes)), m)
  BY <1>2, OuterView DEF Captured
<1>6. \A st \in EndStates : ViewOK(scopes, st, m)
  BY <1>4, <1>5 DEF EndStates
<1>7. /\ ViewOK(scopes, J, m)
      /\ \A st \in EndStates : \A i \in 1 .. m : \A n \in DOMAIN scopes[i].vars :
            Dominated(st[i][n], J[i][n])
  BY <1>2, <1>4, <1>6, JoinedFacts
<1> HIDE DEF J
<1>8. /\ Len(scopes') = m /\ Frame(scopes, scopes', m)
      /\ Flags(scopes, scopes', m) /\ Provs(scopes', J, m)
  <2>1. ViewOK(scopes, J, Len(scopes) - 1)
    BY <1>2, <1>7
  <2>2. /\ Len(scopes') = Len(scopes) - 1
        /\ Frame(scopes, scopes', Len(scopes) - 1)
        /\ Flags(scopes, scopes', Len(scopes) - 1) /\ Provs(scopes', J, Len(scopes) - 1)
    BY <1>1, <1>2, <1>3, <2>1, PoppedFacts
  <2> QED BY <1>2, <2>2
<1>9. \A i \in 1 .. m : \A n \in DOMAIN scopes[i].vars : scopes'[i].vars[n].prov = J[i][n]
  BY <1>8 DEF Provs, Frame
<1>10. /\ blocks' \in Seq(BlockSet) /\ Len(blocks') = m - 1
       /\ \A k \in 1 .. (m - 1) :
             /\ blocks'[k].kind = blocks[k].kind /\ blocks'[k].cond = blocks[k].cond
             /\ blocks'[k].before = blocks[k].before /\ blocks'[k].taken = blocks[k].taken
             /\ blocks'[k].states = blocks[k].states /\ blocks'[k].arm = blocks[k].arm
             /\ blocks'[k].allExit = blocks[k].allExit
             /\ \/ blocks'[k] = blocks[k]
                \/ k = m - 1 /\ Top.kind # "while" /\ Top.allExit /\ Top.exits
  <2>1. CASE Top.kind # "while" /\ Top.allExit /\ Top.exits
    <3>1. blocks' = Exits(Below)
      BY <1>1, <2>1
    <3> DEFINE e == Exits(Below)
    <3>2. /\ e \in Seq(BlockSet) /\ Len(e) = m - 1
          /\ \A k \in 1 .. (m - 1) :
                /\ e[k].before = blocks[k].before /\ e[k].states = blocks[k].states
                /\ e[k].kind = blocks[k].kind /\ e[k].cond = blocks[k].cond
                /\ e[k].arm = blocks[k].arm /\ e[k].taken = blocks[k].taken
                /\ e[k].allExit = blocks[k].allExit
                /\ k # m - 1 => e[k] = blocks[k]
      BY <1>2, ExitsFacts
    <3> HIDE DEF e
    <3>3. blocks' = e
      BY <3>1 DEF e
    <3> QED BY <2>1, <3>2, <3>3
  <2>2. CASE ~ (Top.kind # "while" /\ Top.allExit /\ Top.exits)
    <3>1. blocks' = Below
      BY <1>1, <2>2
    <3> QED BY <1>2, <3>1
  <2> QED BY <2>1, <2>2
<1>11. Layout(alphabet', scopes', blocks', nextId')
  <2>1. \A k \in 1 .. Len(blocks') :
           blocks'[k].before = blocks[k].before /\ blocks'[k].states = blocks[k].states
    BY <1>10
  <2>2. ViewOK(scopes, J, Len(scopes) - 1) /\ Len(blocks) > 0
        /\ Len(blocks') = Len(blocks) - 1
    BY <1>2, <1>7, <1>10
  <2>3. Layout(alphabet, scopes', blocks', nextId)
    BY ONLY <1>1, <1>10, <2>1, <2>2, PoppedLayout, Layout(alphabet, scopes, blocks, nextId)
  <2> QED BY <1>1, <2>3
<1>12. Len(scopes) = m + 1
  BY <1>2
<1> QED BY <1>2, <1>7, <1>8, <1>9, <1>10, <1>11, <1>12

\* A binding more in the innermost scope; types and provenances are as before.
Added(sc, t, name, b) ==
    LET k == Len(sc) IN
    /\ Len(t) = k /\ name \notin DOMAIN sc[k].vars
    /\ DOMAIN t[k].vars = DOMAIN sc[k].vars \cup {name} /\ t[k].vars[name] = b
    /\ \A i \in 1 .. k : /\ t[i].id = sc[i].id
                         /\ i # k => DOMAIN t[i].vars = DOMAIN sc[i].vars
                         /\ DOMAIN sc[i].vars \subseteq DOMAIN t[i].vars
    /\ \A i \in 1 .. k : \A n \in DOMAIN sc[i].vars :
          t[i].vars[n].type = sc[i].vars[n].type /\ t[i].vars[n].prov = sc[i].vars[n].prov

\* References, and no other bindings, have a provenance.
Fits(type, prov) == prov # {} <=> IsRef(type)
MoreRefs(sc, t, name, prov) ==
    \A i \in 1 .. Len(sc) :
        RefsOf(t[i]) = IF i = Len(sc) /\ prov # {} THEN RefsOf(sc[i]) \cup {name}
                                                ELSE RefsOf(sc[i])

LEMMA AddedFacts ==
    ASSUME NEW al, NEW sc, NEW bs, NEW next, Layout(al, sc, bs, next),
           NEW name \in AllNames, name \notin DOMAIN sc[Len(sc)].vars,
           NEW type \in TypeSet, NEW prov, Around(sc, Len(sc), prov),
           Fits(type, prov),
           NEW t, t = BindingPut(sc, Len(sc), name, Binding(type, prov))
    PROVE  /\ Layout(al, t, bs, next) /\ Added(sc, t, name, Binding(type, prov))
           /\ Flags(sc, t, Len(sc))
           /\ MoreRefs(sc, t, name, prov)
<1> DEFINE b == Binding(type, prov)
           k == Len(sc)
<1>1. sc \in Seq(ScopeSet) /\ k \in Nat /\ k \in 1 .. k
  BY DEF Layout, Scoped
<1>2. b \in BindingSet /\ b.type = type /\ b.prov = prov
  BY BindingIn DEF Around
<1> HIDE DEF b, k
<1>3. t = BindingPut(sc, k, name, b) /\ name \notin DOMAIN sc[k].vars /\ k = Len(sc)
      /\ Around(sc, k, b.prov) /\ (b.prov # {} <=> IsRef(b.type))
  BY <1>2 DEF b, k, Fits
<1>4. Layout(al, t, bs, next)
  BY <1>2, <1>3, DeclareLayout
<1>5. /\ t \in Seq(ScopeSet) /\ Len(t) = Len(sc)
      /\ \A i \in 1 .. Len(sc) : t[i].id = sc[i].id
      /\ \A i \in 1 .. Len(sc) : i # k => t[i] = sc[i]
      /\ DOMAIN t[k].vars = DOMAIN sc[k].vars \cup {name}
      /\ t[k].vars[name] = b
      /\ \A n \in DOMAIN sc[k].vars : t[k].vars[n] = sc[k].vars[n]
  <2>1. k \in 1 .. Len(sc)
    BY <1>1, <1>3
  <2> QED BY ONLY <1>1, <1>2, <1>3, <2>1, DeclaredFacts, name \in AllNames
<1>6. \A i \in 1 .. k : \A n \in DOMAIN sc[i].vars : t[i].vars[n] = sc[i].vars[n]
  BY <1>3, <1>5
<1>7. Added(sc, t, name, b)
  BY <1>3, <1>5, <1>6 DEF Added
<1>8. Flags(sc, t, Len(sc))
  BY <1>3, <1>6 DEF Flags
<1>9. ASSUME NEW i \in 1 .. k
      PROVE  RefsOf(t[i]) = IF i = k /\ prov # {} THEN RefsOf(sc[i]) \cup {name} ELSE RefsOf(sc[i])
  <2>1. \A n \in DOMAIN sc[i].vars : n \in RefsOf(t[i]) <=> n \in RefsOf(sc[i])
    BY <1>3, <1>5, <1>6 DEF RefsOf
  <2>2. RefsOf(sc[i]) \subseteq DOMAIN sc[i].vars /\ RefsOf(t[i]) \subseteq DOMAIN t[i].vars
    BY DEF RefsOf
  <2>3. CASE i = k
    <3>1. ~ IsParam(name, sc[k].id)
      BY <1>1, <1>3 DEF Layout, Scoped, IsParam
    <3>2. name \in RefsOf(t[k]) <=> prov # {}
      BY <1>1, <1>2, <1>3, <1>5, <3>1 DEF RefsOf
    <3>3. DOMAIN t[k].vars = DOMAIN sc[k].vars \cup {name} /\ name \notin DOMAIN sc[k].vars
      BY <1>3, <1>5
    <3>4. CASE prov # {}
      <4>1. RefsOf(t[k]) \subseteq {name} \cup DOMAIN sc[k].vars /\ RefsOf(sc[k]) \subseteq DOMAIN sc[k].vars
        BY <2>2, <2>3, <3>2, <3>3, <3>4
      <4>2. \A n \in DOMAIN sc[k].vars : n \in RefsOf(t[k]) <=> n \in RefsOf(sc[k])
        BY <2>1, <2>3
      <4>3. RefsOf(t[k]) = RefsOf(sc[k]) \cup {name}
        BY <3>2, <3>4, <4>1, <4>2
      <4> QED BY <2>3, <3>4, <4>3
    <3>5. CASE prov = {}
      <4>1. RefsOf(t[k]) \subseteq DOMAIN sc[k].vars /\ RefsOf(sc[k]) \subseteq DOMAIN sc[k].vars
        BY <2>2, <2>3, <3>2, <3>3, <3>5
      <4>2. \A n \in DOMAIN sc[k].vars : n \in RefsOf(t[k]) <=> n \in RefsOf(sc[k])
        BY <2>1, <2>3
      <4>3. RefsOf(t[k]) = RefsOf(sc[k])
        BY <3>2, <3>5, <4>1, <4>2
      <4> QED BY <2>3, <3>5, <4>3
    <3> QED BY <3>4, <3>5
  <2>4. CASE i # k
    BY <1>3, <1>5, <2>4
  <2> QED BY <2>3, <2>4
<1> QED BY <1>3, <1>4, <1>7, <1>8, <1>9 DEF b, MoreRefs

\* STMT_LET of a value.
LEMMA LetValueFacts ==
    ASSUME Layout(alphabet, scopes, blocks, nextId), NEW name,
           \/ name \in alphabet.shapes /\ LetShape(name)
           \/ name \in alphabet.owns /\ LetOwned(name)
    PROVE  /\ Layout(alphabet', scopes', blocks', nextId')
           /\ \E b : Added(scopes, scopes', name, b) /\ b.prov = {}
           /\ Flags(scopes, scopes', Len(scopes))
           /\ \A i \in 1 .. Len(scopes) : RefsOf(scopes'[i]) = RefsOf(scopes[i])
<1>1. /\ alphabet' = alphabet /\ blocks' = blocks /\ nextId' = nextId /\ Fresh(name)
  BY DEF LetShape, LetOwned, Statement
<1>2. name \notin DOMAIN scopes[Len(scopes)].vars
  BY <1>1, InnerFacts DEF Fresh
<1>3. alphabet \in Alphabets
  BY InnerFacts
<1>4. name \in AllNames /\ Around(scopes, Len(scopes), {})
  BY <1>3, Kinds DEF Around
<1>5. \E type \in TypeSet : /\ ~ IsRef(type)
                            /\ scopes' = BindingPut(scopes, Len(scopes), name, Binding(type, {}))
  <2>1. CASE name \in alphabet.shapes /\ LetShape(name)
    <3>1. ShapeType \in TypeSet /\ ~ IsRef(ShapeType)
      BY DEF ShapeType, TypeSet, IsRef
    <3>2. scopes' = BindingPut(scopes, Len(scopes), name, Binding(ShapeType, {}))
      BY <2>1 DEF LetShape, Declared, BindingPut
    <3> QED BY <2>1, <3>1, <3>2
  <2>2. CASE name \in alphabet.owns /\ LetOwned(name)
    <3>1. OwnedType \in TypeSet /\ ~ IsRef(OwnedType)
      BY DEF OwnedType, TypeSet, IsRef
    <3>2. scopes' = BindingPut(scopes, Len(scopes), name, Binding(OwnedType, {}))
      BY <2>2 DEF LetOwned, Declared, BindingPut
    <3> QED BY <2>2, <3>1, <3>2
  <2> QED BY <2>1, <2>2
<1>6. PICK type \in TypeSet : /\ ~ IsRef(type)
                              /\ scopes' = BindingPut(scopes, Len(scopes), name, Binding(type, {}))
  BY <1>5
<1>7. /\ Layout(alphabet, scopes', blocks, nextId)
      /\ Added(scopes, scopes', name, Binding(type, {}))
      /\ Flags(scopes, scopes', Len(scopes))
      /\ \A i \in 1 .. Len(scopes) : RefsOf(scopes'[i]) = RefsOf(scopes[i])
  <2>1. /\ Fits(type, {})
        /\ name \notin DOMAIN scopes[Len(scopes)].vars /\ name \in AllNames
        /\ Around(scopes, Len(scopes), {}) /\ Layout(alphabet, scopes, blocks, nextId)
        /\ type \in TypeSet
    BY <1>2, <1>4, <1>6 DEF Fits
  <2>2. scopes' = BindingPut(scopes, Len(scopes), name, Binding(type, {}))
    BY <1>6
  <2>3. /\ Layout(alphabet, scopes', blocks, nextId)
        /\ Added(scopes, scopes', name, Binding(type, {}))
        /\ Flags(scopes, scopes', Len(scopes))
        /\ MoreRefs(scopes, scopes', name, {})
    BY ONLY <2>1, <2>2, AddedFacts
  <2> QED BY <2>3 DEF MoreRefs
<1>8. Binding(type, {}).prov = {}
  BY DEF Binding
<1> QED BY <1>1, <1>4, <1>7, <1>8

\* STMT_LET of a reference.
LEMMA LetRefFacts ==
    ASSUME Layout(alphabet, scopes, blocks, nextId), NEW name \in alphabet.refs,
           NEW x \in Exprs, LetRef(name, x), ExprAllowed(x, AllEntries)
    PROVE  /\ Layout(alphabet', scopes', blocks', nextId')
           /\ Added(scopes, scopes', name, Binding(TypeOfExpr(x), LetProvenance(name, x)))
           /\ Flags(scopes, scopes', Len(scopes)) /\ WellFormed(x)
           /\ \A i \in 1 .. Len(scopes) :
                 RefsOf(scopes'[i]) = IF i = Len(scopes) THEN RefsOf(scopes[i]) \cup {name}
                                                        ELSE RefsOf(scopes[i])
<1>1. /\ alphabet' = alphabet /\ blocks' = blocks /\ nextId' = nextId /\ Fresh(name)
      /\ WellFormed(x)
      /\ scopes' = BindingPut(scopes, Len(scopes), name,
                              Binding(TypeOfExpr(x), LetProvenance(name, x)))
  BY DEF LetRef, Statement, Declared, BindingPut
<1>2. name \notin DOMAIN scopes[Len(scopes)].vars /\ name \in AllNames
  BY <1>1, InnerFacts, Kinds DEF Fresh
<1>3. TypeOfExpr(x) \in TypeSet /\ IsRef(TypeOfExpr(x))
  BY <1>1, ExprType DEF IsRef
<1>4. Around(scopes, Len(scopes), LetProvenance(name, x)) /\ LetProvenance(name, x) # {}
  BY <1>1, LetProvenanceOK
<1>5. /\ Layout(alphabet, scopes', blocks, nextId)
      /\ Added(scopes, scopes', name, Binding(TypeOfExpr(x), LetProvenance(name, x)))
      /\ Flags(scopes, scopes', Len(scopes))
      /\ \A i \in 1 .. Len(scopes) :
            RefsOf(scopes'[i]) = IF i = Len(scopes) THEN RefsOf(scopes[i]) \cup {name}
                                                   ELSE RefsOf(scopes[i])
  <2> DEFINE P == LetProvenance(name, x)
             type == TypeOfExpr(x)
  <2>1. /\ Fits(type, P)
        /\ name \notin DOMAIN scopes[Len(scopes)].vars /\ name \in AllNames
        /\ Around(scopes, Len(scopes), P) /\ Layout(alphabet, scopes, blocks, nextId)
        /\ type \in TypeSet
    BY <1>2, <1>3, <1>4 DEF Fits
  <2>2. scopes' = BindingPut(scopes, Len(scopes), name, Binding(type, P))
    BY <1>1
  <2>3. P # {}
    BY <1>4
  <2> HIDE DEF P, type
  <2>4. /\ Layout(alphabet, scopes', blocks, nextId)
        /\ Added(scopes, scopes', name, Binding(type, P))
        /\ Flags(scopes, scopes', Len(scopes))
        /\ MoreRefs(scopes, scopes', name, P)
    BY ONLY <2>1, <2>2, AddedFacts
  <2> QED BY <2>3, <2>4 DEF P, type, MoreRefs
<1> QED BY <1>1, <1>5

Mark(sc, k, n) == FlagPut(sc, k, n, TRUE)
Clear(sc, k, n) == FlagPut(sc, k, n, FALSE)

\* A value that is moved away is marked; one that is assigned is not.
LEMMA MarkedFacts ==
    ASSUME NEW sc \in Seq(ScopeSet), NEW k \in 1 .. Len(sc), NEW n \in DOMAIN sc[k].vars,
           NEW t, t = Mark(sc, k, n)
    PROVE  /\ t \in Seq(ScopeSet) /\ Len(t) = Len(sc)
           /\ Frame(sc, t, Len(sc)) /\ Provs(t, Snapshot(sc), Len(sc))
           /\ t[k].vars[n].moved
           /\ \A i \in 1 .. Len(sc) : \A x \in DOMAIN sc[i].vars :
                 i # k \/ x # n => t[i].vars[x].moved = sc[i].vars[x].moved
<1>1. PICK m \in BOOLEAN : m = TRUE
  OBVIOUS
<1>2. t = FlagPut(sc, k, n, m)
  BY <1>1 DEF Mark, Clear
<1>3. /\ t \in Seq(ScopeSet) /\ Len(t) = Len(sc)
      /\ Frame(sc, t, Len(sc)) /\ Provs(t, Snapshot(sc), Len(sc))
      /\ \A i \in 1 .. Len(sc) : \A x \in DOMAIN sc[i].vars :
            i # k \/ x # n => t[i].vars[x].moved = sc[i].vars[x].moved
  BY ONLY <1>2, FlagSet, sc \in Seq(ScopeSet), k \in 1 .. Len(sc), n \in DOMAIN sc[k].vars
<1>4. t[k].vars[n].moved = m
  BY ONLY <1>2, FlagSet, sc \in Seq(ScopeSet), k \in 1 .. Len(sc), n \in DOMAIN sc[k].vars
<1> QED BY <1>1, <1>3, <1>4

LEMMA ClearedFacts ==
    ASSUME NEW sc \in Seq(ScopeSet), NEW k \in 1 .. Len(sc), NEW n \in DOMAIN sc[k].vars,
           NEW t, t = Clear(sc, k, n)
    PROVE  /\ t \in Seq(ScopeSet) /\ Len(t) = Len(sc)
           /\ Frame(sc, t, Len(sc)) /\ Provs(t, Snapshot(sc), Len(sc))
           /\ \A i \in 1 .. Len(sc) : \A x \in DOMAIN sc[i].vars :
                 i # k \/ x # n => t[i].vars[x].moved = sc[i].vars[x].moved
<1>1. PICK m \in BOOLEAN : m = FALSE
  OBVIOUS
<1>2. t = FlagPut(sc, k, n, m)
  BY <1>1 DEF Mark, Clear
<1> QED BY ONLY <1>2, FlagSet, sc \in Seq(ScopeSet), k \in 1 .. Len(sc), n \in DOMAIN sc[k].vars

\* STMT_LET of an owned value that is moved into the binding.
LEMMA LetMovedFacts ==
    ASSUME Layout(alphabet, scopes, blocks, nextId),
           NEW name \in alphabet.owns, NEW from \in alphabet.owns,
           LetMoved(name, from), MoveAllowed(from)
    PROVE  /\ Layout(alphabet', scopes', blocks', nextId')
           /\ \A i \in 1 .. Len(scopes) : RefsOf(scopes'[i]) = RefsOf(scopes[i])
           /\ \E b : Added(scopes, scopes', name, b) /\ b.prov = {}
           /\ InScope(from) /\ scopes'[Level(from)].vars[from].moved
           /\ \A i \in 1 .. Len(scopes) : \A n \in DOMAIN scopes[i].vars :
                 i # Level(from) \/ n # from => scopes'[i].vars[n].moved = scopes[i].vars[n].moved
<1> DEFINE mid == Mark(scopes, Level(from), from)
           b == Binding(OwnedType, {})
<1>1. /\ alphabet' = alphabet /\ blocks' = blocks /\ nextId' = nextId /\ Fresh(name)
      /\ InScope(from) /\ scopes' = BindingPut(mid, Len(scopes), name, b)
  BY DEF LetMoved, Owned, Statement, WithMoved, Mark, FlagPut, BindingPut
<1>2. name \notin DOMAIN scopes[Len(scopes)].vars /\ scopes \in Seq(ScopeSet)
      /\ Len(scopes) \in Nat /\ Len(scopes) \in 1 .. Len(scopes) /\ alphabet \in Alphabets
  BY <1>1, InnerFacts DEF Fresh
<1>3. Level(from) \in 1 .. Len(scopes) /\ from \in DOMAIN scopes[Level(from)].vars
  BY <1>1, RootFacts
<1>4. /\ mid \in Seq(ScopeSet) /\ Len(mid) = Len(scopes) /\ Frame(scopes, mid, Len(scopes))
      /\ Provs(mid, Snapshot(scopes), Len(scopes)) /\ mid[Level(from)].vars[from].moved
      /\ \A i \in 1 .. Len(scopes) : \A n \in DOMAIN scopes[i].vars :
            i # Level(from) \/ n # from => mid[i].vars[n].moved = scopes[i].vars[n].moved
  BY <1>2, <1>3, MarkedFacts
<1>5. Layout(alphabet, mid, blocks, nextId)
  BY <1>3, FlagLayout DEF Mark
<1> HIDE DEF mid
<1>6. name \in AllNames /\ Around(mid, Len(mid), {})
  BY <1>2, Kinds DEF Around
<1>7. OwnedType \in TypeSet /\ ~ IsRef(OwnedType)
  BY DEF OwnedType, TypeSet, IsRef
<1>8. name \notin DOMAIN mid[Len(mid)].vars
  BY <1>2, <1>4 DEF Frame
<1>9. /\ Layout(alphabet, scopes', blocks, nextId) /\ Added(mid, scopes', name, b)
      /\ Flags(mid, scopes', Len(mid))
      /\ \A i \in 1 .. Len(mid) : RefsOf(scopes'[i]) = RefsOf(mid[i])
  <2>1. /\ Fits(OwnedType, {})
        /\ name \notin DOMAIN mid[Len(mid)].vars /\ name \in AllNames
        /\ Around(mid, Len(mid), {}) /\ Layout(alphabet, mid, blocks, nextId)
        /\ OwnedType \in TypeSet
    BY <1>5, <1>6, <1>7, <1>8 DEF Fits
  <2>2. scopes' = BindingPut(mid, Len(mid), name, Binding(OwnedType, {}))
    BY <1>1, <1>4
  <2>3. /\ Layout(alphabet, scopes', blocks, nextId)
        /\ Added(mid, scopes', name, Binding(OwnedType, {}))
        /\ Flags(mid, scopes', Len(mid))
        /\ MoreRefs(mid, scopes', name, {})
    BY ONLY <2>1, <2>2, AddedFacts
  <2> QED BY <2>3 DEF MoreRefs
<1>10. \A i \in 1 .. Len(scopes) : \A n \in DOMAIN scopes[i].vars :
          mid[i].vars[n].prov = scopes[i].vars[n].prov
  BY <1>2, <1>4, SnapshotFacts DEF Provs, Frame
<1>11. Added(scopes, scopes', name, b)
  <2>1. /\ Len(mid) = Len(scopes)
        /\ \A i \in 1 .. Len(scopes) :
              /\ mid[i].id = scopes[i].id /\ DOMAIN mid[i].vars = DOMAIN scopes[i].vars
              /\ \A n \in DOMAIN scopes[i].vars :
                    /\ mid[i].vars[n].type = scopes[i].vars[n].type
                    /\ mid[i].vars[n].prov = scopes[i].vars[n].prov
    BY <1>4, <1>10 DEF Frame
  <2> HIDE DEF b
  <2>2. Added(mid, scopes', name, b)
    BY <1>9 DEF b
  <2>3. Len(scopes) \in 1 .. Len(scopes)
    BY <1>2
  <2> DEFINE k == Len(scopes)
  <2>4. /\ Len(scopes') = k /\ name \notin DOMAIN mid[k].vars
        /\ DOMAIN scopes'[k].vars = DOMAIN mid[k].vars \cup {name} /\ scopes'[k].vars[name] = b
        /\ \A i \in 1 .. k : /\ scopes'[i].id = mid[i].id
                             /\ i # k => DOMAIN scopes'[i].vars = DOMAIN mid[i].vars
                             /\ DOMAIN mid[i].vars \subseteq DOMAIN scopes'[i].vars
        /\ \A i \in 1 .. k : \A n \in DOMAIN mid[i].vars :
              /\ scopes'[i].vars[n].type = mid[i].vars[n].type
              /\ scopes'[i].vars[n].prov = mid[i].vars[n].prov
    BY ONLY <2>1, <2>2 DEF Added
  <2>5. DOMAIN mid[k].vars = DOMAIN scopes[k].vars
    BY <2>1, <2>3
  <2>6. \A i \in 1 .. k : /\ scopes'[i].id = scopes[i].id
                          /\ i # k => DOMAIN scopes'[i].vars = DOMAIN scopes[i].vars
                          /\ DOMAIN scopes[i].vars \subseteq DOMAIN scopes'[i].vars
    BY ONLY <2>1, <2>4
  <2>7. \A i \in 1 .. k : \A n \in DOMAIN scopes[i].vars :
           /\ scopes'[i].vars[n].type = scopes[i].vars[n].type
           /\ scopes'[i].vars[n].prov = scopes[i].vars[n].prov
    BY ONLY <2>1, <2>4
  <2> QED BY <2>4, <2>5, <2>6, <2>7 DEF Added
<1>14. \A i \in 1 .. Len(scopes) : RefsOf(mid[i]) = RefsOf(scopes[i])
  BY <1>4, FrameRefs
<1>12. b.prov = {}
  BY DEF Binding
<1>13. \A i \in 1 .. Len(scopes) : \A n \in DOMAIN scopes[i].vars :
          scopes'[i].vars[n].moved = mid[i].vars[n].moved
  BY <1>4, <1>9 DEF Flags, Frame
<1> HIDE DEF b
<1> QED BY <1>1, <1>3, <1>4, <1>4, <1>6, <1>9, <1>11, <1>12, <1>13, <1>14

\* An owned value is moved away, or assigned.
LEMMA MovedFacts ==
    ASSUME Layout(alphabet, scopes, blocks, nextId), NEW n, InScope(n),
           NEW t, t = Mark(scopes, Level(n), n) \/ t = Clear(scopes, Level(n), n)
    PROVE  /\ Layout(alphabet, t, blocks, nextId)
           /\ Len(t) = Len(scopes) /\ Frame(scopes, t, Len(scopes))
           /\ \A i \in 1 .. Len(scopes) : \A x \in DOMAIN scopes[i].vars :
                 /\ t[i].vars[x].prov = scopes[i].vars[x].prov
                 /\ i # Level(n) \/ x # n => t[i].vars[x].moved = scopes[i].vars[x].moved
           /\ t = Mark(scopes, Level(n), n) => t[Level(n)].vars[n].moved
<1>1. scopes \in Seq(ScopeSet)
  BY InnerFacts
<1>2. Level(n) \in 1 .. Len(scopes) /\ n \in DOMAIN scopes[Level(n)].vars
  BY RootFacts
<1> DEFINE k == Level(n)
<1> HIDE DEF k
<1>3. k \in 1 .. Len(scopes) /\ n \in DOMAIN scopes[k].vars
  BY <1>2 DEF k
<1>4. /\ Layout(alphabet, t, blocks, nextId)
      /\ Len(t) = Len(scopes) /\ Frame(scopes, t, Len(scopes))
      /\ Provs(t, Snapshot(scopes), Len(scopes))
      /\ \A i \in 1 .. Len(scopes) : \A x \in DOMAIN scopes[i].vars :
            i # k \/ x # n => t[i].vars[x].moved = scopes[i].vars[x].moved
      /\ t = Mark(scopes, k, n) => t[k].vars[n].moved
  <2>1. CASE t = Mark(scopes, k, n)
    <3>1. Layout(alphabet, t, blocks, nextId)
      BY <1>3, <2>1, FlagLayout DEF Mark
    <3> QED BY <1>1, <1>3, <2>1, <3>1, MarkedFacts
  <2>2. CASE t = Clear(scopes, k, n) /\ t # Mark(scopes, k, n)
    <3>1. Layout(alphabet, t, blocks, nextId)
      BY <1>3, <2>2, FlagLayout DEF Clear
    <3> QED BY <1>1, <1>3, <2>2, <3>1, ClearedFacts
  <2> QED BY <2>1, <2>2 DEF k
<1>5. \A i \in 1 .. Len(scopes) : \A x \in DOMAIN scopes[i].vars :
         t[i].vars[x].prov = scopes[i].vars[x].prov
  BY <1>1, <1>4, SnapshotFacts DEF Provs, Frame
<1> QED BY <1>4, <1>5 DEF k

\* A reference is assigned.
LEMMA SetRefFacts ==
    ASSUME Layout(alphabet, scopes, blocks, nextId), NEW name,
           NEW x \in Exprs, SetRef(name, x), Outlives(ProvenanceOf(x), Level(name)),
           AssignAllowed(name, Whole), ExprAllowed(x, EntriesWithout(name))
    PROVE  /\ Layout(alphabet', scopes', blocks', nextId')
           /\ Len(scopes') = Len(scopes) /\ Frame(scopes, scopes', Len(scopes))
           /\ Flags(scopes, scopes', Len(scopes))
           /\ scopes'[Level(name)].vars[name].prov = As(ProvenanceOf(x), TypeOf(name).mut)
           /\ \A i \in 1 .. Len(scopes) : \A n \in DOMAIN scopes[i].vars :
                 i # Level(name) \/ n # name => scopes'[i].vars[n].prov = scopes[i].vars[n].prov
           /\ WellFormed(x) /\ InScope(name) /\ TypeOfExpr(x) = TypeOf(name) /\ LocalRef(name)
<1> DEFINE P == As(ProvenanceOf(x), TypeOf(name).mut)
           k == Level(name)
<1>1. /\ alphabet' = alphabet /\ blocks' = blocks /\ nextId' = nextId
      /\ WellFormed(x) /\ InScope(name) /\ TypeOfExpr(x) = TypeOf(name)
      /\ scopes' = ProvPut(scopes, k, name, P) /\ ~ IsParam(name, ScopeOf(name))
  BY DEF SetRef, Statement, WithProv, ProvPut
<1>7. LocalRef(name)
  BY <1>1, ExprType, RootFacts DEF IsRef
<1>2. ProvOK(scopes, k, name, P)
  BY <1>1, <1>7, SetProvenanceOK
<1>3. k \in 1 .. Len(scopes) /\ name \in DOMAIN scopes[k].vars /\ scopes \in Seq(ScopeSet)
  BY <1>1, RootFacts, InnerFacts
<1> HIDE DEF P, k
<1>4. Layout(alphabet, scopes', blocks, nextId)
  BY <1>1, <1>2, <1>3, ProvLayout
<1>5. P \in SUBSET EntrySet
  BY <1>2 DEF ProvOK, Around
<1>6. /\ Len(scopes') = Len(scopes) /\ Frame(scopes, scopes', Len(scopes))
      /\ Flags(scopes, scopes', Len(scopes))
      /\ scopes'[k].vars[name].prov = P
      /\ \A i \in 1 .. Len(scopes) : \A n \in DOMAIN scopes[i].vars :
            i # k \/ n # name => scopes'[i].vars[n].prov = scopes[i].vars[n].prov
  BY <1>1, <1>3, <1>5, ProvSet
<1> QED BY <1>1, <1>4, <1>6, <1>7 DEF P, k

\* A block that is begun; the execution, if it is here, takes one of its arms.
Begun(b, kind, cond) ==
    /\ b.kind = kind /\ b.cond = cond /\ b.before = Snapshot(scopes)
    /\ b.states = {} /\ b.arm = 1 /\ b.exits = FALSE /\ b.allExit = TRUE
    /\ ~ Running => b.taken = 0
    /\ Running =>
          /\ kind = "if" => b.taken \in 1 .. 2
          /\ kind = "match" => b.taken \in 1 .. MaxArms
          /\ kind = "while" => b.taken \in 0 .. 1
          /\ kind = "if" /\ cond # "unknown" => b.taken = IF cond = "true" THEN 1 ELSE 2
          /\ kind = "while" /\ cond # "unknown" => b.taken = IF cond = "true" THEN 1 ELSE 0

LEMMA OpenFacts ==
    ASSUME Layout(alphabet, scopes, blocks, nextId), NEW kind \in {"if", "match", "while"},
           NEW cond \in Conditions, Open(kind, cond), NEW m, m = Len(blocks)
    PROVE  /\ Layout(alphabet', scopes', blocks', nextId')
           /\ m \in Nat /\ Len(scopes) = m + 1 /\ Len(scopes') = m + 2
           /\ \A i \in 1 .. (m + 1) : scopes'[i] = scopes[i]
           /\ DOMAIN scopes'[m + 2].vars = {} /\ scopes'[m + 2].id = nextId
           /\ Len(blocks') = m + 1 /\ \A k \in 1 .. m : blocks'[k] = blocks[k]
           /\ Begun(blocks'[m + 1], kind, cond)
<1> DEFINE B(taken) ==
              [kind |-> kind, cond |-> cond, before |-> Snapshot(scopes), states |-> {},
               arm |-> 1, exits |-> FALSE, allExit |-> TRUE, taken |-> taken]
           Chosen(taken) == /\ kind = "if" => taken \in 1 .. 2
                            /\ kind = "match" => taken \in 1 .. MaxArms
                            /\ kind = "while" => taken \in 0 .. 1
                            /\ kind = "if" /\ cond # "unknown" =>
                                  taken = IF cond = "true" THEN 1 ELSE 2
                            /\ kind = "while" /\ cond # "unknown" =>
                                  taken = IF cond = "true" THEN 1 ELSE 0
<1>1. /\ alphabet' = alphabet /\ nextId' = nextId + 1
      /\ scopes' = Append(scopes, [id |-> nextId, vars |-> <<>>])
  BY DEF Open, Statement, Opened
<1>2. /\ scopes \in Seq(ScopeSet) /\ nextId \in Nat /\ blocks \in Seq(BlockSet)
      /\ m \in Nat /\ Len(scopes) = m + 1 /\ ViewOK(scopes, Snapshot(scopes), Len(scopes))
  BY BlockFacts DEF Layout, Scoped
<1>3. PICK taken \in Nat : /\ blocks' = Append(blocks, B(taken))
                           /\ ~ Running => taken = 0
                           /\ Running => Chosen(taken)
  <2>1. PICK tk \in 0 .. MaxArms :
           /\ kind = "if" => tk \in 1 .. 2
           /\ kind = "match" => tk \in 1 .. MaxArms
           /\ kind = "while" => tk \in 0 .. 1
           /\ blocks' = Append(blocks, B(IF Running THEN tk ELSE 0))
           /\ Running =>
                CASE kind = "match" -> TRUE
                  [] kind = "if" -> cond # "unknown" => tk = IF cond = "true" THEN 1 ELSE 2
                  [] kind = "while" -> cond # "unknown" => tk = IF cond = "true" THEN 1 ELSE 0
    BY DEF Open
  <2>2. tk \in Nat
    BY BorrowsAssumption DEF BorrowsAssumption
  <2>3. CASE Running
    <3>1. Chosen(tk)
      <4>1. CASE kind = "if"
        BY <2>1, <2>3, <4>1
      <4>2. CASE kind = "match"
        BY <2>1, <4>2
      <4>3. CASE kind = "while"
        BY <2>1, <2>3, <4>3
      <4> QED BY <4>1, <4>2, <4>3
    <3>2. blocks' = Append(blocks, B(tk))
      BY <2>1, <2>3
    <3> QED BY <2>2, <2>3, <3>1, <3>2
  <2>4. CASE ~ Running
    BY <2>1, <2>4
  <2> QED BY <2>3, <2>4
<1> DEFINE nb == B(taken)
<1>4. /\ nb \in BlockSet /\ nb.kind = kind /\ nb.cond = cond /\ nb.before = Snapshot(scopes)
      /\ nb.states = {} /\ nb.arm = 1 /\ nb.exits = FALSE /\ nb.allExit = TRUE
      /\ nb.taken = taken
  <2>1. Snapshot(scopes) \in ViewSet
    BY <1>2, SnapshotFacts
  <2> QED BY <2>1 DEF BlockSet
<1> HIDE DEF B
<1>5. blocks' = Append(blocks, nb)
  BY <1>3
<1> HIDE DEF nb
<1>6. Layout(alphabet', scopes', blocks', nextId')
  <2>1. ViewOK(scopes, nb.before, Len(scopes))
        /\ \A st \in nb.states : ViewOK(scopes, st, Len(scopes))
    BY <1>2, <1>4
  <2>2. nb \in BlockSet
    BY <1>4
  <2> QED BY ONLY <1>1, <1>5, <2>1, <2>2, OpenLayout, Layout(alphabet, scopes, blocks, nextId)
<1>7. /\ Len(scopes') = Len(scopes) + 1
      /\ \A i \in 1 .. Len(scopes) : scopes'[i] = scopes[i]
      /\ scopes'[Len(scopes) + 1].id = nextId /\ DOMAIN scopes'[Len(scopes) + 1].vars = {}
  BY <1>1, <1>2, OpenedFacts
<1>8. /\ Len(scopes') = m + 2 /\ \A i \in 1 .. (m + 1) : scopes'[i] = scopes[i]
      /\ scopes'[m + 2].id = nextId /\ DOMAIN scopes'[m + 2].vars = {}
  <2>1. Len(scopes) + 1 = m + 2
    BY <1>2
  <2> QED BY <1>2, <1>7, <2>1
<1>9. /\ Len(blocks') = m + 1 /\ \A k \in 1 .. m : blocks'[k] = blocks[k]
      /\ blocks'[m + 1] = nb
  BY <1>2, <1>4, <1>5
<1>10. Begun(blocks'[m + 1], kind, cond)
  BY <1>3, <1>4, <1>9 DEF Begun
<1> QED BY <1>2, <1>6, <1>8, <1>9, <1>10

----------------------------------------------------------------------------
(* The steps, one kind at a time. *)

Unmoved == UNCHANGED <<alphabet, scopes, blocks, nextId, runVars>>
LetValue == \E n : \/ n \in alphabet.shapes /\ LetShape(n)
                   \/ n \in alphabet.owns /\ LetOwned(n)
LetReference == \E n \in alphabet.refs, x \in Exprs : LetRef(n, x) /\ ExprAllowed(x, AllEntries)
LetFrom == \E n, m \in alphabet.owns : LetMoved(n, m) /\ MoveAllowed(m)
MoveOut == \E n \in alphabet.owns : MoveAway(n) /\ MoveAllowed(n)
Refill == \E n \in alphabet.owns : SetOwned(n) /\ AssignAllowed(n, Whole)
SetAllowed(n, x) == /\ AssignAllowed(n, Whole) /\ ExprAllowed(x, EntriesWithout(n))
                    /\ Outlives(ProvenanceOf(x), Level(n))
SetReference == \E n \in alphabet.refs, x \in Exprs : SetRef(n, x) /\ SetAllowed(n, x)
OpenBlock == \E k \in {"if", "match", "while"}, c \in Conditions : Open(k, c)
LeaveLoop == Jump /\ Loops # {}
LeaveBody == Return \/ \E x \in Exprs : /\ ReturnRef(x) /\ ExprAllowed(x, AllEntries)
                                        /\ MayReturn(ProvenanceOf(x))

Steps == \/ Unmoved \/ LetValue \/ LetReference \/ LetFrom \/ MoveOut \/ Refill
         \/ SetReference \/ OpenBlock \/ NextArm \/ EndBlock \/ LeaveLoop \/ LeaveBody

LEMMA RefusedFacts == ASSUME Refuse, UNCHANGED alphabet PROVE Unmoved
BY DEF Refuse, Unmoved, runVars

LEMMA StepKinds == ASSUME [Next]_vars PROVE Steps
<1>1. CASE UNCHANGED vars
  BY <1>1 DEF vars, checkVars, runVars, Unmoved, Steps
<1>2. CASE Next
  <2>1. ASSUME NEW n \in alphabet.shapes, LetShape(n) PROVE Steps
    BY <2>1 DEF Steps, LetValue
  <2>2. ASSUME NEW n \in alphabet.owns, LetOwned(n) PROVE Steps
    BY <2>2 DEF Steps, LetValue
  <2>3. ASSUME NEW n \in alphabet.owns, SetOwned(n) PROVE Steps
    <3>1. CASE AssignAllowed(n, Whole)
      BY <2>3, <3>1 DEF Steps, Refill
    <3>2. CASE ~ AssignAllowed(n, Whole)
      BY <2>3, <3>2, RefusedFacts DEF Steps, SetOwned, Statement
    <3> QED BY <3>1, <3>2
  <2>4. ASSUME NEW n \in alphabet.owns, MoveAway(n) PROVE Steps
    <3>1. CASE MoveAllowed(n)
      BY <2>4, <3>1 DEF Steps, MoveOut
    <3>2. CASE ~ MoveAllowed(n)
      BY <2>4, <3>2, RefusedFacts DEF Steps, MoveAway, Statement
    <3> QED BY <3>1, <3>2
  <2>5. ASSUME NEW n \in alphabet.owns, NEW m \in alphabet.owns, LetMoved(n, m) PROVE Steps
    <3>1. CASE MoveAllowed(m)
      BY <2>5, <3>1 DEF Steps, LetFrom
    <3>2. CASE ~ MoveAllowed(m)
      BY <2>5, <3>2, RefusedFacts DEF Steps, LetMoved, Statement
    <3> QED BY <3>1, <3>2
  <2>6. ASSUME NEW n \in alphabet.refs, NEW x \in Exprs, LetRef(n, x) PROVE Steps
    <3>1. CASE ExprAllowed(x, AllEntries)
      BY <2>6, <3>1 DEF Steps, LetReference
    <3>2. CASE ~ ExprAllowed(x, AllEntries)
      BY <2>6, <3>2, RefusedFacts DEF Steps, LetRef, Statement
    <3> QED BY <3>1, <3>2
  <2>7. ASSUME NEW n \in alphabet.refs, NEW x \in Exprs, SetRef(n, x) PROVE Steps
    <3>1. CASE SetAllowed(n, x)
      BY <2>7, <3>1 DEF Steps, SetReference
    <3>2. CASE ~ SetAllowed(n, x)
      BY <2>7, <3>2, RefusedFacts DEF Steps, SetRef, SetAllowed, Statement
    <3> QED BY <3>1, <3>2
  <2>8. ASSUME NEW n, NEW p, SetValue(n, p) PROVE Steps
    BY <2>8 DEF Steps, SetValue, Refuse, Statement, Unmoved, runVars
  <2>9. ASSUME NEW n, NEW p, Read(n, p) PROVE Steps
    BY <2>9 DEF Steps, Read, Refuse, Statement, Unmoved, runVars
  <2>10. ASSUME NEW k \in {"if", "while"}, NEW c \in Conditions, Open(k, c) PROVE Steps
    BY <2>10 DEF Steps, OpenBlock
  <2>11. ASSUME Open("match", "unknown") PROVE Steps
    BY <2>11 DEF Steps, OpenBlock, Conditions
  <2>12. ASSUME Jump PROVE Steps
    <3>1. CASE Loops = {}
      BY <2>12, <3>1, RefusedFacts DEF Steps, Jump, Statement
    <3>2. CASE Loops # {}
      BY <2>12, <3>2 DEF Steps, LeaveLoop
    <3> QED BY <3>1, <3>2
  <2>13. ASSUME Return PROVE Steps
    BY <2>13 DEF Steps, LeaveBody
  <2>14. ASSUME NEW x \in Exprs, ReturnRef(x) PROVE Steps
    <3>1. CASE ExprAllowed(x, AllEntries) /\ MayReturn(ProvenanceOf(x))
      BY <2>14, <3>1 DEF Steps, LeaveBody
    <3>2. CASE ~ (ExprAllowed(x, AllEntries) /\ MayReturn(ProvenanceOf(x)))
      BY <2>14, <3>2, RefusedFacts DEF Steps, ReturnRef, Statement
    <3> QED BY <3>1, <3>2
  <2>15. NextArm \/ EndBlock => Steps
    BY DEF Steps
  <2> QED BY <1>2, <2>1, <2>2, <2>3, <2>4, <2>5, <2>6, <2>7, <2>8, <2>9, <2>10, <2>11,
             <2>12, <2>13, <2>14, <2>15 DEF Next
<1> QED BY <1>1, <1>2

\* What the three statements that leave a block keep.
LEMMA LeaveBodyFacts ==
    ASSUME Layout(alphabet, scopes, blocks, nextId), LeaveBody
    PROVE  /\ Layout(alphabet', scopes', blocks', nextId')
           /\ UNCHANGED <<alphabet, scopes, nextId, held, jumped>>
           /\ blocks' = Exits(blocks) /\ verdict = "checking"
           /\ ~ Running => returned' = returned
           /\ Running => returned' # {}
<1>1. /\ UNCHANGED <<alphabet, scopes, nextId, held, jumped>>
      /\ blocks' = Exits(blocks) /\ verdict = "checking"
      /\ ~ Running => returned' = returned
      /\ Running => returned' # {}
  BY DEF LeaveBody, Return, ReturnRef, Statement
<1>2. /\ Exits(blocks) \in Seq(BlockSet) /\ Len(Exits(blocks)) = Len(blocks)
      /\ \A k \in 1 .. Len(blocks) :
            /\ Exits(blocks)[k].before = blocks[k].before
            /\ Exits(blocks)[k].states = blocks[k].states
  BY BlockFacts, ExitsFacts
<1>3. Layout(alphabet, scopes, Exits(blocks), nextId)
  BY <1>2, BlocksLayout
<1> QED BY <1>1, <1>3

LEMMA LeaveLoopFacts ==
    ASSUME Layout(alphabet, scopes, blocks, nextId), LeaveLoop
    PROVE  /\ Layout(alphabet', scopes', blocks', nextId')
           /\ UNCHANGED <<alphabet, scopes, nextId, returned>> /\ verdict = "checking"
           /\ ~ Running => UNCHANGED <<blocks, held, jumped>>
           /\ Running => /\ jumped' /\ Loop \in 1 .. Len(blocks) /\ blocks' = Waiting(Loop)
                         /\ RunIn(SubSeq(scopes, 1, Loop))
<1>1. /\ UNCHANGED <<alphabet, scopes, nextId, returned>> /\ verdict = "checking"
      /\ ~ Running => UNCHANGED <<blocks, held, jumped>>
      /\ Running => jumped' /\ blocks' = Waiting(Loop) /\ RunIn(SubSeq(scopes, 1, Loop))
  BY DEF LeaveLoop, Jump, Statement, Waiting, Loop
<1>2. Loop \in 1 .. Len(blocks)
  BY LoopFacts DEF LeaveLoop
<1>3. /\ Waiting(Loop) \in Seq(BlockSet) /\ Len(Waiting(Loop)) = Len(blocks)
      /\ \A k \in 1 .. Len(blocks) :
            /\ Waiting(Loop)[k].before = blocks[k].before
            /\ Waiting(Loop)[k].states = blocks[k].states
  BY <1>2, WaitingFacts
<1>4. Layout(alphabet, scopes, Waiting(Loop), nextId)
  BY <1>3, BlocksLayout
<1> QED BY <1>1, <1>2, <1>4

\* An owned value is moved away or assigned.
LEMMA OwnedFacts ==
    ASSUME Layout(alphabet, scopes, blocks, nextId), NEW n \in alphabet.owns,
           \/ MoveAway(n) /\ MoveAllowed(n)
           \/ SetOwned(n) /\ AssignAllowed(n, Whole)
    PROVE  /\ Layout(alphabet', scopes', blocks', nextId') /\ InScope(n)
           /\ UNCHANGED <<alphabet, blocks, nextId, held, returned, jumped>>
           /\ Len(scopes') = Len(scopes) /\ Frame(scopes, scopes', Len(scopes))
           /\ \A i \in 1 .. Len(scopes) : \A x \in DOMAIN scopes[i].vars :
                 /\ scopes'[i].vars[x].prov = scopes[i].vars[x].prov
                 /\ i # Level(n) \/ x # n => scopes'[i].vars[x].moved = scopes[i].vars[x].moved
           /\ MoveAway(n) /\ MoveAllowed(n) => scopes'[Level(n)].vars[n].moved
<1>1. /\ UNCHANGED <<alphabet, blocks, nextId, held, returned, jumped>> /\ InScope(n)
      /\ scopes' = Mark(scopes, Level(n), n) \/ scopes' = Clear(scopes, Level(n), n)
      /\ MoveAway(n) /\ MoveAllowed(n) => scopes' = Mark(scopes, Level(n), n)
  BY DEF MoveAway, SetOwned, Owned, Statement, WithMoved, Mark, Clear, FlagPut, runVars
<1> QED BY <1>1, MovedFacts

LEMMA LayoutStep ==
    ASSUME Layout(alphabet, scopes, blocks, nextId), [Next]_vars
    PROVE  Layout(alphabet', scopes', blocks', nextId')
<1>1. CASE Unmoved
  BY <1>1 DEF Unmoved
<1>2. CASE LetValue
  BY <1>2, LetValueFacts DEF LetValue
<1>3. CASE LetReference
  BY <1>3, LetRefFacts DEF LetReference
<1>4. CASE LetFrom
  BY <1>4, LetMovedFacts DEF LetFrom
<1>5. CASE MoveOut \/ Refill
  BY <1>5, OwnedFacts DEF MoveOut, Refill
<1>6. CASE SetReference
  BY <1>6, SetRefFacts DEF SetReference, SetAllowed
<1>7. CASE OpenBlock
  BY <1>7, OpenFacts DEF OpenBlock
<1>8. CASE NextArm
  BY <1>8, NextArmFacts
<1>9. CASE EndBlock
  BY <1>9, EndBlockFacts
<1>10. CASE LeaveLoop
  BY <1>10, LeaveLoopFacts
<1>11. CASE LeaveBody
  BY <1>11, LeaveBodyFacts
<1> QED BY StepKinds, <1>1, <1>2, <1>3, <1>4, <1>5, <1>6, <1>7, <1>8, <1>9, <1>10, <1>11
        DEF Steps

LEMMA LayoutInit == ASSUME Init PROVE Layout(alphabet, scopes, blocks, nextId)
<1> DEFINE b == Binding(RefType(TRUE, FALSE), {})
           s == [id |-> 1, vars |-> [p \in Params |-> b]]
<1>1. alphabet \in Alphabets /\ scopes = <<s>> /\ blocks = <<>> /\ nextId = 2
  BY DEF Init
<1>2. b \in BindingSet /\ IsRef(b.type) /\ b.prov = {}
  BY DEF Binding, RefType, BindingSet, TypeSet, IsRef
<1> HIDE DEF b
<1>3. s \in ScopeSet
  <2>1. Params \in SUBSET AllNames
    BY DEF AllNames
  <2>2. [p \in Params |-> b] \in [Params -> BindingSet]
    BY <1>2
  <2>3. [p \in Params |-> b] \in VarsSet
    BY <2>1, <2>2 DEF VarsSet
  <2> QED BY <2>3 DEF ScopeSet
<1>4. /\ s.id = 1 /\ DOMAIN s.vars = Params
      /\ \A p \in Params : s.vars[p] = b
  OBVIOUS
<1> HIDE DEF s
<1>5. scopes \in Seq(ScopeSet) /\ Len(scopes) = 1 /\ scopes[1] = s
  BY <1>1, <1>3
<1>6. Scoped(scopes, nextId)
  BY <1>1, <1>2, <1>4, <1>5 DEF Scoped
<1>7. ViewOK(scopes, Snapshot(scopes), Len(scopes))
  <2>1. \A p \in Params : p \notin RefsOf(s)
    BY <1>4 DEF RefsOf, IsParam
  <2>2. /\ Len(Snapshot(scopes)) = 1 /\ DOMAIN Snapshot(scopes)[1] = Params
        /\ \A p \in Params : Snapshot(scopes)[1][p] = {}
    BY <1>2, <1>4, <1>5, SnapshotFacts
  <2> QED BY <1>4, <1>5, <2>1, <2>2 DEF ViewOK, ProvOK, Around
<1>8. Blocked(scopes, blocks)
  <2>1. blocks \in Seq(BlockSet) /\ Len(blocks) = 0
    BY <1>1
  <2> QED BY <1>5, <2>1 DEF Blocked
<1> QED BY <1>1, <1>6, <1>7, <1>8 DEF Layout

\* The scopes around the innermost one, when it is left.
LEMMA LeftScope ==
    ASSUME Layout(alphabet, scopes, blocks, nextId), Len(scopes) > 1,
           NEW b, NEW i \in 1 .. Len(scopes), BoundAt(scopes, b, i),
           NEW m, m = Len(scopes) - 1
    PROVE  b[2] \in {Outer(scopes)[j].id : j \in 1 .. Len(Outer(scopes))} <=> i \in 1 .. m
<1>1. scopes \in Seq(ScopeSet) /\ Scoped(scopes, nextId) /\ Len(scopes) \in Nat
  BY DEF Layout, Scoped
<1>2. Len(Outer(scopes)) = m /\ \A j \in 1 .. m : Outer(scopes)[j] = scopes[j]
  BY <1>1, OuterFacts
<1>3. m \in Nat /\ 1 .. m \subseteq 1 .. Len(scopes)
  BY <1>1
<1>4. b[2] = scopes[i].id
  BY DEF BoundAt
<1>5. \A j \in 1 .. m : scopes[j].id = scopes[i].id => j = i
  BY <1>1, <1>3, UniqueIds
<1>6. ASSUME i \in 1 .. m
      PROVE  b[2] \in {Outer(scopes)[j].id : j \in 1 .. Len(Outer(scopes))}
  BY <1>2, <1>4, <1>6
<1>7. ASSUME NEW j \in 1 .. m, b[2] = Outer(scopes)[j].id
      PROVE  i \in 1 .. m
  BY <1>2, <1>4, <1>5, <1>7
<1> QED BY <1>2, <1>6, <1>7

----------------------------------------------------------------------------
(* As long as no block was closed, an entry for a value is exact: the      *)
(* execution holds a reference to just that place in the same binding.     *)

\* An entry for a reference: a parameter, or a name that hides the one that
\* was borrowed.
OfRef(sc, e) ==
    \E j \in 1 .. Len(sc) : /\ sc[j].id = e.scope /\ e.root \in DOMAIN sc[j].vars
                            /\ IsRef(sc[j].vars[e.root].type)

Exact(sc, hd) ==
    \A i \in 1 .. Len(sc) : \A n \in DOMAIN sc[i].vars : \A e \in sc[i].vars[n].prov :
        \/ OfRef(sc, e)
        \/ LET b == <<n, sc[i].id>> IN
           b \in DOMAIN hd /\ hd[b].root = e.root /\ hd[b].scope = e.scope /\ hd[b].path = e.path

ExactOK(sc, bs, next, hd, ret) ==
    ret = {} /\ LiveBelow(bs, Len(sc)) /\ next = Len(sc) + 1 => Exact(sc, hd)

LEMMA OfRefStays ==
    ASSUME NEW sc, NEW t, NEW m \in Nat, Len(sc) = m, Len(t) \in Nat, m <= Len(t),
           Grows(sc, t, m), NEW e, OfRef(sc, e)
    PROVE  OfRef(t, e)
<1>1. PICK j \in 1 .. m : /\ sc[j].id = e.scope /\ e.root \in DOMAIN sc[j].vars
                         /\ IsRef(sc[j].vars[e.root].type)
  BY DEF OfRef
<1>2. j \in 1 .. Len(t) /\ t[j].id = sc[j].id /\ e.root \in DOMAIN t[j].vars
      /\ t[j].vars[e.root].type = sc[j].vars[e.root].type
  BY <1>1 DEF Grows
<1> QED BY <1>1, <1>2 DEF OfRef

LEMMA ExactTarget ==
    ASSUME Layout(alphabet, scopes, blocks, nextId), Exact(scopes, held),
           NEW x \in Exprs, WellFormed(x), NEW f \in ProvenanceOf(x), ~ OfRef(scopes, f)
    PROVE  Target(x).root = f.root /\ Target(x).scope = f.scope /\ Target(x).path = f.path
<1> DEFINE b == <<x.root, ScopeOf(x.root)>>
           L == Level(x.root)
<1>1. alphabet \in Alphabets /\ InScope(x.root)
  BY DEF Layout, WellFormed
<1>2. /\ L \in 1 .. Len(scopes) /\ x.root \in DOMAIN scopes[L].vars
      /\ ScopeOf(x.root) = scopes[L].id /\ ScopeOf(x.root) \in Nat
      /\ IsRef(TypeOf(x.root)) <=> LocalRef(x.root) \/ IsParam(x.root, ScopeOf(x.root))
      /\ LocalRef(x.root) \/ ProvOf(x.root) = {}
      /\ ProvOf(x.root) = scopes[L].vars[x.root].prov
      /\ TypeOf(x.root) = scopes[L].vars[x.root].type
  BY <1>1, RootFacts DEF ProvOf, TypeOf
<1>3. x.form \in {"borrow", "copy"} /\ (x.form = "copy" => x.path = Whole)
  BY <1>1, ExprFacts
<1> HIDE DEF L
<1>4. CASE LocalRef(x.root)
  <2>1. PICK e \in ProvOf(x.root) :
           f.root = e.root /\ f.scope = e.scope /\ f.path = Extended(x, e.path)
    BY <1>1, <1>4, FromReference
  <2>5. ~ OfRef(scopes, e)
    BY <2>1 DEF OfRef
  <2>2. /\ b \in DOMAIN held /\ held[b].root = e.root
        /\ held[b].scope = e.scope /\ held[b].path = e.path
    BY <1>2, <2>1, <2>5 DEF Exact
  <2>3. Target(x) = Place(held[b].root, held[b].scope, Join(held[b].path, x.path), TRUE)
    BY <1>2, <1>4, <2>2 DEF Target
  <2> HIDE DEF b
  <2>4. Join(e.path, x.path) = Extended(x, e.path)
    BY <1>3 DEF Join, Extended
  <2> QED BY <2>1, <2>2, <2>3, <2>4 DEF Place
<1>5. CASE ~ LocalRef(x.root)
  <2>1. ProvOf(x.root) = {}
    BY <1>2, <1>5
  <2>2. PICK e \in EntrySet : /\ Provenance(x, ScopeOf(x.root), ProvOf(x.root)) = {e}
                              /\ e.root = x.root /\ e.scope = ScopeOf(x.root) /\ e.path = x.path
    BY ONLY Layout(alphabet, scopes, blocks, nextId), x \in Exprs, WellFormed(x),
            <1>2, <2>1, OwnPlace
  <2>3. f = e
    BY <2>2 DEF ProvenanceOf
  <2>4. ~ IsRef(TypeOf(x.root))
    BY <1>2, <2>2, <2>3 DEF OfRef
  <2>5. Target(x) = Place(x.root, ScopeOf(x.root), x.path, FALSE)
    BY <2>4, Zenon DEF Target
  <2> QED BY <2>2, <2>3, <2>5 DEF Place
<1> QED BY <1>4, <1>5

\* A reference is made, or assigned.
LEMMA ExactHeld ==
    ASSUME Layout(alphabet, scopes, blocks, nextId), Exact(scopes, held),
           NEW x \in Exprs, WellFormed(x), NEW k \in 1 .. Len(scopes), NEW n,
           NEW t, Len(t) = Len(scopes), Grows(scopes, t, Len(scopes)),
           \A i \in 1 .. Len(scopes) : \A m \in DOMAIN t[i].vars :
              i # k \/ m # n =>
                 m \in DOMAIN scopes[i].vars /\ t[i].vars[m].prov = scopes[i].vars[m].prov,
           \A e \in t[k].vars[n].prov :
              OfRef(t, e) \/ \E f \in ProvenanceOf(x) : SamePlace(e, f),
           NEW c, c = <<n, scopes[k].id>>, NEW pl, pl = Target(x), NEW hd, hd = Hold(c, pl)
    PROVE  Exact(t, hd)
<1>1. /\ DOMAIN hd = DOMAIN held \cup {c} /\ hd[c] = pl
      /\ \A d \in DOMAIN held : d # c => hd[d] = held[d]
  BY ONLY hd = Hold(c, pl) DEF Hold
<1> SUFFICES ASSUME NEW i \in 1 .. Len(t), NEW m \in DOMAIN t[i].vars,
                    NEW e \in t[i].vars[m].prov, ~ OfRef(t, e)
             PROVE  /\ <<m, t[i].id>> \in DOMAIN hd
                    /\ hd[<<m, t[i].id>>].root = e.root
                    /\ hd[<<m, t[i].id>>].scope = e.scope
                    /\ hd[<<m, t[i].id>>].path = e.path
  BY DEF Exact
<1> DEFINE b == <<m, t[i].id>>
<1>2. i \in 1 .. Len(scopes) /\ t[i].id = scopes[i].id
  BY DEF Grows
<1>5. ~ OfRef(scopes, e)
  BY InnerFacts, OfRefStays
<1>3. CASE i = k /\ m = n
  <2>1. PICK f \in ProvenanceOf(x) : SamePlace(e, f)
    BY <1>3
  <2>5. ~ OfRef(scopes, f)
    BY <1>5, <2>1 DEF OfRef, SamePlace
  <2>2. pl.root = f.root /\ pl.scope = f.scope /\ pl.path = f.path
    BY <2>1, <2>5, ExactTarget DEF SamePlace
  <2>3. b = c
    BY <1>2, <1>3
  <2> HIDE DEF b
  <2>4. /\ b \in DOMAIN hd /\ hd[b].root = e.root
        /\ hd[b].scope = e.scope /\ hd[b].path = e.path
    BY <1>1, <2>1, <2>2, <2>3 DEF SamePlace
  <2> QED BY <2>4 DEF b
<1>4. CASE i # k \/ m # n
  <2>1. m \in DOMAIN scopes[i].vars /\ e \in scopes[i].vars[m].prov
    BY <1>2, <1>4
  <2>2. /\ b \in DOMAIN held /\ held[b].root = e.root
        /\ held[b].scope = e.scope /\ held[b].path = e.path
    BY <1>2, <1>5, <2>1 DEF Exact
  <2>3. b # c
    <3>1. scopes[i].id = scopes[k].id => i = k
      BY <1>2, UniqueIds DEF Layout
    <3> QED BY <1>2, <1>4, <3>1
  <2> HIDE DEF b
  <2>4. /\ b \in DOMAIN hd /\ hd[b].root = e.root
        /\ hd[b].scope = e.scope /\ hd[b].path = e.path
    BY <1>1, <2>2, <2>3
  <2> QED BY <2>4 DEF b
<1> QED BY <1>3, <1>4

LEMMA ExactStep ==
    ASSUME Layout(alphabet, scopes, blocks, nextId),
           ExactOK(scopes, blocks, nextId, held, returned), [Next]_vars
    PROVE  ExactOK(scopes', blocks', nextId', held', returned')
<1>0. /\ Len(scopes) \in Nat /\ Len(blocks) \in Nat /\ Len(scopes) = Len(blocks) + 1
      /\ nextId \in Nat /\ nextId > Len(scopes)
      /\ \A k \in 1 .. Len(blocks) : blocks[k].arm \in Nat /\ blocks[k].arm >= 1
  BY BlockFacts DEF Layout, Scoped
<1> SUFFICES ASSUME returned' = {}, LiveBelow(blocks', Len(scopes')), nextId' = Len(scopes') + 1
             PROVE  Exact(scopes', held')
  BY DEF ExactOK
<1>1. CASE Unmoved
  BY <1>1 DEF Unmoved, runVars, ExactOK
<1>2. CASE LetValue
  <2>1. PICK n : \/ n \in alphabet.shapes /\ LetShape(n)
                 \/ n \in alphabet.owns /\ LetOwned(n)
    BY <1>2 DEF LetValue
  <2>2. PICK b : Added(scopes, scopes', n, b) /\ b.prov = {}
    BY <2>1, LetValueFacts
  <2>3. UNCHANGED <<alphabet, blocks, nextId, held, returned>>
    BY <2>1 DEF LetShape, LetOwned, Statement, runVars
  <2>4. Exact(scopes, held)
    BY <2>2, <2>3 DEF ExactOK, Added
  <2>5. ASSUME NEW i \in 1 .. Len(scopes), NEW m \in DOMAIN scopes'[i].vars,
               NEW e \in scopes'[i].vars[m].prov
        PROVE  /\ m \in DOMAIN scopes[i].vars /\ e \in scopes[i].vars[m].prov
               /\ scopes'[i].id = scopes[i].id
    <3>1. CASE m \in DOMAIN scopes[i].vars
      BY <2>2, <2>5, <3>1 DEF Added
    <3>2. CASE m \notin DOMAIN scopes[i].vars
      <4>1. i = Len(scopes) /\ m = n
        BY <2>2, <3>2 DEF Added
      <4> QED BY <2>2, <2>5, <4>1 DEF Added
    <3> QED BY <3>1, <3>2
  <2>6. Len(scopes') = Len(scopes) /\ Grows(scopes, scopes', Len(scopes))
    BY <2>2 DEF Added, Grows
  <2>7. \A e : OfRef(scopes, e) => OfRef(scopes', e)
    BY <1>0, <2>6, OfRefStays
  <2> QED BY <2>3, <2>4, <2>5, <2>6, <2>7 DEF Exact
<1>3. CASE LetReference
  <2>1. PICK n \in alphabet.refs, x \in Exprs : LetRef(n, x) /\ ExprAllowed(x, AllEntries)
    BY <1>3 DEF LetReference
  <2> DEFINE P == LetProvenance(n, x)
             k == Len(scopes)
  <2>2. /\ Added(scopes, scopes', n, Binding(TypeOfExpr(x), P)) /\ WellFormed(x)
    BY <2>1, LetRefFacts
  <2>3. /\ UNCHANGED <<alphabet, blocks, nextId, returned>> /\ verdict = "checking"
        /\ held' = IF Running THEN Hold(<<n, Inner.id>>, Target(x)) ELSE held
    BY <2>1 DEF LetRef, Statement
  <2>4. Binding(TypeOfExpr(x), P).prov = P
    BY DEF Binding
  <2> HIDE DEF P
  <2>5. /\ Len(scopes') = Len(scopes) /\ scopes'[k].vars[n].prov = P
        /\ \A i \in 1 .. Len(scopes) : scopes'[i].id = scopes[i].id
        /\ \A i \in 1 .. Len(scopes) : \A m \in DOMAIN scopes'[i].vars :
              i # k \/ m # n =>
                 m \in DOMAIN scopes[i].vars /\ scopes'[i].vars[m].prov = scopes[i].vars[m].prov
        /\ n \in DOMAIN scopes'[k].vars /\ scopes'[k].vars[n].type = TypeOfExpr(x)
        /\ Grows(scopes, scopes', Len(scopes))
    BY <2>2, <2>4 DEF Added, Grows, Binding
  <2>6. Exact(scopes, held)
    BY <2>3, <2>5 DEF ExactOK
  <2>7. Running
    BY <1>0, <2>3, <2>5 DEF Running, LiveBelow
  <2>9. k \in 1 .. Len(scopes) /\ Inner.id = scopes[k].id
    BY InnerFacts
  <2>8. ASSUME NEW e \in P, ~ OfRef(scopes', e)
        PROVE  \E f \in ProvenanceOf(x) : SamePlace(e, f)
    <3> DEFINE Q == IF x.root = n THEN Provenance(x, Inner.id, {}) ELSE ProvenanceOf(x)
    <3>1. P = As(Q, TypeOfExpr(x).mut) /\ TypeOfExpr(x).mut \in BOOLEAN
      BY <2>1, <2>2, ExprType DEF P, LetProvenance, TypeSet
    <3>2. CASE x.root = n
      <4>1. Inner.id \in Nat
        BY InnerFacts
      <4>2. PICK d \in EntrySet : /\ Provenance(x, Inner.id, {}) = {d}
                                  /\ d.root = x.root /\ d.scope = Inner.id
        BY ONLY Layout(alphabet, scopes, blocks, nextId), x \in Exprs, <2>2, <4>1, OwnPlace
      <4>5. Q = {d} /\ d.root = n /\ d.scope = Inner.id
        BY <3>2, <4>2
      <4> HIDE DEF Q
      <4>3. \E f \in Q : SamePlace(e, f)
        BY <2>8, <3>1, <4>2, <4>5, AsFacts
      <4>4. e.root = n /\ e.scope = Inner.id
        BY <4>3, <4>5 DEF SamePlace
      <4>6. IsRef(TypeOfExpr(x))
        BY <2>1, <2>2, ExprType DEF IsRef
      <4> QED BY <2>5, <2>8, <2>9, <4>4, <4>6 DEF OfRef
    <3>3. CASE x.root # n
      <4>1. Q = ProvenanceOf(x) /\ Q \in SUBSET EntrySet
        BY <2>2, <3>3, ProvenanceFacts
      <4> HIDE DEF Q
      <4> QED BY <2>8, <3>1, <4>1, AsFacts
    <3> QED BY <3>2, <3>3
  <2> HIDE DEF k
  <2>10. Exact(scopes', Hold(<<n, scopes[k].id>>, Target(x)))
    BY <2>2, <2>5, <2>6, <2>8, <2>9, ExactHeld
  <2> QED BY <2>3, <2>7, <2>9, <2>10
<1>4. CASE LetFrom
  <2>1. PICK n \in alphabet.owns, y \in alphabet.owns : LetMoved(n, y) /\ MoveAllowed(y)
    BY <1>4 DEF LetFrom
  <2>2. PICK b : Added(scopes, scopes', n, b) /\ b.prov = {}
    BY <2>1, LetMovedFacts
  <2>3. UNCHANGED <<alphabet, blocks, nextId, held, returned>>
    BY <2>1 DEF LetMoved, Statement, runVars
  <2>4. Exact(scopes, held)
    BY <2>2, <2>3 DEF ExactOK, Added
  <2>5. ASSUME NEW i \in 1 .. Len(scopes), NEW m \in DOMAIN scopes'[i].vars,
               NEW e \in scopes'[i].vars[m].prov
        PROVE  /\ m \in DOMAIN scopes[i].vars /\ e \in scopes[i].vars[m].prov
               /\ scopes'[i].id = scopes[i].id
    <3>1. CASE m \in DOMAIN scopes[i].vars
      BY <2>2, <2>5, <3>1 DEF Added
    <3>2. CASE m \notin DOMAIN scopes[i].vars
      <4>1. i = Len(scopes) /\ m = n
        BY <2>2, <3>2 DEF Added
      <4> QED BY <2>2, <2>5, <4>1 DEF Added
    <3> QED BY <3>1, <3>2
  <2>6. Len(scopes') = Len(scopes) /\ Grows(scopes, scopes', Len(scopes))
    BY <2>2 DEF Added, Grows
  <2>7. \A e : OfRef(scopes, e) => OfRef(scopes', e)
    BY <1>0, <2>6, OfRefStays
  <2> QED BY <2>3, <2>4, <2>5, <2>6, <2>7 DEF Exact
<1>5. CASE MoveOut \/ Refill
  <2>1. PICK n \in alphabet.owns : \/ MoveAway(n) /\ MoveAllowed(n)
                                   \/ SetOwned(n) /\ AssignAllowed(n, Whole)
    BY <1>5 DEF MoveOut, Refill
  <2>2. /\ UNCHANGED <<alphabet, blocks, nextId, held, returned, jumped>>
        /\ Len(scopes') = Len(scopes) /\ Frame(scopes, scopes', Len(scopes))
        /\ \A i \in 1 .. Len(scopes) : \A x \in DOMAIN scopes[i].vars :
              scopes'[i].vars[x].prov = scopes[i].vars[x].prov
    BY <2>1, OwnedFacts
  <2>3. Exact(scopes, held)
    BY <2>2 DEF ExactOK
  <2>4. Grows(scopes, scopes', Len(scopes))
    BY <2>2 DEF Frame, Grows
  <2>5. \A e : OfRef(scopes, e) => OfRef(scopes', e)
    BY <1>0, <2>2, <2>4, OfRefStays
  <2> QED BY <2>2, <2>3, <2>5 DEF Exact, Frame
<1>6. CASE SetReference
  <2>1. PICK n \in alphabet.refs, x \in Exprs : SetRef(n, x) /\ SetAllowed(n, x)
    BY <1>6 DEF SetReference
  <2> DEFINE k == Level(n)
             P == As(ProvenanceOf(x), TypeOf(n).mut)
  <2>2. /\ Len(scopes') = Len(scopes) /\ Frame(scopes, scopes', Len(scopes))
        /\ scopes'[k].vars[n].prov = P
        /\ \A i \in 1 .. Len(scopes) : \A m \in DOMAIN scopes[i].vars :
              i # k \/ m # n => scopes'[i].vars[m].prov = scopes[i].vars[m].prov
        /\ WellFormed(x) /\ InScope(n)
    BY <2>1, SetRefFacts DEF SetAllowed
  <2>3. /\ UNCHANGED <<alphabet, blocks, nextId, returned>> /\ verdict = "checking"
        /\ held' = IF Running THEN Hold(<<n, ScopeOf(n)>>, Target(x)) ELSE held
    BY <2>1 DEF SetRef, SetAllowed, Statement
  <2>4. Exact(scopes, held)
    BY <2>2, <2>3 DEF ExactOK
  <2>5. Running
    BY <1>0, <2>2, <2>3 DEF Running, LiveBelow
  <2>6. ASSUME NEW e \in P PROVE \E f \in ProvenanceOf(x) : SamePlace(e, f)
    <3>1. ProvenanceOf(x) \in SUBSET EntrySet /\ TypeOf(n).mut \in BOOLEAN
      BY <2>2, ProvenanceFacts, RootFacts DEF TypeSet
    <3> QED BY <2>6, <3>1, AsFacts
  <2>7. k \in 1 .. Len(scopes) /\ ScopeOf(n) = scopes[k].id
    BY <2>2, RootFacts
  <2> HIDE DEF k, P
  <2>8. /\ Grows(scopes, scopes', Len(scopes))
        /\ \A i \in 1 .. Len(scopes) : \A m \in DOMAIN scopes'[i].vars :
              i # k \/ m # n =>
                 m \in DOMAIN scopes[i].vars /\ scopes'[i].vars[m].prov = scopes[i].vars[m].prov
    BY <2>2 DEF Frame, Grows
  <2>9. Exact(scopes', Hold(<<n, scopes[k].id>>, Target(x)))
    BY <2>2, <2>4, <2>6, <2>7, <2>8, ExactHeld
  <2> QED BY <2>3, <2>5, <2>7, <2>9
<1>7. CASE OpenBlock
  <2>1. PICK kd \in {"if", "match", "while"}, cd \in Conditions : Open(kd, cd)
    BY <1>7 DEF OpenBlock
  <2> DEFINE m == Len(blocks)
  <2>2. /\ m \in Nat /\ Len(scopes) = m + 1 /\ Len(scopes') = m + 2
        /\ \A i \in 1 .. (m + 1) : scopes'[i] = scopes[i]
        /\ DOMAIN scopes'[m + 2].vars = {}
        /\ \A k \in 1 .. m : blocks'[k] = blocks[k]
    BY <2>1, OpenFacts
  <2>3. alphabet' = alphabet /\ nextId' = nextId + 1 /\ returned' = returned /\ held' = held
    BY <2>1 DEF Open, Statement, runVars
  <2>4. Exact(scopes, held)
    <3>1. nextId = Len(scopes) + 1
      BY <1>0, <2>2, <2>3
    <3>2. LiveBelow(blocks, Len(scopes))
      BY <2>2 DEF LiveBelow
    <3> QED BY <2>3, <3>1, <3>2 DEF ExactOK
  <2> HIDE DEF m
  <2>5. \A i \in 1 .. Len(scopes') : i \in 1 .. Len(scopes) \/ i = m + 2
    BY <2>2
  <2>6. Grows(scopes, scopes', Len(scopes))
    BY <2>2 DEF Grows
  <2>7. \A e : OfRef(scopes, e) => OfRef(scopes', e)
    BY <1>0, <2>2, <2>6, OfRefStays
  <2> QED BY <2>2, <2>3, <2>4, <2>5, <2>7 DEF Exact
<1>8. CASE NextArm
  <2>1. nextId' = nextId + 1 /\ Len(scopes') = Len(scopes)
    BY <1>8, NextArmFacts DEF NextArm
  <2> QED BY <1>0, <2>1
<1>9. CASE EndBlock
  <2>1. nextId' = nextId
    BY <1>9 DEF EndBlock
  <2>2. Len(scopes') = Len(blocks)
    BY <1>9, EndBlockFacts
  <2> QED BY <1>0, <2>1, <2>2
<1>10. CASE LeaveLoop
  <2>1. /\ UNCHANGED <<alphabet, scopes, nextId, returned>>
        /\ ~ Running => UNCHANGED <<blocks, held, jumped>>
        /\ Running => Loop \in 1 .. Len(blocks) /\ blocks' = Waiting(Loop)
    BY <1>10, LeaveLoopFacts
  <2>2. CASE Running
    <3>1. blocks'[Loop].taken = 0 /\ blocks'[Loop].arm = blocks[Loop].arm
      BY <2>1, <2>2, WaitingFacts
    <3>2. Loop \in 1 .. (Len(scopes') - 1)
      BY <1>0, <2>1, <2>2
    <3> QED BY <1>0, <2>1, <2>2, <3>1, <3>2 DEF LiveBelow
  <2>3. CASE ~ Running
    BY <2>1, <2>3 DEF ExactOK
  <2> QED BY <2>2, <2>3
<1>11. CASE LeaveBody
  <2>1. /\ UNCHANGED <<alphabet, scopes, nextId, held>> /\ verdict = "checking"
        /\ blocks' = Exits(blocks) /\ ~ Running /\ returned' = returned
    BY <1>11, LeaveBodyFacts
  <2>2. blocks \in Seq(BlockSet)
    BY BlockFacts
  <2>3. \A k \in 1 .. Len(blocks) : /\ blocks'[k].taken = blocks[k].taken
                                    /\ blocks'[k].arm = blocks[k].arm
    BY <2>1, <2>2, ExitsFacts
  <2>4. LiveBelow(blocks, Len(scopes))
    BY <1>0, <2>1, <2>3 DEF LiveBelow
  <2> QED BY <1>0, <2>1, <2>4 DEF ExactOK
<1> QED BY StepKinds, <1>1, <1>2, <1>3, <1>4, <1>5, <1>6, <1>7, <1>8, <1>9, <1>10, <1>11
        DEF Steps

----------------------------------------------------------------------------
(* What the execution holds, while the scopes change around it. *)

\* Two references of which one is mutable do not overlap, unless one of them
\* was made from a reference.
Exclusive(sc, hd) ==
    \A a, b \in DOMAIN hd : \A i \in 1 .. Len(sc) :
        /\ a # b /\ BoundAt(sc, a, i) /\ sc[i].vars[a[1]].type.mut
        /\ hd[a].root = hd[b].root /\ hd[a].scope = hd[b].scope
        /\ Overlaps(hd[a].path, hd[b].path)
        => hd[a].via \/ hd[b].via

\* Of the references some are dropped, with the scopes above the first len.
Keeps(sc, t, len, hd, hd2) ==
    /\ len \in Nat /\ len <= Len(sc) /\ len <= Len(t) /\ Grows(sc, t, len)
    /\ \A b \in DOMAIN hd2 :
          /\ b \in DOMAIN hd /\ hd2[b] = hd[b]
          /\ \E i \in 1 .. len : BoundAt(t, b, i)
          /\ \A i \in 1 .. Len(t) : BoundAt(t, b, i) => i \in 1 .. len /\ BoundAt(sc, b, i)

LEMMA KeptHeld ==
    ASSUME NEW sc \in Seq(ScopeSet), NEW t \in Seq(ScopeSet), NEW len, NEW hd, NEW hd2,
           Keeps(sc, t, len, hd, hd2), HeldOK(sc, hd), Exclusive(sc, hd)
    PROVE  HeldOK(t, hd2) /\ Exclusive(t, hd2)
<1>1. /\ len \in Nat /\ Len(sc) \in Nat /\ Len(t) \in Nat
      /\ 1 .. len \subseteq 1 .. Len(sc) /\ 1 .. len \subseteq 1 .. Len(t)
  BY DEF Keeps
<1>2. ASSUME NEW b \in DOMAIN hd2, NEW i \in 1 .. Len(t), BoundAt(t, b, i)
      PROVE  /\ i \in 1 .. len /\ i \in 1 .. Len(sc) /\ BoundAt(sc, b, i)
             /\ b \in DOMAIN hd /\ hd2[b] = hd[b]
             /\ t[i].vars[b[1]].type = sc[i].vars[b[1]].type
  BY <1>1, <1>2 DEF Keeps, Grows, BoundAt
<1>3. HeldOK(t, hd2)
  <2> SUFFICES ASSUME NEW b \in DOMAIN hd2
               PROVE  /\ b = <<b[1], b[2]>>
                      /\ \E i \in 1 .. Len(t) : BoundAt(t, b, i)
                      /\ \A i \in 1 .. Len(t) : BoundAt(t, b, i) =>
                            /\ b[1] \in RefsOf(t[i])
                            /\ t[i].vars[b[1]].type.field \/ hd2[b].path = Whole
                            /\ \E j \in 1 .. i : t[j].id = hd2[b].scope
    BY DEF HeldOK
  <2>1. b \in DOMAIN hd /\ hd2[b] = hd[b] /\ \E i \in 1 .. Len(t) : BoundAt(t, b, i)
    BY <1>1 DEF Keeps
  <2>2. b = <<b[1], b[2]>>
    BY <2>1 DEF HeldOK
  <2>3. ASSUME NEW i \in 1 .. Len(t), BoundAt(t, b, i)
        PROVE  /\ b[1] \in RefsOf(t[i])
               /\ t[i].vars[b[1]].type.field \/ hd2[b].path = Whole
               /\ \E j \in 1 .. i : t[j].id = hd2[b].scope
    <3>1. /\ i \in 1 .. len /\ i \in 1 .. Len(sc) /\ BoundAt(sc, b, i)
          /\ t[i].vars[b[1]].type = sc[i].vars[b[1]].type
      BY <1>2, <2>3
    <3>2. /\ b[1] \in RefsOf(sc[i])
          /\ sc[i].vars[b[1]].type.field \/ hd[b].path = Whole
          /\ \E j \in 1 .. i : sc[j].id = hd[b].scope
      BY <2>1, <3>1 DEF HeldOK
    <3>3. \A j \in 1 .. i : t[j].id = sc[j].id
      BY <1>1, <3>1 DEF Keeps, Grows
    <3>4. b[1] \in RefsOf(t[i])
      <4>1. t[i].id = sc[i].id /\ b[1] \in DOMAIN t[i].vars /\ b[1] \in DOMAIN sc[i].vars
        BY <1>1, <2>3, <3>1 DEF Keeps, Grows, BoundAt
      <4> QED BY <3>1, <3>2, <4>1, RefsSame
    <3> QED BY <2>1, <3>1, <3>2, <3>3, <3>4
  <2> QED BY <2>1, <2>2, <2>3
<1>4. Exclusive(t, hd2)
  <2> SUFFICES ASSUME NEW a \in DOMAIN hd2, NEW b \in DOMAIN hd2, NEW i \in 1 .. Len(t),
                      a # b, BoundAt(t, a, i), t[i].vars[a[1]].type.mut,
                      hd2[a].root = hd2[b].root, hd2[a].scope = hd2[b].scope,
                      Overlaps(hd2[a].path, hd2[b].path)
               PROVE  hd2[a].via \/ hd2[b].via
    BY DEF Exclusive
  <2>1. /\ i \in 1 .. Len(sc) /\ BoundAt(sc, a, i) /\ a \in DOMAIN hd /\ hd2[a] = hd[a]
        /\ sc[i].vars[a[1]].type.mut
    BY <1>2
  <2>2. b \in DOMAIN hd /\ hd2[b] = hd[b]
    BY DEF Keeps
  <2> QED BY <2>1, <2>2 DEF Exclusive
<1> QED BY <1>3, <1>4

\* A view that covers what is held still does.
LEMMA CoverKept ==
    ASSUME NEW sc, NEW t, NEW len, NEW hd, NEW hd2, Keeps(sc, t, len, hd, hd2),
           Len(t) \in Nat, NEW m \in 0 .. len, NEW view, NEW w, CoverIn(sc, hd, view, m),
           \A i \in 1 .. m : \A n \in DOMAIN sc[i].vars : Dominated(view[i][n], w[i][n])
    PROVE  CoverIn(t, hd2, w, m)
<1>1. m \in Nat /\ 1 .. m \subseteq 1 .. len /\ 1 .. m \subseteq 1 .. Len(t)
  BY DEF Keeps
<1>2. Grows(sc, t, m)
  BY <1>1 DEF Keeps, Grows
<1>3. HiddenKept(sc, view, w, m)
  <2> SUFFICES ASSUME NEW h \in 1 .. m, NEW l \in 1 .. (h - 1),
                      NEW n \in DOMAIN sc[h].vars \cap DOMAIN sc[l].vars
               PROVE  Dominated(view[l][n], w[l][n])
    BY DEF HiddenKept
  <2>1. l \in 1 .. m
    BY <1>1
  <2> QED BY <2>1
<1>4. \A b \in DOMAIN hd2 : \A i \in 1 .. m : BoundAt(t, b, i) =>
         /\ b \in DOMAIN hd /\ hd2[b] = hd[b] /\ BoundAt(sc, b, i)
         /\ Dominated(view[i][b[1]], w[i][b[1]])
  BY <1>1 DEF Keeps, BoundAt
<1> QED BY <1>1, <1>2, <1>3, <1>4, CoverStays

LEMMA DominatedSelf == \A E : Dominated(E, E)
BY DEF Dominated, SamePlace

\* Scope k is the innermost one that may have n, and E has what all bindings
\* but n of scope k borrow.
Innermost(k, n) == \A h \in 1 .. Len(scopes) : n \in DOMAIN scopes[h].vars => h <= k
OthersIn(k, n, E) ==
    \A i \in 1 .. Len(scopes) : \A m \in DOMAIN scopes[i].vars :
        i # k \/ m # n => scopes[i].vars[m].prov \subseteq E

\* A place that no statement can name: an inner binding has its name.
Unnamed(place) ==
    \E h \in 1 .. Len(scopes) : \E l \in 1 .. (h - 1) :
        /\ place.root \in DOMAIN scopes[h].vars \cap DOMAIN scopes[l].vars
        /\ scopes[l].id = place.scope

\* The entry for what a binding other than n of scope k refers to.
LEMMA EntryFor ==
    ASSUME scopes \in Seq(ScopeSet), CoverIn(scopes, held, Snapshot(scopes), Len(scopes)),
           NEW k, NEW n, Innermost(k, n), NEW E, OthersIn(k, n, E),
           NEW a \in DOMAIN held, NEW i \in 1 .. Len(scopes), BoundAt(scopes, a, i),
           i # k \/ a[1] # n
    PROVE  Unnamed(held[a]) \/ \E e \in E : Covers(e, held[a], scopes[i].vars[a[1]].type.mut)
<1> DEFINE mut == scopes[i].vars[a[1]].type.mut
           view == Snapshot(scopes)
<1>1. CoveredIn(scopes, view, a[1], i, held[a], mut)
  BY DEF CoverIn
<1>2. /\ Len(scopes) \in Nat
      /\ \A q \in 1 .. Len(scopes) : \A m \in DOMAIN scopes[q].vars :
            view[q][m] = scopes[q].vars[m].prov
  BY SnapshotFacts
<1> HIDE DEF view, mut
<1>3. CASE \E e \in view[i][a[1]] : Covers(e, held[a], mut)
  BY <1>2, <1>3 DEF mut, BoundAt, OthersIn
<1>4. ASSUME NEW j \in 1 .. i, HiddenIn(scopes, view, j, held[a], mut)
      PROVE  Unnamed(held[a]) \/ \E e \in E : Covers(e, held[a], mut)
  <2>1. PICK h \in 1 .. j : \E l \in 1 .. (h - 1) :
                \E m \in DOMAIN scopes[h].vars \cap DOMAIN scopes[l].vars :
                    Records(scopes, view, l, m, held[a], mut)
    BY <1>4 DEF HiddenIn
  <2>2. PICK l \in 1 .. (h - 1) :
                \E m \in DOMAIN scopes[h].vars \cap DOMAIN scopes[l].vars :
                    Records(scopes, view, l, m, held[a], mut)
    BY <2>1
  <2>3. PICK m \in DOMAIN scopes[h].vars \cap DOMAIN scopes[l].vars :
                    Records(scopes, view, l, m, held[a], mut)
    BY <2>2
  <2>4. h \in 1 .. Len(scopes) /\ l \in 1 .. Len(scopes) /\ l < h
    BY <1>2
  <2>5. l # k \/ m # n
    BY <2>4 DEF Innermost
  <2>6. view[l][m] \subseteq E
    BY <1>2, <2>4, <2>5 DEF OthersIn
  <2>7. CASE m = held[a].root /\ scopes[l].id = held[a].scope
    BY <2>4, <2>7 DEF Unnamed
  <2>8. CASE \E e \in view[l][m] : Covers(e, held[a], mut)
    BY <2>6, <2>8
  <2> QED BY <2>3, <2>7, <2>8 DEF Records
<1> QED BY <1>1, <1>3, <1>4 DEF CoveredIn, mut

\* The place of a binding in scope is not.
LEMMA NamedPlace ==
    ASSUME Layout(alphabet, scopes, blocks, nextId), NEW n, InScope(n),
           NEW place, place.root = n, place.scope = ScopeOf(n)
    PROVE  ~ Unnamed(place)
<1> SUFFICES ASSUME NEW h \in 1 .. Len(scopes), NEW l \in 1 .. (h - 1),
                    n \in DOMAIN scopes[h].vars, n \in DOMAIN scopes[l].vars,
                    scopes[l].id = ScopeOf(n)
             PROVE  FALSE
  BY DEF Unnamed
<1>1. scopes \in Seq(ScopeSet) /\ Scoped(scopes, nextId) /\ Len(scopes) \in Nat
  BY DEF Layout, Scoped
<1>2. Level(n) \in 1 .. Len(scopes) /\ scopes[Level(n)].id = ScopeOf(n)
  BY RootFacts
<1>3. l \in 1 .. Len(scopes) /\ l < h
  BY <1>1
<1>4. Level(n) = l
  BY <1>1, <1>2, <1>3, UniqueIds
<1>5. h <= Level(n)
  BY <1>1, LevelFacts
<1> QED BY <1>3, <1>4, <1>5

\* A reference is made or assigned, in binding n of scope k: what it refers
\* to overlaps with no other reference that excludes it.
LEMMA NoClash ==
    ASSUME Here, NEW x \in Exprs, WellFormed(x), NEW E, ExprAllowed(x, E),
           NEW k, NEW n, Innermost(k, n), OthersIn(k, n, E),
           NEW a \in DOMAIN held, NEW i \in 1 .. Len(scopes), BoundAt(scopes, a, i),
           i # k \/ a[1] # n,
           held[a].root = Target(x).root, held[a].scope = Target(x).scope,
           Overlaps(held[a].path, Target(x).path),
           scopes[i].vars[a[1]].type.mut \/ TypeOfExpr(x).mut
    PROVE  Target(x).via
<1> SUFFICES ASSUME ~ Target(x).via PROVE FALSE
  OBVIOUS
<1>1. scopes \in Seq(ScopeSet) /\ CoverIn(scopes, held, Snapshot(scopes), Len(scopes))
      /\ Layout(alphabet, scopes, blocks, nextId)
  BY DEF Here, Layout, Scoped
<1>2. /\ ~ IsRef(TypeOf(x.root)) /\ Target(x).root = x.root /\ Target(x).path = x.path
      /\ Target(x).scope = ScopeOf(x.root)
  BY TargetRecorded
<1>3. ~ Unnamed(held[a])
  BY <1>1, <1>2, NamedPlace DEF WellFormed
<1>4. PICK e \in E : Covers(e, held[a], scopes[i].vars[a[1]].type.mut)
  BY <1>1, <1>3, EntryFor
<1>5. x.form = "borrow" /\ TypeOfExpr(x).mut = x.mut
  BY <1>1, <1>2, ExprType
<1>6. BorrowAllowed(E, x.root, x.path, x.mut)
  BY <1>5 DEF ExprAllowed
<1>7. e \in BorrowsAt(E, x.root, x.path)
  BY <1>4, <1>2 DEF BorrowsAt, Covers, Overlaps
<1>8. CASE x.mut
  BY <1>6, <1>7, <1>8 DEF BorrowAllowed
<1>9. CASE ~ x.mut
  <2>1. e.mut
    BY <1>4, <1>5, <1>9 DEF Covers
  <2> QED BY <1>6, <1>7, <1>9, <2>1 DEF BorrowAllowed, ReadAllowed
<1> QED BY <1>8, <1>9

\* Scopes t are the scopes, with n of scope k bound anew.
Anew(t, k, n) ==
    /\ Len(t) = Len(scopes) /\ Grows(scopes, t, Len(scopes)) /\ n \in DOMAIN t[k].vars
    /\ \A i \in 1 .. Len(scopes) : \A m \in DOMAIN t[i].vars : i # k \/ m # n =>
          m \in DOMAIN scopes[i].vars /\ t[i].vars[m].prov = scopes[i].vars[m].prov

LEMMA AnewFacts ==
    ASSUME Layout(alphabet, scopes, blocks, nextId), NEW k \in 1 .. Len(scopes), NEW n,
           NEW t, Anew(t, k, n), NEW c, c = <<n, scopes[k].id>>
    PROVE  /\ Len(t) = Len(scopes) /\ Len(scopes) \in Nat /\ BoundAt(t, c, k)
           /\ \A i \in 1 .. Len(scopes) : BoundAt(t, c, i) => i = k
           /\ \A b : \A i \in 1 .. Len(scopes) :
                 /\ BoundAt(scopes, b, i) =>
                       /\ BoundAt(t, b, i)
                       /\ t[i].vars[b[1]].type = scopes[i].vars[b[1]].type
                 /\ BoundAt(t, b, i) /\ b = <<b[1], b[2]>> /\ b # c =>
                       BoundAt(scopes, b, i) /\ (i # k \/ b[1] # n)
<1>1. /\ Len(t) = Len(scopes) /\ Len(scopes) \in Nat
      /\ \A i \in 1 .. Len(scopes) : /\ t[i].id = scopes[i].id
                                     /\ DOMAIN scopes[i].vars \subseteq DOMAIN t[i].vars
      /\ \A i \in 1 .. Len(scopes) : \A m \in DOMAIN scopes[i].vars :
            t[i].vars[m].type = scopes[i].vars[m].type
  BY InnerFacts DEF Anew, Grows
<1>2. \A i \in 1 .. Len(scopes) : scopes[i].id = scopes[k].id => i = k
  BY UniqueIds DEF Layout
<1>3. c[1] = n /\ c[2] = scopes[k].id
  OBVIOUS
<1>4. BoundAt(t, c, k)
  BY <1>1, <1>3 DEF BoundAt, Anew
<1>5. \A i \in 1 .. Len(scopes) : BoundAt(t, c, i) => i = k
  BY <1>1, <1>2, <1>3 DEF BoundAt
<1>6. ASSUME NEW b, NEW i \in 1 .. Len(scopes), BoundAt(scopes, b, i)
      PROVE  BoundAt(t, b, i) /\ t[i].vars[b[1]].type = scopes[i].vars[b[1]].type
  BY <1>1, <1>6 DEF BoundAt
<1>7. ASSUME NEW b, NEW i \in 1 .. Len(scopes), BoundAt(t, b, i), b = <<b[1], b[2]>>, b # c
      PROVE  BoundAt(scopes, b, i) /\ (i # k \/ b[1] # n)
  <2>1. scopes[i].id = b[2] /\ b[1] \in DOMAIN t[i].vars
    BY <1>1, <1>7 DEF BoundAt
  <2>2. i # k \/ b[1] # n
    BY <1>7, <2>1
  <2>3. b[1] \in DOMAIN scopes[i].vars
    BY <2>1, <2>2 DEF Anew
  <2> QED BY <2>1, <2>2, <2>3 DEF BoundAt
<1> QED BY <1>1, <1>4, <1>5, <1>6, <1>7

\* The references of the new scopes are there, and each refers outwards.
LEMMA AnewHeld ==
    ASSUME Here, NEW k \in 1 .. Len(scopes), NEW n,
           NEW t, n \in RefsOf(t[k]), Anew(t, k, n), NEW c, c = <<n, scopes[k].id>>,
           NEW pl, NEW hd, hd = Hold(c, pl),
           t[k].vars[n].type.field \/ pl.path = Whole, \E j \in 1 .. k : scopes[j].id = pl.scope
    PROVE  /\ HeldOK(t, hd)
           /\ \A i \in 1 .. Len(t) : \A m \in RefsOf(t[i]) :
                 <<m, t[i].id>> \in DOMAIN hd
<1>1. /\ DOMAIN hd = DOMAIN held \cup {c} /\ hd[c] = pl
      /\ \A b \in DOMAIN held : b # c => hd[b] = held[b]
  BY DEF Hold
<1>2. /\ Layout(alphabet, scopes, blocks, nextId) /\ HeldOK(scopes, held)
      /\ \A i \in 1 .. Len(scopes) : \A m \in RefsOf(scopes[i]) :
            <<m, scopes[i].id>> \in DOMAIN held
  BY DEF Here
<1>3. /\ Len(t) = Len(scopes) /\ Len(scopes) \in Nat /\ BoundAt(t, c, k)
      /\ \A i \in 1 .. Len(scopes) : BoundAt(t, c, i) => i = k
      /\ \A b : \A i \in 1 .. Len(scopes) :
            /\ BoundAt(scopes, b, i) =>
                  BoundAt(t, b, i) /\ t[i].vars[b[1]].type = scopes[i].vars[b[1]].type
            /\ BoundAt(t, b, i) /\ b = <<b[1], b[2]>> /\ b # c => BoundAt(scopes, b, i)
  BY <1>2, AnewFacts
<1>4. \A i \in 1 .. Len(scopes) : t[i].id = scopes[i].id
  BY DEF Anew, Grows
<1>5. c = <<c[1], c[2]>> /\ c[1] = n
  OBVIOUS
<1>6. HeldOK(t, hd)
  <2> SUFFICES ASSUME NEW b \in DOMAIN hd
               PROVE  /\ b = <<b[1], b[2]>>
                      /\ \E i \in 1 .. Len(t) : BoundAt(t, b, i)
                      /\ \A i \in 1 .. Len(t) : BoundAt(t, b, i) =>
                            /\ b[1] \in RefsOf(t[i])
                            /\ t[i].vars[b[1]].type.field \/ hd[b].path = Whole
                            /\ \E j \in 1 .. i : t[j].id = hd[b].scope
    BY DEF HeldOK
  <2>1. CASE b = c
    <3>1. \A i \in 1 .. Len(t) : BoundAt(t, b, i) => i = k
      BY <1>3, <2>1
    <3>2. t[k].vars[b[1]].type.field \/ hd[b].path = Whole
      BY <1>1, <1>5, <2>1
    <3>3. \E j \in 1 .. k : t[j].id = hd[b].scope
      BY <1>1, <1>3, <1>4, <2>1
    <3>4. b = <<b[1], b[2]>> /\ b[1] \in RefsOf(t[k]) /\ BoundAt(t, b, k) /\ k \in 1 .. Len(t)
      BY <1>3, <1>5, <2>1
    <3> QED BY <3>1, <3>2, <3>3, <3>4
  <2>2. CASE b # c
    <3>1. b \in DOMAIN held /\ hd[b] = held[b]
      BY <1>1, <2>2
    <3>2. /\ b = <<b[1], b[2]>>
          /\ \E i \in 1 .. Len(scopes) : BoundAt(scopes, b, i)
          /\ \A i \in 1 .. Len(scopes) : BoundAt(scopes, b, i) =>
                /\ b[1] \in RefsOf(scopes[i])
                /\ scopes[i].vars[b[1]].type.field \/ held[b].path = Whole
                /\ \E j \in 1 .. i : scopes[j].id = held[b].scope
      BY <1>2, <3>1 DEF HeldOK
    <3>3. \E i \in 1 .. Len(t) : BoundAt(t, b, i)
      BY <1>3, <3>2
    <3>4. ASSUME NEW i \in 1 .. Len(t), BoundAt(t, b, i)
          PROVE  /\ b[1] \in RefsOf(t[i])
                 /\ t[i].vars[b[1]].type.field \/ hd[b].path = Whole
                 /\ \E j \in 1 .. i : t[j].id = hd[b].scope
      <4>1. /\ i \in 1 .. Len(scopes) /\ BoundAt(scopes, b, i)
            /\ t[i].vars[b[1]].type = scopes[i].vars[b[1]].type
        BY <1>3, <2>2, <3>2, <3>4
      <4>2. \A j \in 1 .. i : t[j].id = scopes[j].id
        BY <1>3, <1>4, <4>1
      <4>3. b[1] \in RefsOf(t[i])
        <5>1. t[i].id = scopes[i].id /\ b[1] \in DOMAIN t[i].vars /\ b[1] \in DOMAIN scopes[i].vars
          BY <1>4, <3>4, <4>1 DEF BoundAt
        <5> QED BY <3>2, <4>1, <5>1, RefsSame
      <4> QED BY <3>1, <3>2, <4>1, <4>2, <4>3
    <3> QED BY <3>2, <3>3, <3>4
  <2> QED BY <2>1, <2>2
<1>7. ASSUME NEW i \in 1 .. Len(t), NEW m \in RefsOf(t[i])
      PROVE  <<m, t[i].id>> \in DOMAIN hd
  <2>1. CASE i = k /\ m = n
    BY <1>1, <1>4, <2>1
  <2>2. CASE i # k \/ m # n
    <3>1. m \in RefsOf(scopes[i]) /\ t[i].id = scopes[i].id
      <4>1. m \in DOMAIN t[i].vars
        BY DEF RefsOf
      <4>2. m \in DOMAIN scopes[i].vars /\ t[i].id = scopes[i].id
        BY <1>3, <1>4, <2>2, <4>1 DEF Anew
      <4>3. t[i].vars[m].type = scopes[i].vars[m].type
        BY <1>3, <4>2 DEF Anew, Grows
      <4> QED BY <4>1, <4>2, <4>3, RefsSame
    <3> QED BY <1>1, <1>2, <1>3, <3>1
  <2> QED BY <2>1, <2>2
<1> QED BY <1>6, <1>7

\* What it refers to overlaps with nothing that excludes it.
LEMMA AnewExclusive ==
    ASSUME Here, Exclusive(scopes, held), NEW x \in Exprs, WellFormed(x),
           NEW E, ExprAllowed(x, E), NEW k \in 1 .. Len(scopes), NEW n,
           Innermost(k, n), OthersIn(k, n, E),
           NEW t, Anew(t, k, n), t[k].vars[n].type = TypeOfExpr(x),
           NEW c, c = <<n, scopes[k].id>>, NEW pl, pl = Target(x), NEW hd, hd = Hold(c, pl)
    PROVE  Exclusive(t, hd)
<1>1. /\ DOMAIN hd = DOMAIN held \cup {c} /\ hd[c] = pl
      /\ \A b \in DOMAIN held : b # c => hd[b] = held[b]
  BY DEF Hold
<1>2. Layout(alphabet, scopes, blocks, nextId) /\ HeldOK(scopes, held)
  BY DEF Here
<1>3. /\ Len(t) = Len(scopes) /\ Len(scopes) \in Nat
      /\ \A i \in 1 .. Len(scopes) : BoundAt(t, c, i) => i = k
      /\ \A b : \A i \in 1 .. Len(scopes) :
            /\ BoundAt(scopes, b, i) =>
                  BoundAt(t, b, i) /\ t[i].vars[b[1]].type = scopes[i].vars[b[1]].type
            /\ BoundAt(t, b, i) /\ b = <<b[1], b[2]>> /\ b # c =>
                  BoundAt(scopes, b, i) /\ (i # k \/ b[1] # n)
  BY <1>2, AnewFacts
<1>4. \A b \in DOMAIN held : /\ b = <<b[1], b[2]>>
                             /\ \E i \in 1 .. Len(scopes) : BoundAt(scopes, b, i)
  BY <1>2 DEF HeldOK
<1>5. \A p, q : Overlaps(p, q) => Overlaps(q, p)
  BY DEF Overlaps
<1>6. ASSUME NEW a \in DOMAIN held, NEW i \in 1 .. Len(scopes), BoundAt(scopes, a, i),
             i # k \/ a[1] # n,
             held[a].root = pl.root, held[a].scope = pl.scope, Overlaps(held[a].path, pl.path),
             scopes[i].vars[a[1]].type.mut \/ TypeOfExpr(x).mut
      PROVE  pl.via
  BY <1>6, NoClash
<1> SUFFICES ASSUME NEW a \in DOMAIN hd, NEW b \in DOMAIN hd, NEW i \in 1 .. Len(t),
                    a # b, BoundAt(t, a, i), t[i].vars[a[1]].type.mut,
                    hd[a].root = hd[b].root, hd[a].scope = hd[b].scope,
                    Overlaps(hd[a].path, hd[b].path)
             PROVE  hd[a].via \/ hd[b].via
  BY SMTT(20) DEF Exclusive
<1>7. CASE a = c
  <2>1. b \in DOMAIN held /\ hd[b] = held[b] /\ b # c /\ hd[a] = pl
    BY <1>1, <1>7
  <2>2. PICK q \in 1 .. Len(scopes) : BoundAt(scopes, b, q)
    BY <1>4, <2>1
  <2>3. q # k \/ b[1] # n
    BY <1>3, <1>4, <2>1, <2>2
  <2>4. i = k /\ a[1] = n
    BY <1>3, <1>7
  <2>5. TypeOfExpr(x).mut
    BY <2>4
  <2> QED BY <1>5, <1>6, <2>1, <2>2, <2>3, <2>5
<1>8. CASE a # c
  <2>1. a \in DOMAIN held /\ hd[a] = held[a] /\ a = <<a[1], a[2]>>
    BY <1>1, <1>4, <1>8
  <2>2. /\ i \in 1 .. Len(scopes) /\ BoundAt(scopes, a, i) /\ (i # k \/ a[1] # n)
        /\ scopes[i].vars[a[1]].type.mut
    BY <1>3, <1>8, <2>1
  <2>3. CASE b = c
    <3>1. hd[b] = pl
      BY <1>1, <2>3
    <3> QED BY <1>6, <2>1, <2>2, <3>1
  <2>4. CASE b # c
    <3>1. b \in DOMAIN held /\ hd[b] = held[b]
      BY <1>1, <2>4
    <3> QED BY <2>1, <2>2, <3>1 DEF Exclusive
  <2> QED BY <2>3, <2>4
<1> QED BY <1>7, <1>8

\* What hidden bindings borrow is as it was.
LEMMA AnewHidden ==
    ASSUME Layout(alphabet, scopes, blocks, nextId), NEW k \in 1 .. Len(scopes), NEW n,
           Innermost(k, n), NEW t \in Seq(ScopeSet), Anew(t, k, n)
    PROVE  /\ HiddenKept(scopes, Snapshot(scopes), Snapshot(t), Len(scopes))
           /\ \A i \in 1 .. Len(scopes) : \A m \in DOMAIN scopes[i].vars : i # k \/ m # n =>
                 Dominated(Snapshot(scopes)[i][m], Snapshot(t)[i][m])
           /\ Snapshot(t)[k][n] = t[k].vars[n].prov
<1>1. /\ scopes \in Seq(ScopeSet) /\ Len(scopes) \in Nat /\ Len(t) = Len(scopes)
      /\ \A i \in 1 .. Len(scopes) : DOMAIN scopes[i].vars \subseteq DOMAIN t[i].vars
  BY InnerFacts DEF Anew, Grows
<1>2. \A i \in 1 .. Len(scopes) : \A m \in DOMAIN scopes[i].vars :
         Snapshot(scopes)[i][m] = scopes[i].vars[m].prov
  BY <1>1, SnapshotFacts
<1>3. \A i \in 1 .. Len(t) : \A m \in DOMAIN t[i].vars : Snapshot(t)[i][m] = t[i].vars[m].prov
  BY SnapshotFacts
<1>4. ASSUME NEW i \in 1 .. Len(scopes), NEW m \in DOMAIN scopes[i].vars, i # k \/ m # n
      PROVE  Dominated(Snapshot(scopes)[i][m], Snapshot(t)[i][m])
  <2>1. m \in DOMAIN t[i].vars /\ i \in 1 .. Len(t)
    BY <1>1
  <2>2. t[i].vars[m].prov = scopes[i].vars[m].prov
    BY <1>4, <2>1 DEF Anew
  <2>3. Snapshot(scopes)[i][m] = Snapshot(t)[i][m]
    BY <1>2, <1>3, <2>1, <2>2
  <2> QED BY <2>3, DominatedSelf
<1>5. ASSUME NEW h \in 1 .. Len(scopes), NEW l \in 1 .. (h - 1),
             NEW m \in DOMAIN scopes[h].vars \cap DOMAIN scopes[l].vars
      PROVE  Dominated(Snapshot(scopes)[l][m], Snapshot(t)[l][m])
  <2>1. l \in 1 .. Len(scopes) /\ l < h /\ m \in DOMAIN scopes[l].vars
    BY <1>1
  <2>2. l # k \/ m # n
    BY <2>1 DEF Innermost
  <2> QED BY <1>4, <2>1, <2>2
<1>6. HiddenKept(scopes, Snapshot(scopes), Snapshot(t), Len(scopes))
  BY <1>5 DEF HiddenKept
<1>7. Snapshot(t)[k][n] = t[k].vars[n].prov
  BY <1>1, <1>3 DEF Anew
<1> QED BY <1>4, <1>6, <1>7

\* It is covered, and so is what the other references refer to.
LEMMA AnewCover ==
    ASSUME Here, NEW k \in 1 .. Len(scopes), NEW n, Innermost(k, n),
           NEW t \in Seq(ScopeSet), Anew(t, k, n), NEW c, c = <<n, scopes[k].id>>,
           NEW pl, NEW hd, hd = Hold(c, pl),
           CoveredIn(t, Snapshot(t), n, k, pl, t[k].vars[n].type.mut)
    PROVE  CoverIn(t, hd, Snapshot(t), Len(t))
<1>1. /\ DOMAIN hd = DOMAIN held \cup {c} /\ hd[c] = pl
      /\ \A b \in DOMAIN held : b # c => hd[b] = held[b]
  BY DEF Hold
<1>2. /\ Layout(alphabet, scopes, blocks, nextId) /\ HeldOK(scopes, held)
      /\ CoverIn(scopes, held, Snapshot(scopes), Len(scopes))
  BY DEF Here
<1>3. /\ Len(t) = Len(scopes) /\ Len(scopes) \in Nat
      /\ \A i \in 1 .. Len(scopes) : BoundAt(t, c, i) => i = k
      /\ \A b : \A i \in 1 .. Len(scopes) :
            /\ BoundAt(scopes, b, i) =>
                  BoundAt(t, b, i) /\ t[i].vars[b[1]].type = scopes[i].vars[b[1]].type
            /\ BoundAt(t, b, i) /\ b = <<b[1], b[2]>> /\ b # c =>
                  BoundAt(scopes, b, i) /\ (i # k \/ b[1] # n)
  BY <1>2, AnewFacts
<1>4. /\ HiddenKept(scopes, Snapshot(scopes), Snapshot(t), Len(scopes))
      /\ \A i \in 1 .. Len(scopes) : \A m \in DOMAIN scopes[i].vars : i # k \/ m # n =>
            Dominated(Snapshot(scopes)[i][m], Snapshot(t)[i][m])
  BY <1>2, AnewHidden
<1>5. Grows(scopes, t, Len(scopes))
  BY DEF Anew
<1> SUFFICES ASSUME NEW b \in DOMAIN hd, NEW i \in 1 .. Len(scopes), BoundAt(t, b, i)
             PROVE  CoveredIn(t, Snapshot(t), b[1], i, hd[b], t[i].vars[b[1]].type.mut)
  BY <1>3 DEF CoverIn
<1>6. CASE b = c
  <2>1. i = k /\ b[1] = n /\ hd[b] = pl
    BY <1>1, <1>3, <1>6
  <2> QED BY <2>1
<1>7. CASE b # c
  <2>1. b \in DOMAIN held /\ hd[b] = held[b] /\ b = <<b[1], b[2]>>
    BY <1>1, <1>2, <1>7 DEF HeldOK
  <2>2. /\ BoundAt(scopes, b, i) /\ (i # k \/ b[1] # n)
        /\ t[i].vars[b[1]].type = scopes[i].vars[b[1]].type
    BY <1>3, <1>7, <2>1
  <2>3. CoveredIn(scopes, Snapshot(scopes), b[1], i, hd[b], t[i].vars[b[1]].type.mut)
    BY <1>2, <2>1, <2>2 DEF CoverIn
  <2>4. Dominated(Snapshot(scopes)[i][b[1]], Snapshot(t)[i][b[1]])
    BY <1>4, <2>2 DEF BoundAt
  <2>5. \A place, mut : CoveredIn(scopes, Snapshot(scopes), b[1], i, place, mut) =>
                          CoveredIn(t, Snapshot(t), b[1], i, place, mut)
    BY <1>3, <1>4, <1>5, <2>4, CoveredStays
  <2> QED BY <2>3, <2>5
<1> QED BY <1>6, <1>7

LEMMA HiddenDeeper ==
    ASSUME NEW sc, NEW view, NEW j \in Nat, NEW k \in Nat, j <= k, NEW place, NEW mut,
           HiddenIn(sc, view, j, place, mut)
    PROVE  HiddenIn(sc, view, k, place, mut)
<1>1. 1 .. j \subseteq 1 .. k
  OBVIOUS
<1> QED BY <1>1 DEF HiddenIn

\* All entries are those of the bindings of the scopes.
LEMMA EntriesFacts ==
    \A k, n : /\ OthersIn(k, n, AllEntries)
              /\ k = Level(n) => OthersIn(k, n, EntriesWithout(n))
<1> SUFFICES ASSUME NEW k, NEW n, NEW i \in 1 .. Len(scopes), NEW m \in DOMAIN scopes[i].vars,
                    i # k \/ m # n
             PROVE  /\ scopes[i].vars[m].prov \subseteq AllEntries
                    /\ k = Level(n) => scopes[i].vars[m].prov \subseteq EntriesWithout(n)
  BY DEF OthersIn
<1>1. scopes[i].vars[m].prov \subseteq AllEntries
  BY DEF AllEntries
<1>2. ASSUME k = Level(n) PROVE scopes[i].vars[m].prov \subseteq EntriesWithout(n)
  <2>1. (IF i = Level(n) /\ m = n THEN {} ELSE scopes[i].vars[m].prov) = scopes[i].vars[m].prov
    BY <1>2
  <2> QED BY <2>1 DEF EntriesWithout
<1> QED BY <1>1, <1>2

\* What is known of the references where the execution is.
Known(sc, hd) ==
    /\ HeldOK(sc, hd) /\ Exclusive(sc, hd) /\ CoverIn(sc, hd, Snapshot(sc), Len(sc))
    /\ \A i \in 1 .. Len(sc) : \A m \in RefsOf(sc[i]) : <<m, sc[i].id>> \in DOMAIN hd

\* STMT_LET of a reference that is executed.
LEMMA NewReference ==
    ASSUME Here, Exclusive(scopes, held), NEW n \in alphabet.refs, NEW x \in Exprs,
           LetRef(n, x), ExprAllowed(x, AllEntries), Running
    PROVE  Known(scopes', held')
<1> DEFINE k == Len(scopes)
           t == scopes'
           c == <<n, scopes[k].id>>
           pl == Target(x)
           hd == held'
           P == IF x.root = n THEN Provenance(x, Inner.id, {}) ELSE ProvenanceOf(x)
           mut == TypeOfExpr(x).mut
<1>1. Layout(alphabet, scopes, blocks, nextId)
  BY DEF Here
<1>2. /\ Layout(alphabet', t, blocks', nextId') /\ WellFormed(x)
      /\ Added(scopes, t, n, Binding(TypeOfExpr(x), LetProvenance(n, x)))
  BY <1>1, LetRefFacts
<1>3. /\ scopes \in Seq(ScopeSet) /\ k \in Nat /\ k > 0 /\ k \in 1 .. Len(scopes)
      /\ Inner = scopes[k] /\ alphabet \in Alphabets /\ t \in Seq(ScopeSet) /\ Inner.id \in Nat
  BY <1>1, <1>2, InnerFacts DEF Layout, Scoped
<1>4. hd = Hold(c, pl)
  BY <1>3 DEF LetRef
<1>5. TypeOfExpr(x) \in TypeSet /\ mut \in BOOLEAN
  BY <1>1, <1>2, ExprType DEF TypeSet
<1>6. /\ t[k].vars[n].type = TypeOfExpr(x) /\ t[k].vars[n].prov = As(P, mut)
  BY <1>2 DEF Added, Binding, LetProvenance
<1>7. n \notin DOMAIN scopes[k].vars
  BY <1>2 DEF Added
<1> HIDE DEF P, mut
<1>8. Anew(t, k, n)
  BY <1>2 DEF Anew, Added, Grows
<1>9. Innermost(k, n) /\ OthersIn(k, n, AllEntries)
  BY <1>3, EntriesFacts DEF Innermost
<1>10. /\ Recorded(ProvenanceOf(x), Level(x.root), pl, mut)
       /\ TypeOfExpr(x).field \/ pl.path = Whole
       /\ \E j \in 1 .. Level(x.root) : scopes[j].id = pl.scope
  BY <1>2, TargetRecorded DEF mut
<1>11. Level(x.root) \in 1 .. k
  BY <1>1, <1>2, RootFacts DEF WellFormed
<1>12. \E j \in 1 .. k : scopes[j].id = pl.scope
  BY <1>3, <1>10, <1>11
<1> HIDE DEF c, pl, hd
<1>13. /\ HiddenKept(scopes, Snapshot(scopes), Snapshot(t), Len(scopes))
       /\ Snapshot(t)[k][n] = As(P, mut)
  BY <1>1, <1>3, <1>6, <1>8, <1>9, AnewHidden
<1>14. Grows(scopes, t, Len(scopes))
  BY <1>8 DEF Anew
<1>15. CoveredIn(t, Snapshot(t), n, k, pl, mut)
  <2>1. CASE x.root # n
    <3>1. P = ProvenanceOf(x) /\ P \in SUBSET EntrySet
      BY <1>1, <1>2, <2>1, ProvenanceFacts DEF P
    <3> QED BY <1>3, <1>5, <1>10, <1>11, <1>13, <1>14, <3>1, RegisteredCovers
  <2>2. CASE x.root = n
    <3>1. PICK e \in EntrySet : P = {e} /\ e.root = n /\ e.scope = scopes[k].id
      BY <1>1, <1>2, <1>3, <2>2, OwnPlace DEF P
    <3>2. PICK d \in As(P, mut) : SamePlace(d, e)
      BY <1>5, <3>1, AsFacts
    <3>3. ~ IsParam(d.root, d.scope) /\ d.scope = t[k].id
      <4>1. d.root = n /\ d.scope = scopes[k].id
        BY <3>1, <3>2 DEF SamePlace
      <4>2. ~ IsParam(n, scopes[k].id)
        BY <1>1, <1>3, <1>7 DEF IsParam, Layout, Scoped
      <4> QED BY <1>3, <1>14, <4>1, <4>2 DEF Grows
    <3>4. InScope(n) /\ Level(n) \in 1 .. k /\ n \in DOMAIN scopes[Level(n)].vars
          /\ ScopeOf(n) = scopes[Level(n)].id /\ ScopeOf(n) \in Nat
      BY <1>1, <1>2, <2>2, RootFacts DEF WellFormed
    <3>5. \/ Records(scopes, Snapshot(scopes), Level(n), n, pl, mut)
          \/ \E j \in 1 .. k : HiddenIn(scopes, Snapshot(scopes), j, pl, mut)
      <4>1. CASE LocalRef(n)
        <5>1. TypeOfExpr(x).mut => TypeOf(x.root).mut
          BY <1>1, <1>2, <2>2, <3>4, <4>1, ExprType, RootFacts
        <5>2. \/ \E f \in ProvOf(n) : Covers(f, pl, mut)
              \/ \E j \in 1 .. Level(n) : HiddenIn(scopes, Snapshot(scopes), j, pl, mut)
          BY <1>2, <2>2, <4>1, <5>1, RefTarget DEF pl, mut
        <5>3. Snapshot(scopes)[Level(n)][n] = ProvOf(n)
          BY <1>3, <3>4, SnapshotFacts DEF ProvOf
        <5>4. 1 .. Level(n) \subseteq 1 .. k
          BY <1>3, <3>4
        <5> QED BY <5>2, <5>3, <5>4 DEF Records
      <4>2. CASE ~ LocalRef(n)
        <5>1. ProvOf(n) = {}
          BY <1>1, <3>4, <4>2, RootFacts
        <5>2. PICK f \in EntrySet : /\ ProvenanceOf(x) = {f}
                                   /\ f.root = n /\ f.scope = ScopeOf(n)
          BY <1>1, <1>2, <2>2, <3>4, <5>1, OwnPlace DEF ProvenanceOf
        <5>3. 1 .. Level(n) \subseteq 1 .. k
          BY <1>3, <3>4
        <5> QED BY <1>10, <2>2, <3>4, <5>2, <5>3 DEF Recorded, Records
      <4> QED BY <4>1, <4>2
    <3>7. HiddenIn(t, Snapshot(t), k, pl, mut)
      <4>1. ASSUME NEW j \in 1 .. k, HiddenIn(scopes, Snapshot(scopes), j, pl, mut)
            PROVE  HiddenIn(t, Snapshot(t), k, pl, mut)
        <5>1. HiddenIn(scopes, Snapshot(scopes), k, pl, mut)
          BY <1>3, <4>1, HiddenDeeper
        <5> QED BY <1>3, <1>13, <1>14, <5>1, HiddenStays
      <4>2. CASE Records(scopes, Snapshot(scopes), Level(n), n, pl, mut)
        <5>1. Level(n) \in 1 .. (k - 1)
          BY <1>3, <1>7, <3>4
        <5>2. n \in DOMAIN t[k].vars \cap DOMAIN t[Level(n)].vars
          BY <1>8, <1>14, <3>4 DEF Anew, Grows
        <5>3. Snapshot(t)[Level(n)][n] = Snapshot(scopes)[Level(n)][n]
          <6>1. Snapshot(t)[Level(n)][n] = t[Level(n)].vars[n].prov
            BY <1>3, <1>8, <3>4, <5>2, SnapshotFacts DEF Anew
          <6>2. Snapshot(scopes)[Level(n)][n] = scopes[Level(n)].vars[n].prov
            BY <1>3, <3>4, SnapshotFacts
          <6>3. t[Level(n)].vars[n].prov = scopes[Level(n)].vars[n].prov
            BY <1>3, <1>8, <3>4, <5>1, <5>2 DEF Anew
          <6> QED BY <6>1, <6>2, <6>3
        <5>4. Records(t, Snapshot(t), Level(n), n, pl, mut)
          BY <1>14, <3>4, <4>2, <5>3 DEF Records, Grows
        <5>5. k \in 1 .. k
          BY <1>3
        <5> QED BY <5>1, <5>2, <5>4, <5>5 DEF HiddenIn
      <4> QED BY <3>5, <4>1, <4>2
    <3>8. d \in Snapshot(t)[k][n] /\ k \in 1 .. k
      BY <1>3, <1>13, <3>2
    <3> QED BY <3>3, <3>7, <3>8 DEF CoveredIn
  <2> QED BY <2>1, <2>2
<1>16. UNCHANGED alphabet
  BY DEF LetRef, Statement
<1>17. /\ HeldOK(t, hd)
       /\ \A i \in 1 .. Len(t) : \A m \in RefsOf(t[i]) :
             <<m, t[i].id>> \in DOMAIN hd
  <2>1. /\ c = <<n, scopes[k].id>> /\ k \in 1 .. Len(scopes)
        /\ t[k].vars[n].type.field \/ pl.path = Whole
    BY <1>3, <1>6, <1>10 DEF c
  <2>2. n \in RefsOf(t[k])
    BY <1>1, <1>3, LetRefFacts
  <2> QED BY <2>1, <2>2, <1>4, <1>8, <1>12, AnewHeld
<1>18. Exclusive(t, hd)
  BY <1>2, <1>3, <1>4, <1>6, <1>8, <1>9, AnewExclusive DEF c, pl
<1>19. CoverIn(t, hd, Snapshot(t), Len(t))
  <2>1. CoveredIn(t, Snapshot(t), n, k, pl, t[k].vars[n].type.mut)
    BY <1>6, <1>15 DEF mut
  <2> QED BY <1>3, <1>4, <1>8, <1>9, <2>1, AnewCover DEF c
<1> QED BY <1>16, <1>17, <1>18, <1>19 DEF Known, hd

\* An assignment of a reference that is executed.
LEMMA OtherReference ==
    ASSUME Here, Exclusive(scopes, held), NEW n, NEW x \in Exprs,
           SetRef(n, x), SetAllowed(n, x), Running
    PROVE  Known(scopes', held')
<1> DEFINE k == Level(n)
           t == scopes'
           c == <<n, scopes[k].id>>
           pl == Target(x)
           hd == held'
           P == ProvenanceOf(x)
           mut == TypeOfExpr(x).mut
<1>1. Layout(alphabet, scopes, blocks, nextId)
  BY DEF Here
<1>2. AssignAllowed(n, Whole) /\ ExprAllowed(x, EntriesWithout(n)) /\ Outlives(P, k)
  BY DEF SetAllowed
<1>3. /\ Layout(alphabet', t, blocks', nextId')
      /\ Len(t) = Len(scopes) /\ Frame(scopes, t, Len(scopes))
      /\ t[k].vars[n].prov = As(P, TypeOf(n).mut)
      /\ \A i \in 1 .. Len(scopes) : \A m \in DOMAIN scopes[i].vars :
            i # k \/ m # n => t[i].vars[m].prov = scopes[i].vars[m].prov
      /\ WellFormed(x) /\ InScope(n) /\ TypeOfExpr(x) = TypeOf(n) /\ LocalRef(n)
  BY <1>1, <1>2, SetRefFacts
<1>4. /\ scopes \in Seq(ScopeSet) /\ Len(scopes) \in Nat /\ alphabet \in Alphabets
      /\ t \in Seq(ScopeSet)
  BY <1>1, <1>3, InnerFacts DEF Layout, Scoped
<1>5. k \in 1 .. Len(scopes) /\ n \in DOMAIN scopes[k].vars /\ ScopeOf(n) = scopes[k].id
  BY <1>1, <1>3, RootFacts
<1>6. hd = Hold(c, pl)
  BY <1>2, <1>5 DEF SetRef
<1>7. mut \in BOOLEAN /\ t[k].vars[n].type = TypeOfExpr(x)
  BY <1>1, <1>2, <1>3, <1>5, ExprType DEF TypeSet, Frame, TypeOf
<1>8. Anew(t, k, n)
  BY <1>3, <1>5 DEF Anew, Frame, Grows
<1>9. Innermost(k, n) /\ OthersIn(k, n, EntriesWithout(n))
  BY <1>3, <1>4, LevelFacts, EntriesFacts DEF Innermost
<1>10. /\ Recorded(P, Level(x.root), pl, mut)
       /\ TypeOfExpr(x).field \/ pl.path = Whole
  BY <1>2, <1>3, TargetRecorded
<1>11. Level(x.root) \in 1 .. Len(scopes)
  BY <1>1, <1>3, RootFacts DEF WellFormed
<1> HIDE DEF P, mut, pl
<1>12. Recorded(P, k, pl, mut) /\ \E j \in 1 .. k : scopes[j].id = pl.scope
  <2>1. \A p, m : Recorded(P, Level(x.root), p, m) =>
                     Recorded(P, k, p, m) /\ \E j \in 1 .. k : scopes[j].id = p.scope
    BY <1>1, <1>2, <1>5, <1>11, RecordedOutlives
  <2> QED BY <1>10, <2>1
<1>13. P \in SUBSET EntrySet
  BY <1>1, <1>3, ProvenanceFacts DEF P
<1> HIDE DEF k, c, hd
<1>14. /\ HiddenKept(scopes, Snapshot(scopes), Snapshot(t), Len(scopes))
       /\ Snapshot(t)[k][n] = As(P, mut)
  BY <1>1, <1>3, <1>4, <1>5, <1>8, <1>9, AnewHidden DEF mut
<1>15. Grows(scopes, t, Len(scopes)) /\ k \in 1 .. k
  BY <1>5, <1>8 DEF Anew
<1>16. CoveredIn(t, Snapshot(t), n, k, pl, mut)
  BY <1>4, <1>5, <1>7, <1>12, <1>13, <1>14, <1>15, RegisteredCovers
<1>17. UNCHANGED alphabet
  BY DEF SetRef, Statement
<1>18. /\ HeldOK(t, hd)
       /\ \A i \in 1 .. Len(t) : \A m \in RefsOf(t[i]) :
             <<m, t[i].id>> \in DOMAIN hd
  <2>1. n \in RefsOf(t[k])
    BY <1>3, <1>5, FrameRefs DEF LocalRef, k
  <2> QED BY <1>5, <1>6, <1>7, <1>8, <1>10, <1>12, <2>1, AnewHeld DEF c
<1>19. Exclusive(t, hd)
  BY <1>2, <1>3, <1>5, <1>6, <1>7, <1>8, <1>9, AnewExclusive DEF c, pl
<1>20. CoverIn(t, hd, Snapshot(t), Len(t))
  <2>1. CoveredIn(t, Snapshot(t), n, k, pl, t[k].vars[n].type.mut)
    BY <1>7, <1>16 DEF mut
  <2> QED BY <1>4, <1>5, <1>6, <1>8, <1>9, <2>1, AnewCover DEF c
<1> QED BY <1>17, <1>18, <1>19, <1>20 DEF Known, hd

----------------------------------------------------------------------------
(* The execution is covered: where it runs, by what the bindings borrow    *)
(* now; where it waits for the end of a block, by the state it is waiting  *)
(* for.                                                                    *)

\* Before the arm that is taken, or beside the loop, it is in the state the
\* block began with; after the arm, in one of the states of its arms.
BlockCover(sc, hd, b, k) ==
    /\ b.taken = 0 \/ b.taken > b.arm => CoverIn(sc, hd, b.before, k)
    /\ b.taken \in 1 .. (b.arm - 1) => \E st \in b.states : CoverIn(sc, hd, st, k)

\* What is known of a block that the execution has come to: the arm it takes
\* is possible, and its end is reached.
BlockOK(b) ==
    /\ b.kind = "while" => /\ b.arm = 1 /\ b.taken \in {0, 1}
                           /\ b.taken = 1 => b.cond # "false"
    /\ b.kind # "while" => b.taken >= 1 /\ ArmPossible(b, b.taken)
    /\ b.kind = "if" => b.taken <= 2
    /\ b.taken = b.arm => ~ b.exits
    /\ b.taken \in 1 .. (b.arm - 1) => ~ b.allExit

Followed(sc, bs, hd) ==
    /\ AllHeld(sc, bs, hd)
    /\ LiveBelow(bs, Len(sc)) => CoverIn(sc, hd, Snapshot(sc), Len(sc))
    /\ \A k \in 1 .. Len(bs) : LiveBelow(bs, k) => BlockCover(sc, hd, bs[k], k) /\ BlockOK(bs[k])

\* A jump ends what is known.
HeldInv(sc, bs, hd, ret, jm) ==
    ~ jm => /\ HeldOK(sc, hd) /\ Exclusive(sc, hd)
            /\ \A place \in ret : (place = Nothing \/ IsParam(place.root, place.scope))
            /\ ret = {} => Followed(sc, bs, hd)

\* Where the execution runs.
LEMMA HereFacts ==
    ASSUME Layout(alphabet, scopes, blocks, nextId),
           HeldInv(scopes, blocks, held, returned, jumped), ~ jumped, Running
    PROVE  /\ Here /\ Exclusive(scopes, held) /\ LiveBelow(blocks, Len(scopes))
           /\ \A k \in 1 .. Len(blocks) : BlockOK(blocks[k]) /\ blocks[k].taken = blocks[k].arm
<1>1. /\ Len(blocks) \in Nat /\ Len(scopes) = Len(blocks) + 1
      /\ \A k \in 1 .. Len(blocks) : blocks[k].taken = blocks[k].arm
  BY BlockFacts DEF Running
<1>2. \A i \in 1 .. Len(scopes) : LiveBelow(blocks, i)
  BY <1>1 DEF LiveBelow
<1>3. /\ HeldOK(scopes, held) /\ Exclusive(scopes, held)
      /\ Followed(scopes, blocks, held)
  BY DEF HeldInv, Running
<1>4. Len(scopes) \in 1 .. Len(scopes) /\ \A k \in 1 .. Len(blocks) : k \in 1 .. Len(scopes)
  BY <1>1
<1> QED BY <1>1, <1>2, <1>3, <1>4 DEF Here, Followed, AllHeld

\* Where it does not, though the checker goes on.
LEMMA ElsewhereFacts ==
    ASSUME Layout(alphabet, scopes, blocks, nextId), verdict = "checking", ~ Running,
           returned = {}
    PROVE  ~ LiveBelow(blocks, Len(scopes))
<1>1. Len(blocks) \in Nat /\ Len(scopes) = Len(blocks) + 1
  BY BlockFacts
<1> QED BY <1>1 DEF Running, LiveBelow

\* It runs on: what is known where it runs is all there is to know.
LEMMA KnownInv ==
    ASSUME NEW t, NEW bs, NEW hd, Known(t, hd),
           \A k \in 1 .. Len(bs) : /\ BlockOK(bs[k]) /\ bs[k].taken = bs[k].arm
                                   /\ bs[k].arm \in Nat /\ bs[k].arm >= 1
    PROVE  HeldInv(t, bs, hd, {}, FALSE)
<1>1. \A k \in 1 .. Len(bs) : BlockCover(t, hd, bs[k], k)
  BY DEF BlockCover
<1>2. AllHeld(t, bs, hd)
  BY DEF Known, AllHeld
<1> QED BY <1>1, <1>2 DEF Known, Followed, HeldInv

\* The bindings that hold references stay where they are.
LEMMA KeepsFrom ==
    ASSUME NEW sc, NEW next, Scoped(sc, next), NEW hd, HeldOK(sc, hd),
           NEW t, Len(t) \in Nat, Len(t) >= Len(sc), Grows(sc, t, Len(sc)),
           \A i \in 1 .. Len(t) : i > Len(sc) => DOMAIN t[i].vars = {}
    PROVE  Keeps(sc, t, Len(sc), hd, hd)
<1>1. Len(sc) \in Nat
  BY DEF Scoped
<1> SUFFICES ASSUME NEW b \in DOMAIN hd
             PROVE  /\ \E i \in 1 .. Len(sc) : BoundAt(t, b, i)
                    /\ \A i \in 1 .. Len(t) : BoundAt(t, b, i) =>
                          i \in 1 .. Len(sc) /\ BoundAt(sc, b, i)
  BY <1>1 DEF Keeps
<1>2. PICK i \in 1 .. Len(sc) : BoundAt(sc, b, i)
  BY DEF HeldOK
<1>3. BoundAt(t, b, i)
  BY <1>2 DEF BoundAt, Grows
<1>4. ASSUME NEW j \in 1 .. Len(t), BoundAt(t, b, j)
      PROVE  j \in 1 .. Len(sc) /\ BoundAt(sc, b, j)
  <2>1. j \in 1 .. Len(sc)
    BY <1>1, <1>4 DEF BoundAt
  <2>2. sc[j].id = sc[i].id
    BY <1>2, <1>4, <2>1 DEF BoundAt, Grows
  <2>3. i = j
    BY <2>1, <2>2, UniqueIds
  <2> QED BY <1>2, <2>1, <2>3
<1> QED BY <1>3, <1>4

\* A block is covered as before, when references are dropped with scopes
\* that are inside it.
LEMMA BlockKept ==
    ASSUME NEW sc, NEW t, NEW len, NEW hd, NEW hd2, Keeps(sc, t, len, hd, hd2), Len(t) \in Nat,
           NEW k \in 1 .. len, NEW b, BlockCover(sc, hd, b, k),
           NEW d, d.taken = b.taken, d.arm = b.arm, d.before = b.before, d.states = b.states
    PROVE  BlockCover(t, hd2, d, k)
<1>1. k \in 0 .. len
  BY DEF Keeps
<1>2. \A view : CoverIn(sc, hd, view, k) => CoverIn(t, hd2, view, k)
  BY <1>1, CoverKept, DominatedSelf
<1> QED BY <1>2 DEF BlockCover

\* Nothing is made or assigned where the execution runs.
LEMMA KeptInv ==
    ASSUME NEW al, NEW sc, NEW bs, NEW next, Layout(al, sc, bs, next),
           NEW hd, NEW ret, NEW jm, HeldInv(sc, bs, hd, ret, jm),
           NEW t \in Seq(ScopeSet), Len(t) = Len(sc), Grows(sc, t, Len(sc)),
           ret = {} /\ LiveBelow(bs, Len(sc)) =>
              \A i \in 1 .. Len(sc) :
                 /\ \A n \in DOMAIN sc[i].vars : t[i].vars[n].prov = sc[i].vars[n].prov
                 /\ RefsOf(t[i]) \subseteq RefsOf(sc[i]),
           \A i \in 1 .. Len(sc) : i # Len(sc) => DOMAIN t[i].vars = DOMAIN sc[i].vars
    PROVE  HeldInv(t, bs, hd, ret, jm)
<1> SUFFICES ASSUME ~ jm
             PROVE  /\ HeldOK(t, hd) /\ Exclusive(t, hd)
                    /\ \A place \in ret : (place = Nothing \/ IsParam(place.root, place.scope))
                    /\ ret = {} => Followed(t, bs, hd)
  BY DEF HeldInv
<1>1. /\ HeldOK(sc, hd) /\ Exclusive(sc, hd)
      /\ \A place \in ret : (place = Nothing \/ IsParam(place.root, place.scope))
      /\ ret = {} => Followed(sc, bs, hd)
  BY DEF HeldInv
<1>2. /\ Scoped(sc, next) /\ sc \in Seq(ScopeSet) /\ Len(sc) \in Nat /\ Len(sc) > 0
      /\ Len(bs) \in Nat /\ Len(sc) = Len(bs) + 1
  BY BlockFacts DEF Layout, Scoped
<1>3. Keeps(sc, t, Len(sc), hd, hd)
  <2>1. Len(t) \in Nat /\ Len(t) >= Len(sc) /\ \A i \in 1 .. Len(t) : ~ (i > Len(sc))
    BY <1>2
  <2> QED BY <1>1, <1>2, <2>1, KeepsFrom
<1>4. HeldOK(t, hd) /\ Exclusive(t, hd)
  BY <1>1, <1>2, <1>3, KeptHeld
<1>5. ASSUME ret = {} PROVE Followed(t, bs, hd)
  <2>1. \A k \in 1 .. Len(bs) : LiveBelow(bs, k) => BlockCover(t, hd, bs[k], k) /\ BlockOK(bs[k])
    <3>1. \A k \in 1 .. Len(bs) : k \in 1 .. Len(sc)
      BY <1>2
    <3> QED BY <1>1, <1>2, <1>3, <1>5, <3>1, BlockKept DEF Followed
  <2>2. ASSUME LiveBelow(bs, Len(sc)) PROVE CoverIn(t, hd, Snapshot(t), Len(t))
    <3>1. CoverIn(sc, hd, Snapshot(sc), Len(sc))
      BY <1>1, <1>5, <2>2 DEF Followed
    <3>2. ASSUME NEW i \in 1 .. Len(sc), NEW n \in DOMAIN sc[i].vars
          PROVE  Dominated(Snapshot(sc)[i][n], Snapshot(t)[i][n])
      <4>1. n \in DOMAIN t[i].vars /\ t[i].vars[n].prov = sc[i].vars[n].prov
        BY <1>5, <2>2 DEF Grows
      <4>2. /\ Snapshot(sc)[i][n] = sc[i].vars[n].prov
            /\ Snapshot(t)[i][n] = t[i].vars[n].prov
        BY <1>2, <4>1, SnapshotFacts
      <4> QED BY <4>1, <4>2, DominatedSelf
    <3>3. Len(sc) \in 0 .. Len(sc) /\ Len(t) \in Nat
      BY <1>2
    <3>4. CoverIn(t, hd, Snapshot(t), Len(sc))
      BY <1>3, <3>1, <3>2, <3>3, CoverKept
    <3> QED BY <3>4
  <2>3. AllHeld(t, bs, hd)
    <3> SUFFICES ASSUME NEW i \in 1 .. Len(t), LiveBelow(bs, i),
                        NEW n \in RefsOf(t[i])
                 PROVE  <<n, t[i].id>> \in DOMAIN hd
      BY DEF AllHeld
    <3>1. n \in RefsOf(sc[i])
      <4>1. CASE i = Len(sc)
        BY <1>5, <4>1
      <4>2. CASE i # Len(sc)
        <5>1. /\ n \in DOMAIN t[i].vars /\ n \in DOMAIN sc[i].vars
              /\ t[i].id = sc[i].id /\ t[i].vars[n].type = sc[i].vars[n].type
          BY <4>2 DEF RefsOf, Grows
        <5> QED BY <5>1, RefsSame
      <4> QED BY <4>1, <4>2
    <3>2. t[i].id = sc[i].id
      BY DEF Grows
    <3> QED BY <1>1, <1>5, <3>1, <3>2 DEF Followed, AllHeld
  <2> QED BY <2>1, <2>2, <2>3 DEF Followed
<1> QED BY <1>1, <1>4, <1>5

\* The statements that change no reference the execution holds.
LEMMA HeldQuiet ==
    ASSUME Layout(alphabet, scopes, blocks, nextId),
           HeldInv(scopes, blocks, held, returned, jumped),
           Unmoved \/ LetValue \/ LetFrom \/ MoveOut \/ Refill
    PROVE  HeldInv(scopes', blocks', held', returned', jumped')
<1> DEFINE Result == HeldInv(scopes', blocks', held', returned', jumped')
<1>1. CASE Unmoved
  BY <1>1 DEF Unmoved, runVars
<1>2. ASSUME NEW name, NEW b, Added(scopes, scopes', name, b),
             \A i \in 1 .. Len(scopes) : RefsOf(scopes'[i]) = RefsOf(scopes[i]),
             scopes' \in Seq(ScopeSet), UNCHANGED <<alphabet, blocks, held, returned, jumped>>
      PROVE  Result
  <2>1. Len(scopes') = Len(scopes) /\ Grows(scopes, scopes', Len(scopes))
    BY <1>2 DEF Added, Grows
  <2>2. \A i \in 1 .. Len(scopes) : \A n \in DOMAIN scopes[i].vars :
           scopes'[i].vars[n].prov = scopes[i].vars[n].prov
    BY <1>2 DEF Added
  <2>3. \A i \in 1 .. Len(scopes) : i # Len(scopes) =>
           DOMAIN scopes'[i].vars = DOMAIN scopes[i].vars
    BY <1>2 DEF Added
  <2>4. HeldInv(scopes', blocks, held, returned, jumped)
    BY <1>2, <2>1, <2>2, <2>3, KeptInv
  <2> QED BY <1>2, <2>4
<1>3. CASE LetValue
  <2>1. PICK n : \/ n \in alphabet.shapes /\ LetShape(n)
                 \/ n \in alphabet.owns /\ LetOwned(n)
    BY <1>3 DEF LetValue
  <2>2. /\ Layout(alphabet', scopes', blocks', nextId')
        /\ \A i \in 1 .. Len(scopes) : RefsOf(scopes'[i]) = RefsOf(scopes[i])
        /\ \E b : Added(scopes, scopes', n, b)
    BY <2>1, LetValueFacts
  <2>3. UNCHANGED <<alphabet, blocks, held, returned, jumped>>
    BY <2>1 DEF LetShape, LetOwned, Statement, runVars
  <2>4. scopes' \in Seq(ScopeSet)
    BY <2>2 DEF Layout, Scoped
  <2> QED BY <1>2, <2>2, <2>3, <2>4
<1>4. CASE LetFrom
  <2>1. PICK n \in alphabet.owns : \E f \in alphabet.owns : LetMoved(n, f) /\ MoveAllowed(f)
    BY <1>4 DEF LetFrom
  <2>2. PICK f \in alphabet.owns : LetMoved(n, f) /\ MoveAllowed(f)
    BY <2>1
  <2>3. /\ Layout(alphabet', scopes', blocks', nextId')
        /\ \A i \in 1 .. Len(scopes) : RefsOf(scopes'[i]) = RefsOf(scopes[i])
        /\ \E b : Added(scopes, scopes', n, b)
    BY <2>2, LetMovedFacts
  <2>4. UNCHANGED <<alphabet, blocks, held, returned, jumped>>
    BY <2>2 DEF LetMoved, Statement, runVars
  <2>5. scopes' \in Seq(ScopeSet)
    BY <2>3 DEF Layout, Scoped
  <2> QED BY <1>2, <2>3, <2>4, <2>5
<1>5. CASE MoveOut \/ Refill
  <2>1. PICK n \in alphabet.owns : \/ MoveAway(n) /\ MoveAllowed(n)
                                   \/ SetOwned(n) /\ AssignAllowed(n, Whole)
    BY <1>5 DEF MoveOut, Refill
  <2>2. /\ Layout(alphabet', scopes', blocks', nextId')
        /\ UNCHANGED <<alphabet, blocks, nextId, held, returned, jumped>>
        /\ Len(scopes') = Len(scopes) /\ Frame(scopes, scopes', Len(scopes))
        /\ \A i \in 1 .. Len(scopes) : \A x \in DOMAIN scopes[i].vars :
              scopes'[i].vars[x].prov = scopes[i].vars[x].prov
    BY <2>1, OwnedFacts
  <2>3. scopes' \in Seq(ScopeSet)
    BY <2>2 DEF Layout, Scoped
  <2>4. /\ Grows(scopes, scopes', Len(scopes))
        /\ \A i \in 1 .. Len(scopes) : DOMAIN scopes'[i].vars = DOMAIN scopes[i].vars
    BY <2>2 DEF Grows, Frame
  <2>5. \A i \in 1 .. Len(scopes) : RefsOf(scopes'[i]) = RefsOf(scopes[i])
    BY <2>2, FrameRefs
  <2>6. HeldInv(scopes', blocks, held, returned, jumped)
    BY <2>2, <2>3, <2>4, <2>5, KeptInv
  <2> QED BY <2>2, <2>6
<1> QED BY <1>1, <1>3, <1>4, <1>5

\* A reference is made or assigned.
LEMMA HeldReference ==
    ASSUME Layout(alphabet, scopes, blocks, nextId),
           HeldInv(scopes, blocks, held, returned, jumped),
           LetReference \/ SetReference
    PROVE  HeldInv(scopes', blocks', held', returned', jumped')
<1> SUFFICES ASSUME ~ jumped
             PROVE  HeldInv(scopes', blocks', held', returned', jumped')
  <2>1. jumped' = jumped
    BY DEF LetReference, SetReference, LetRef, SetRef, SetAllowed
  <2> QED BY <2>1 DEF HeldInv
<1>1. Running => Here /\ Exclusive(scopes, held)
                 /\ \A k \in 1 .. Len(blocks) : BlockOK(blocks[k]) /\ blocks[k].taken = blocks[k].arm
  BY HereFacts
<1>2. \A k \in 1 .. Len(blocks) : blocks[k].arm \in Nat /\ blocks[k].arm >= 1
  BY BlockFacts
<1>3. ASSUME Running, Known(scopes', held'),
             UNCHANGED <<alphabet, blocks, returned, jumped>>
      PROVE  HeldInv(scopes', blocks', held', returned', jumped')
  <2>1. HeldInv(scopes', blocks, held', {}, FALSE)
    BY <1>1, <1>2, <1>3, KnownInv
  <2>2. returned = {}
    BY <1>3 DEF Running
  <2> QED BY <1>3, <2>1, <2>2 DEF HeldInv
<1>4. ASSUME ~ Running, verdict = "checking" PROVE ~ (returned = {} /\ LiveBelow(blocks, Len(scopes)))
  BY <1>4, ElsewhereFacts
<1>5. CASE LetReference
  <2>1. PICK n \in alphabet.refs, x \in Exprs : LetRef(n, x) /\ ExprAllowed(x, AllEntries)
    BY <1>5 DEF LetReference
  <2>2. /\ UNCHANGED <<alphabet, blocks, returned, jumped>> /\ verdict = "checking"
        /\ ~ Running => held' = held
    BY <2>1 DEF LetRef, Statement
  <2>3. CASE Running
    <3>1. Known(scopes', held')
      BY <1>1, <2>1, <2>3, NewReference
    <3> QED BY <1>3, <2>2, <2>3, <3>1
  <2>4. CASE ~ Running
    <3>1. /\ Layout(alphabet', scopes', blocks', nextId')
          /\ Added(scopes, scopes', n, Binding(TypeOfExpr(x), LetProvenance(n, x)))
      BY <2>1, LetRefFacts
    <3>2. scopes' \in Seq(ScopeSet)
      BY <3>1 DEF Layout, Scoped
    <3>3. /\ Len(scopes') = Len(scopes) /\ Grows(scopes, scopes', Len(scopes))
          /\ \A i \in 1 .. Len(scopes) : i # Len(scopes) =>
                DOMAIN scopes'[i].vars = DOMAIN scopes[i].vars
      BY <3>1 DEF Added, Grows
    <3>4. HeldInv(scopes', blocks, held, returned, jumped)
      BY <1>4, <2>2, <2>4, <3>2, <3>3, KeptInv
    <3> QED BY <2>2, <2>4, <3>4
  <2> QED BY <2>3, <2>4
<1>6. CASE SetReference
  <2>1. PICK n \in alphabet.refs, x \in Exprs : SetRef(n, x) /\ SetAllowed(n, x)
    BY <1>6 DEF SetReference
  <2>2. /\ UNCHANGED <<alphabet, blocks, returned, jumped>> /\ verdict = "checking"
        /\ ~ Running => held' = held
    BY <2>1 DEF SetRef, SetAllowed, Statement
  <2>3. CASE Running
    <3>1. Known(scopes', held')
      BY <1>1, <2>1, <2>3, OtherReference
    <3> QED BY <1>3, <2>2, <2>3, <3>1
  <2>4. CASE ~ Running
    <3>1. /\ Layout(alphabet', scopes', blocks', nextId')
          /\ Len(scopes') = Len(scopes) /\ Frame(scopes, scopes', Len(scopes))
      BY <2>1, SetRefFacts DEF SetAllowed
    <3>2. scopes' \in Seq(ScopeSet)
      BY <3>1 DEF Layout, Scoped
    <3>3. /\ Grows(scopes, scopes', Len(scopes))
          /\ \A i \in 1 .. Len(scopes) : DOMAIN scopes'[i].vars = DOMAIN scopes[i].vars
      BY <3>1 DEF Frame, Grows
    <3>4. HeldInv(scopes', blocks, held, returned, jumped)
      BY <1>4, <2>2, <2>4, <3>1, <3>2, <3>3, KeptInv
    <3> QED BY <2>2, <2>4, <3>4
  <2> QED BY <2>3, <2>4
<1> QED BY <1>5, <1>6

\* The body is left.
LEMMA HeldLeaveBody ==
    ASSUME Layout(alphabet, scopes, blocks, nextId),
           HeldInv(scopes, blocks, held, returned, jumped), LeaveBody
    PROVE  HeldInv(scopes', blocks', held', returned', jumped')
<1>1. /\ UNCHANGED <<alphabet, scopes, nextId, held, jumped>>
      /\ blocks' = Exits(blocks) /\ verdict = "checking"
      /\ ~ Running => returned' = returned
      /\ Running => returned' # {}
  BY LeaveBodyFacts
<1> SUFFICES ASSUME ~ jumped
             PROVE  /\ HeldOK(scopes, held) /\ Exclusive(scopes, held)
                    /\ \A place \in returned' : (place = Nothing \/ IsParam(place.root, place.scope))
                    /\ returned' = {} => Followed(scopes, blocks', held)
  BY <1>1 DEF HeldInv
<1>2. /\ HeldOK(scopes, held) /\ Exclusive(scopes, held)
      /\ \A place \in returned : (place = Nothing \/ IsParam(place.root, place.scope))
      /\ returned = {} => Followed(scopes, blocks, held)
  BY DEF HeldInv
<1>3. CASE Running
  <2>1. CASE Return
    <3>1. returned' = {Nothing}
      BY <1>3, <2>1 DEF Return
    <3> QED BY <1>2, <3>1
  <2>2. CASE \E x \in Exprs : ReturnRef(x) /\ ExprAllowed(x, AllEntries) /\ MayReturn(ProvenanceOf(x))
    <3>1. PICK x \in Exprs : /\ ReturnRef(x) /\ ExprAllowed(x, AllEntries)
                             /\ MayReturn(ProvenanceOf(x))
      BY <2>2
    <3>2. returned' = {Target(x)} /\ WellFormed(x)
      BY <1>3, <3>1 DEF ReturnRef
    <3>3. Recorded(ProvenanceOf(x), Level(x.root), Target(x), TypeOfExpr(x).mut)
      BY <1>3, <3>1, <3>2, HereFacts, TargetRecorded
    <3>4. \A f \in ProvenanceOf(x) : IsParam(f.root, f.scope)
      BY <3>1, <3>2, ProvenanceFacts DEF MayReturn
    <3>5. IsParam(Target(x).root, Target(x).scope)
      BY <3>3, <3>4 DEF Recorded
    <3> QED BY <1>2, <3>2, <3>5
  <2> QED BY <2>1, <2>2 DEF LeaveBody
<1>4. CASE ~ Running
  <2>1. ASSUME returned = {} PROVE Followed(scopes, blocks', held)
    <3>1. /\ blocks \in Seq(BlockSet) /\ Len(blocks) \in Nat /\ Len(scopes) = Len(blocks) + 1
      BY BlockFacts
    <3>2. /\ Len(blocks') = Len(blocks)
          /\ \A k \in 1 .. Len(blocks) :
                /\ blocks'[k].before = blocks[k].before /\ blocks'[k].states = blocks[k].states
                /\ blocks'[k].kind = blocks[k].kind /\ blocks'[k].cond = blocks[k].cond
                /\ blocks'[k].arm = blocks[k].arm /\ blocks'[k].taken = blocks[k].taken
                /\ blocks'[k].allExit = blocks[k].allExit
                /\ k # Len(blocks) => blocks'[k] = blocks[k]
      BY <1>1, <3>1, ExitsFacts
    <3>3. ASSUME NEW k \in 1 .. Len(scopes)
          PROVE  LiveBelow(blocks', k) = LiveBelow(blocks, k)
      <4>1. 1 .. (k - 1) \subseteq 1 .. Len(blocks)
        BY <3>1
      <4> QED BY <3>2, <4>1 DEF LiveBelow
    <3>4. ~ LiveBelow(blocks, Len(scopes)) /\ Followed(scopes, blocks, held)
      BY <1>1, <1>2, <1>4, <2>1, ElsewhereFacts
    <3>5. AllHeld(scopes, blocks', held)
      BY <3>3, <3>4 DEF Followed, AllHeld
    <3>6. Len(scopes) \in 1 .. Len(scopes)
      BY <3>1
    <3>7. ASSUME NEW k \in 1 .. Len(blocks), LiveBelow(blocks', k)
          PROVE  BlockCover(scopes, held, blocks'[k], k) /\ BlockOK(blocks'[k])
      <4>1. k \in 1 .. Len(scopes)
        BY <3>1
      <4>2. BlockCover(scopes, held, blocks[k], k) /\ BlockOK(blocks[k])
        BY <3>3, <3>4, <3>7, <4>1 DEF Followed
      <4>3. BlockCover(scopes, held, blocks'[k], k)
        BY <3>2, <4>2 DEF BlockCover
      <4>4. CASE k # Len(blocks)
        BY <3>2, <4>2, <4>4
      <4>5. CASE k = Len(blocks)
        <5>1. LiveBelow(blocks, k)
          BY <3>3, <3>7, <4>1
        <5>2. blocks[k].taken # blocks[k].arm
          BY <3>1, <3>4, <4>5, <5>1 DEF LiveBelow
        <5>3. \A a : ArmPossible(blocks'[k], a) = ArmPossible(blocks[k], a)
          BY <3>2 DEF ArmPossible
        <5>4. BlockOK(blocks'[k])
          BY <3>2, <4>2, <5>2, <5>3 DEF BlockOK
        <5> QED BY <4>3, <5>4
      <4> QED BY <4>3, <4>4, <4>5
    <3> QED BY <3>2, <3>3, <3>4, <3>5, <3>6, <3>7 DEF Followed
  <2> QED BY <1>1, <1>2, <1>4, <2>1
<1> QED BY <1>3, <1>4

\* A view of the scopes around an innermost one that is empty covers as much
\* as it does with that one.
LEMMA CoverEmpty ==
    ASSUME NEW sc, NEW hd, NEW view, NEW len \in Nat, CoverIn(sc, hd, view, len),
           DOMAIN sc[len + 1].vars = {}
    PROVE  CoverIn(sc, hd, view, len + 1)
<1>1. \A i \in 1 .. (len + 1) : i \in 1 .. len \/ i = len + 1
  OBVIOUS
<1> QED BY <1>1 DEF CoverIn, BoundAt

LEMMA CoverFewer ==
    ASSUME NEW sc, NEW hd, NEW view, NEW len \in Nat, CoverIn(sc, hd, view, len + 1)
    PROVE  CoverIn(sc, hd, view, len)
<1>1. 1 .. len \subseteq 1 .. (len + 1)
  OBVIOUS
<1> QED BY <1>1 DEF CoverIn

\* A block is opened.
LEMMA HeldOpen ==
    ASSUME Layout(alphabet, scopes, blocks, nextId),
           HeldInv(scopes, blocks, held, returned, jumped), OpenBlock
    PROVE  HeldInv(scopes', blocks', held', returned', jumped')
<1> DEFINE m == Len(blocks)
           t == scopes'
<1>0. m = Len(blocks) /\ t = scopes'
  OBVIOUS
<1> HIDE DEF m, t
<1>1. PICK kind \in {"if", "match", "while"}, cond \in Conditions : Open(kind, cond)
  BY DEF OpenBlock
<1>2. UNCHANGED <<alphabet, held, returned, jumped>> /\ verdict = "checking"
  BY <1>1 DEF Open, Statement, runVars
<1>3. /\ Layout(alphabet', t, blocks', nextId')
      /\ m \in Nat /\ Len(scopes) = m + 1 /\ Len(t) = m + 2
      /\ \A i \in 1 .. (m + 1) : t[i] = scopes[i]
      /\ DOMAIN t[m + 2].vars = {}
      /\ Len(blocks') = m + 1 /\ \A k \in 1 .. m : blocks'[k] = blocks[k]
      /\ Begun(blocks'[m + 1], kind, cond)
  BY <1>0, <1>1, OpenFacts
<1>4. scopes \in Seq(ScopeSet) /\ t \in Seq(ScopeSet) /\ Scoped(scopes, nextId)
  BY <1>3 DEF Layout, Scoped
<1> SUFFICES ASSUME ~ jumped
             PROVE  /\ HeldOK(t, held) /\ Exclusive(t, held)
                    /\ \A place \in returned : (place = Nothing \/ IsParam(place.root, place.scope))
                    /\ returned = {} => Followed(t, blocks', held)
  BY <1>2 DEF HeldInv, t
<1>5. /\ HeldOK(scopes, held) /\ Exclusive(scopes, held)
      /\ \A place \in returned : (place = Nothing \/ IsParam(place.root, place.scope))
      /\ returned = {} => Followed(scopes, blocks, held)
  BY DEF HeldInv
<1>6. Keeps(scopes, t, Len(scopes), held, held)
  <2>1. Grows(scopes, t, Len(scopes))
    BY <1>3 DEF Grows
  <2>2. /\ Len(t) \in Nat /\ Len(t) >= Len(scopes)
        /\ \A i \in 1 .. Len(t) : i > Len(scopes) => DOMAIN t[i].vars = {}
    <3>1. \A i \in 1 .. (m + 2) : i > m + 1 => i = m + 2
      BY <1>3
    <3> QED BY <1>3, <3>1
  <2> QED BY <1>4, <1>5, <2>1, <2>2, KeepsFrom
<1>7. HeldOK(t, held) /\ Exclusive(t, held)
  BY <1>4, <1>5, <1>6, KeptHeld
<1>8. ASSUME returned = {} PROVE Followed(t, blocks', held)
  <2>1. Followed(scopes, blocks, held)
    BY <1>5, <1>8
  <2>2. ASSUME NEW k \in 1 .. (m + 1) PROVE LiveBelow(blocks', k) = LiveBelow(blocks, k)
    <3>1. 1 .. (k - 1) \subseteq 1 .. m
      BY <1>3
    <3> QED BY <1>3, <3>1 DEF LiveBelow
  <2>3. m + 1 \in 1 .. (m + 1) /\ m + 1 \in 0 .. (m + 1) /\ m + 1 \in Nat /\ Len(t) \in Nat
    BY <1>3
  <2>4. LiveBelow(blocks, m + 1) => Running
    <3>1. Len(blocks) = m
      BY DEF m
    <3> QED BY <1>2, <1>3, <1>8, <3>1, ElsewhereFacts
  <2>5. ASSUME LiveBelow(blocks, m + 1)
        PROVE  CoverIn(t, held, Snapshot(scopes), m + 1) /\ CoverIn(t, held, Snapshot(t), m + 1)
    <3>1. CoverIn(scopes, held, Snapshot(scopes), m + 1)
      BY <1>3, <2>1, <2>5 DEF Followed
    <3>2. ASSUME NEW i \in 1 .. (m + 1), NEW n \in DOMAIN scopes[i].vars
          PROVE  Snapshot(scopes)[i][n] = Snapshot(t)[i][n]
      <4>1. i \in 1 .. Len(scopes) /\ i \in 1 .. Len(t) /\ n \in DOMAIN t[i].vars
            /\ t[i].vars[n].prov = scopes[i].vars[n].prov
        BY <1>3
      <4>2. Snapshot(scopes)[i][n] = scopes[i].vars[n].prov /\ Snapshot(t)[i][n] = t[i].vars[n].prov
        BY <1>4, <4>1, SnapshotFacts
      <4> QED BY <4>1, <4>2
    <3>0. m + 1 \in 0 .. Len(scopes)
      BY <1>3
    <3>3. CoverIn(t, held, Snapshot(scopes), m + 1)
      <4>1. \A i \in 1 .. (m + 1) : \A n \in DOMAIN scopes[i].vars :
               Dominated(Snapshot(scopes)[i][n], Snapshot(scopes)[i][n])
        BY DominatedSelf
      <4> QED BY <1>6, <2>3, <3>0, <3>1, <4>1, CoverKept
    <3>4. \A i \in 1 .. (m + 1) : \A n \in DOMAIN scopes[i].vars :
             Dominated(Snapshot(scopes)[i][n], Snapshot(t)[i][n])
      BY <3>2, DominatedSelf
    <3>5. CoverIn(t, held, Snapshot(t), m + 1)
      BY <1>6, <2>3, <3>0, <3>1, <3>4, CoverKept
    <3> QED BY <3>3, <3>5
  <2>6. LiveBelow(blocks', m + 2) => LiveBelow(blocks', m + 1)
    <3>1. 1 .. ((m + 1) - 1) \subseteq 1 .. ((m + 2) - 1)
      BY <1>3
    <3> QED BY <3>1 DEF LiveBelow
  <2>7. ASSUME LiveBelow(blocks', Len(t)) PROVE CoverIn(t, held, Snapshot(t), Len(t))
    <3>1. CoverIn(t, held, Snapshot(t), m + 1)
      BY <1>3, <2>2, <2>3, <2>5, <2>6, <2>7
    <3>2. (m + 1) + 1 = m + 2
      BY <1>3
    <3> QED BY <1>3, <2>3, <3>1, <3>2, CoverEmpty
  <2>8. AllHeld(t, blocks', held)
    <3> SUFFICES ASSUME NEW i \in 1 .. Len(t), LiveBelow(blocks', i),
                        NEW n \in RefsOf(t[i])
                 PROVE  <<n, t[i].id>> \in DOMAIN held
      BY DEF AllHeld
    <3>1. i \in 1 .. (m + 1)
      <4>1. i \in 1 .. (m + 1) \/ i = m + 2
        BY <1>3
      <4> QED BY <1>3, <4>1 DEF RefsOf
    <3> QED BY <1>3, <2>1, <2>2, <3>1 DEF Followed, AllHeld
  <2>9. ASSUME NEW k \in 1 .. Len(blocks'), LiveBelow(blocks', k)
        PROVE  BlockCover(t, held, blocks'[k], k) /\ BlockOK(blocks'[k])
    <3>1. k \in 1 .. (m + 1)
      BY <1>3
    <3>2. CASE k \in 1 .. m
      <4>1. blocks'[k] = blocks[k] /\ k \in 1 .. Len(blocks) /\ k \in 1 .. Len(scopes)
        BY <1>3, <3>2 DEF m
      <4>2. BlockCover(scopes, held, blocks[k], k) /\ BlockOK(blocks[k])
        BY <2>1, <2>2, <2>9, <3>1, <4>1 DEF Followed
      <4>3. BlockCover(t, held, blocks'[k], k)
        BY <1>6, <2>3, <4>1, <4>2, BlockKept
      <4> QED BY <4>1, <4>2, <4>3
    <3>3. CASE k = m + 1
      <4>1. LiveBelow(blocks, m + 1)
        BY <2>2, <2>9, <3>1, <3>3
      <4>2. Running /\ CoverIn(t, held, Snapshot(scopes), m + 1)
        BY <2>4, <2>5, <4>1
      <4> DEFINE b == blocks'[m + 1]
      <4>3. /\ b.kind = kind /\ b.cond = cond /\ b.before = Snapshot(scopes)
            /\ b.arm = 1 /\ b.exits = FALSE
            /\ kind = "if" => b.taken \in 1 .. 2
            /\ kind = "match" => b.taken \in 1 .. MaxArms
            /\ kind = "while" => b.taken \in 0 .. 1
            /\ kind = "if" /\ cond # "unknown" => b.taken = IF cond = "true" THEN 1 ELSE 2
            /\ kind = "while" /\ cond # "unknown" => b.taken = IF cond = "true" THEN 1 ELSE 0
        BY <1>3, <4>2 DEF Begun
      <4> HIDE DEF b
      <4>4. BlockCover(t, held, b, m + 1)
        BY <4>2, <4>3 DEF BlockCover
      <4>5. BlockOK(b)
        <5>1. kind = "match" => b.taken >= 1
          BY <4>3, BorrowsAssumption
        <5>2. kind # "while" => b.taken >= 1 /\ ArmPossible(b, b.taken)
          BY <4>3, <5>1 DEF ArmPossible, Conditions
        <5> QED BY <4>3, <5>2 DEF BlockOK
      <4> QED BY <3>3, <4>4, <4>5 DEF b
    <3> QED BY <1>3, <3>1, <3>2, <3>3
  <2> QED BY <2>7, <2>8, <2>9 DEF Followed
<1> QED BY <1>5, <1>7, <1>8

\* A block is left, or its next arm is begun: references go with the scope
\* of its body.
LEMMA LeaveKeeps ==
    ASSUME Layout(alphabet, scopes, blocks, nextId), HeldOK(scopes, held),
           NEW m \in Nat, m >= 1, Len(scopes) = m + 1, RunIn(Outer(scopes)),
           NEW t, Len(t) \in m .. (m + 1), Frame(scopes, t, m),
           \A i \in 1 .. Len(t) : i > m => DOMAIN t[i].vars = {},
           NEW hd, hd = held'
    PROVE  /\ Keeps(scopes, t, m, held, hd)
           /\ \A b \in DOMAIN held : \A i \in 1 .. m : BoundAt(scopes, b, i) => b \in DOMAIN hd
<1>1. /\ DOMAIN hd = {b \in DOMAIN held :
                         b[2] \in {Outer(scopes)[j].id : j \in 1 .. Len(Outer(scopes))}}
      /\ \A b \in DOMAIN hd : hd[b] = held[b]
  BY DEF RunIn, OnlyIn
<1>2. \A b : \A i \in 1 .. Len(scopes) : BoundAt(scopes, b, i) =>
         (b[2] \in {Outer(scopes)[j].id : j \in 1 .. Len(Outer(scopes))} <=> i \in 1 .. m)
  BY LeftScope
<1>3. \A i \in 1 .. m : i \in 1 .. Len(scopes)
  OBVIOUS
<1>4. Grows(scopes, t, m) /\ \A b : \A i \in 1 .. m : BoundAt(t, b, i) <=> BoundAt(scopes, b, i)
  BY DEF Grows, Frame, BoundAt
<1>5. ASSUME NEW b \in DOMAIN hd
      PROVE  /\ b \in DOMAIN held /\ hd[b] = held[b]
             /\ \E i \in 1 .. m : BoundAt(t, b, i)
             /\ \A i \in 1 .. Len(t) : BoundAt(t, b, i) => i \in 1 .. m /\ BoundAt(scopes, b, i)
  <2>1. /\ b \in DOMAIN held /\ hd[b] = held[b]
        /\ b[2] \in {Outer(scopes)[j].id : j \in 1 .. Len(Outer(scopes))}
    BY <1>1
  <2>2. PICK i \in 1 .. Len(scopes) : BoundAt(scopes, b, i)
    BY <2>1 DEF HeldOK
  <2>3. i \in 1 .. m /\ BoundAt(t, b, i)
    BY <1>2, <1>4, <2>1, <2>2
  <2>4. ASSUME NEW j \in 1 .. Len(t), BoundAt(t, b, j) PROVE j \in 1 .. m /\ BoundAt(scopes, b, j)
    <3>1. ~ j > m
      BY <2>4 DEF BoundAt
    <3>2. j \in 1 .. m
      BY <3>1
    <3> QED BY <1>4, <2>4, <3>2
  <2> QED BY <2>1, <2>3, <2>4
<1>6. Keeps(scopes, t, m, held, hd)
  BY <1>4, <1>5 DEF Keeps
<1>7. \A b \in DOMAIN held : \A i \in 1 .. m : BoundAt(scopes, b, i) => b \in DOMAIN hd
  BY <1>1, <1>2, <1>3
<1> QED BY <1>6, <1>7

LEMMA CoverSame ==
    ASSUME NEW sc, NEW hd, NEW view, NEW w, NEW len \in Nat, CoverIn(sc, hd, view, len),
           \A i \in 1 .. len : \A n \in DOMAIN sc[i].vars : view[i][n] = w[i][n]
    PROVE  CoverIn(sc, hd, w, len)
<1>1. Grows(sc, sc, len)
  BY DEF Grows
<1>2. \A i \in 1 .. len : \A n \in DOMAIN sc[i].vars : Dominated(view[i][n], w[i][n])
  BY DominatedSelf
<1>3. HiddenKept(sc, view, w, len)
  <2> SUFFICES ASSUME NEW h \in 1 .. len, NEW l \in 1 .. (h - 1),
                      NEW n \in DOMAIN sc[h].vars \cap DOMAIN sc[l].vars
               PROVE  Dominated(view[l][n], w[l][n])
    BY DEF HiddenKept
  <2>1. l \in 1 .. len
    OBVIOUS
  <2> QED BY <1>2, <2>1
<1>4. \A b \in DOMAIN hd : \A i \in 1 .. len : BoundAt(sc, b, i) =>
         Dominated(view[i][b[1]], w[i][b[1]])
  BY <1>2 DEF BoundAt
<1> QED BY <1>1, <1>3, <1>4, CoverStays

\* The execution is at the end of an arm: the checker captures a state that
\* covers it.
LEMMA TopReached ==
    ASSUME Layout(alphabet, scopes, blocks, nextId), Followed(scopes, blocks, held),
           NEW m, m = Len(blocks), m >= 1, LiveBelow(blocks, m),
           blocks[m].taken = blocks[m].arm
    PROVE  /\ Captured(blocks[m]) = {Snapshot(Outer(scopes))}
           /\ CoverIn(scopes, held, Snapshot(Outer(scopes)), m)
<1>1. /\ m \in Nat /\ Len(scopes) = m + 1 /\ m \in 1 .. Len(blocks)
      /\ scopes \in Seq(ScopeSet) /\ blocks[m].arm >= 1
  BY BlockFacts DEF Layout, Scoped
<1>2. LiveBelow(blocks, m + 1)
  <2>1. \A j \in 1 .. ((m + 1) - 1) : j \in 1 .. (m - 1) \/ j = m
    BY <1>1
  <2> QED BY <2>1 DEF LiveBelow
<1>3. CoverIn(scopes, held, Snapshot(scopes), m)
  BY <1>1, <1>2, CoverFewer DEF Followed
<1>4. \A i \in 1 .. m : \A n \in DOMAIN scopes[i].vars :
         Snapshot(scopes)[i][n] = Snapshot(Outer(scopes))[i][n]
  <2>1. \A i \in 1 .. m : \A n \in DOMAIN scopes[i].vars :
           Snapshot(Outer(scopes))[i][n] = scopes[i].vars[n].prov
    <3>1. (m + 1) - 1 = m
      BY <1>1
    <3> QED BY <1>1, <3>1, OuterView
  <2>2. \A i \in 1 .. m : i \in 1 .. Len(scopes)
    BY <1>1
  <2> QED BY <1>1, <2>1, <2>2, SnapshotFacts
<1>5. CoverIn(scopes, held, Snapshot(Outer(scopes)), m)
  BY <1>1, <1>3, <1>4, CoverSame
<1>6. BlockOK(blocks[m])
  BY <1>1 DEF Followed
<1>7. Continues(blocks[m])
  BY <1>1, <1>6 DEF BlockOK, Continues
<1> QED BY <1>5, <1>7 DEF Captured

\* The next arm is begun.
LEMMA HeldNextArm ==
    ASSUME Layout(alphabet, scopes, blocks, nextId),
           HeldInv(scopes, blocks, held, returned, jumped), NextArm
    PROVE  HeldInv(scopes', blocks', held', returned', jumped')
<1> DEFINE m == Len(blocks)
           t == scopes'
           hd == held'
           b == blocks[m]
           d == blocks'[m]
<1>0. m = Len(blocks) /\ t = scopes' /\ hd = held'
  OBVIOUS
<1> HIDE DEF m
<1>1. /\ Layout(alphabet', scopes', blocks', nextId')
      /\ m \in Nat /\ m >= 1 /\ Len(scopes) = m + 1 /\ Len(scopes') = m + 1
      /\ Frame(scopes, scopes', m)
      /\ Provs(scopes', blocks[m].before, m)
      /\ DOMAIN scopes'[m + 1].vars = {}
      /\ Len(blocks') = m /\ \A k \in 1 .. (m - 1) : blocks'[k] = blocks[k]
      /\ blocks'[m].kind = blocks[m].kind /\ blocks'[m].cond = blocks[m].cond
      /\ blocks'[m].before = blocks[m].before /\ blocks'[m].taken = blocks[m].taken
      /\ blocks'[m].states = blocks[m].states \cup Captured(blocks[m])
      /\ blocks'[m].arm = blocks[m].arm + 1 /\ blocks'[m].exits = FALSE
      /\ blocks'[m].allExit = (blocks[m].allExit /\ blocks[m].exits)
      /\ blocks[m].kind # "while"
  BY <1>0, NextArmFacts
<1>2. UNCHANGED <<alphabet, returned, jumped>> /\ RunIn(Outer(scopes))
  BY DEF NextArm, Statement
<1>3. /\ scopes \in Seq(ScopeSet) /\ t \in Seq(ScopeSet) /\ m \in 1 .. Len(blocks)
      /\ b.arm \in Nat /\ b.arm >= 1 /\ b.taken \in Nat
      /\ b.exits \in BOOLEAN /\ b.allExit \in BOOLEAN
  <2>1. scopes \in Seq(ScopeSet) /\ t \in Seq(ScopeSet)
    BY <1>1 DEF Layout, Scoped
  <2>2. m \in 1 .. Len(blocks)
    BY <1>0, <1>1
  <2>3. /\ blocks[m].arm \in Nat /\ blocks[m].arm >= 1 /\ blocks[m].taken \in Nat
        /\ blocks[m].exits \in BOOLEAN /\ blocks[m].allExit \in BOOLEAN
    BY <2>2, BlockFacts
  <2> QED BY <2>1, <2>2, <2>3
<1> SUFFICES ASSUME ~ jumped
             PROVE  /\ HeldOK(t, hd) /\ Exclusive(t, hd)
                    /\ \A place \in returned : (place = Nothing \/ IsParam(place.root, place.scope))
                    /\ returned = {} => Followed(t, blocks', hd)
  BY <1>2 DEF HeldInv
<1>4. /\ HeldOK(scopes, held) /\ Exclusive(scopes, held)
      /\ \A place \in returned : (place = Nothing \/ IsParam(place.root, place.scope))
      /\ returned = {} => Followed(scopes, blocks, held)
  BY DEF HeldInv
<1> HIDE DEF t, hd, b, d
<1>5. /\ Keeps(scopes, t, m, held, hd)
      /\ \A c \in DOMAIN held : \A i \in 1 .. m : BoundAt(scopes, c, i) => c \in DOMAIN hd
  <2>1. Len(t) \in m .. (m + 1) /\ \A i \in 1 .. Len(t) : i > m => DOMAIN t[i].vars = {}
    <3>1. \A i \in 1 .. (m + 1) : i > m => i = m + 1
      BY <1>1
    <3> QED BY <1>1, <3>1 DEF t
  <2>2. Frame(scopes, t, m)
    BY <1>1 DEF t
  <2> QED BY <1>1, <1>2, <1>4, <2>1, <2>2, LeaveKeeps DEF hd
<1>6. HeldOK(t, hd) /\ Exclusive(t, hd)
  BY <1>3, <1>4, <1>5, KeptHeld
<1>7. ASSUME returned = {} PROVE Followed(t, blocks', hd)
  <2>1. Followed(scopes, blocks, held)
    BY <1>4, <1>7
  <2>2. ASSUME NEW k \in 1 .. m PROVE LiveBelow(blocks', k) = LiveBelow(blocks, k)
    <3>1. 1 .. (k - 1) \subseteq 1 .. (m - 1)
      BY <1>1
    <3> QED BY <1>1, <3>1 DEF LiveBelow
  <2>3. m \in 1 .. m /\ m \in 0 .. m /\ Len(t) \in Nat /\ Len(t) = m + 1
    BY <1>1 DEF t
  <2>4. ASSUME NEW view, CoverIn(scopes, held, view, m) PROVE CoverIn(t, hd, view, m)
    <3>1. \A i \in 1 .. m : \A n \in DOMAIN scopes[i].vars : Dominated(view[i][n], view[i][n])
      BY DominatedSelf
    <3> QED BY <1>5, <2>3, <2>4, <3>1, CoverKept
  <2>5. ASSUME LiveBelow(blocks, m)
        PROVE  BlockCover(scopes, held, b, m) /\ BlockOK(b)
    BY <1>3, <2>1, <2>5 DEF Followed, b
  <2>6. /\ d.kind = b.kind /\ d.cond = b.cond /\ d.before = b.before /\ d.taken = b.taken
        /\ d.states = b.states \cup Captured(b) /\ d.arm = b.arm + 1 /\ d.exits = FALSE
        /\ d.allExit = (b.allExit /\ b.exits) /\ b.kind # "while"
    BY <1>1 DEF b, d
  <2>7. ASSUME LiveBelow(blocks, m) PROVE BlockCover(t, hd, d, m) /\ BlockOK(d)
    <3>1. BlockCover(scopes, held, b, m) /\ BlockOK(b)
      BY <2>5, <2>7
    <3>2. ASSUME d.taken = 0 \/ d.taken > d.arm PROVE CoverIn(t, hd, d.before, m)
      BY <1>3, <2>4, <2>6, <3>1, <3>2 DEF BlockCover
    <3>3. ASSUME d.taken \in 1 .. (d.arm - 1) PROVE \E st \in d.states : CoverIn(t, hd, st, m)
      <4>1. b.taken \in 1 .. (b.arm - 1) \/ b.taken = b.arm
        BY <1>3, <2>6, <3>3
      <4>2. CASE b.taken \in 1 .. (b.arm - 1)
        BY <2>4, <2>6, <3>1, <4>2 DEF BlockCover
      <4>3. CASE b.taken = b.arm
        <5>1. /\ Captured(b) = {Snapshot(Outer(scopes))}
              /\ CoverIn(scopes, held, Snapshot(Outer(scopes)), m)
          BY <1>0, <1>1, <2>1, <2>7, <4>3, TopReached DEF b
        <5> QED BY <2>4, <2>6, <5>1
      <4> QED BY <4>1, <4>2, <4>3
    <3>4. BlockCover(t, hd, d, m)
      BY <3>2, <3>3 DEF BlockCover
    <3>5. BlockOK(d)
      <4>1. \A a : ArmPossible(d, a) = ArmPossible(b, a)
        BY <2>6 DEF ArmPossible
      <4>2. d.taken >= 1 /\ ArmPossible(d, d.taken) /\ (d.kind = "if" => d.taken <= 2)
        BY <2>6, <3>1, <4>1 DEF BlockOK
      <4>3. d.taken \in 1 .. (d.arm - 1) => ~ d.allExit
        <5>1. b.taken \in 1 .. b.arm => ~ (b.allExit /\ b.exits)
          <6>1. b.taken \in 1 .. b.arm => b.taken \in 1 .. (b.arm - 1) \/ b.taken = b.arm
            BY <1>3
          <6> QED BY <3>1, <6>1 DEF BlockOK
        <5>2. d.arm - 1 = b.arm
          BY <1>3, <2>6
        <5> QED BY <2>6, <5>1, <5>2
      <4> QED BY <2>6, <4>2, <4>3 DEF BlockOK
    <3> QED BY <3>4, <3>5
  <2>8. ASSUME NEW k \in 1 .. Len(blocks'), LiveBelow(blocks', k)
        PROVE  BlockCover(t, hd, blocks'[k], k) /\ BlockOK(blocks'[k])
    <3>1. k \in 1 .. m /\ (k \in 1 .. (m - 1) \/ k = m)
      BY <1>1
    <3>2. CASE k \in 1 .. (m - 1)
      <4>1. BlockCover(scopes, held, blocks[k], k) /\ BlockOK(blocks[k])
        BY <1>0, <2>1, <2>2, <2>8, <3>1 DEF Followed
      <4>2. blocks'[k] = blocks[k]
        BY <1>1, <3>2
      <4> QED BY <1>5, <2>3, <3>1, <4>1, <4>2, BlockKept
    <3>3. CASE k = m
      BY <2>2, <2>3, <2>7, <2>8, <3>3 DEF d
    <3> QED BY <3>1, <3>2, <3>3
  <2>9. ASSUME LiveBelow(blocks', Len(t)) PROVE CoverIn(t, hd, Snapshot(t), Len(t))
    <3>1. LiveBelow(blocks', m) /\ d.taken = d.arm
      <4>1. m \in 1 .. (Len(t) - 1) /\ 1 .. (m - 1) \subseteq 1 .. (Len(t) - 1)
        BY <1>1, <2>3
      <4> QED BY <2>9, <4>1 DEF LiveBelow, d
    <3>2. CoverIn(t, hd, b.before, m)
      <4>1. b.taken > b.arm
        BY <1>3, <2>6, <3>1
      <4> QED BY <2>2, <2>3, <2>4, <2>5, <3>1, <4>1 DEF BlockCover
    <3>3. \A i \in 1 .. m : \A n \in DOMAIN t[i].vars : b.before[i][n] = Snapshot(t)[i][n]
      <4>1. \A i \in 1 .. m : i \in 1 .. Len(t)
        BY <1>1, <2>3
      <4> QED BY <1>1, <1>3, <4>1, SnapshotFacts DEF Provs, t, b
    <3>4. CoverIn(t, hd, Snapshot(t), m)
      BY <1>1, <3>2, <3>3, CoverSame
    <3>5. DOMAIN t[m + 1].vars = {}
      BY <1>1 DEF t
    <3> QED BY <1>1, <2>3, <3>4, <3>5, CoverEmpty
  <2>10. AllHeld(t, blocks', hd)
    <3> SUFFICES ASSUME NEW i \in 1 .. Len(t), LiveBelow(blocks', i),
                        NEW n \in RefsOf(t[i])
                 PROVE  <<n, t[i].id>> \in DOMAIN hd
      BY DEF AllHeld
    <3>1. i \in 1 .. m
      <4>1. i \in 1 .. m \/ i = m + 1
        BY <1>1, <2>3
      <4>2. DOMAIN t[m + 1].vars = {}
        BY <1>1 DEF t
      <4> QED BY <4>1, <4>2 DEF RefsOf
    <3>2. i \in 1 .. Len(scopes) /\ LiveBelow(blocks, i)
      BY <1>1, <2>2, <3>1
    <3>3. t[i].id = scopes[i].id /\ n \in RefsOf(scopes[i])
      <4>1. Frame(scopes, t, m)
        BY <1>1 DEF t
      <4>2. t[i].id = scopes[i].id
        BY <3>1, <4>1 DEF Frame
      <4>3. RefsOf(t[i]) = RefsOf(scopes[i])
        BY <3>1, <4>1, FrameRefs
      <4> QED BY <4>2, <4>3
    <3>4. <<n, scopes[i].id>> \in DOMAIN held
      BY <2>1, <3>2, <3>3 DEF Followed, AllHeld
    <3>5. BoundAt(scopes, <<n, scopes[i].id>>, i)
      BY <3>3 DEF BoundAt, RefsOf
    <3> QED BY <1>5, <3>1, <3>3, <3>4, <3>5
  <2> QED BY <2>8, <2>9, <2>10 DEF Followed
<1> QED BY <1>4, <1>6, <1>7

\* The end of a block: one of the states that are joined is the execution's.
LEMMA EndReached ==
    ASSUME Layout(alphabet, scopes, blocks, nextId), Followed(scopes, blocks, held),
           EndBlock, NEW m, m = Len(blocks), LiveBelow(blocks, m)
    PROVE  /\ \E st \in EndStates : CoverIn(scopes, held, st, m)
           /\ ~ (Top.kind # "while" /\ Top.allExit /\ Top.exits)
<1> DEFINE b == blocks[m]
<1>1. /\ m \in Nat /\ m >= 1 /\ m \in 1 .. Len(blocks) /\ Top = b
  BY EndBlockFacts DEF Top
<1>2. /\ b.arm \in Nat /\ b.arm >= 1 /\ b.taken \in Nat /\ b.kind \in {"if", "match", "while"}
  BY <1>1, BlockFacts
<1>3. BlockCover(scopes, held, b, m) /\ BlockOK(b)
  BY <1>1 DEF Followed
<1>4. /\ b.kind = "if" => b.arm = 2
      /\ b.kind = "match" => b.taken <= b.arm
  BY <1>1 DEF EndBlock
<1>5. b.taken = b.arm => /\ Captured(b) = {Snapshot(Outer(scopes))}
                         /\ CoverIn(scopes, held, Snapshot(Outer(scopes)), m)
  BY <1>1, TopReached
<1>6. /\ b.states \subseteq EndStates /\ Captured(b) \subseteq EndStates
      /\ b.kind = "while" => b.before \in EndStates
  BY <1>1 DEF EndStates
<1> HIDE DEF b
<1>7. \/ b.taken = b.arm
      \/ b.kind # "while" /\ b.taken \in 1 .. (b.arm - 1)
      \/ b.kind = "while" /\ b.taken = 0
  BY <1>2, <1>3, <1>4 DEF BlockOK
<1>8. CASE b.taken = b.arm
  BY <1>1, <1>3, <1>5, <1>6, <1>8 DEF BlockOK
<1>9. CASE b.kind # "while" /\ b.taken \in 1 .. (b.arm - 1)
  BY <1>1, <1>3, <1>6, <1>9 DEF BlockOK, BlockCover
<1>10. CASE b.kind = "while" /\ b.taken = 0
  BY <1>1, <1>3, <1>6, <1>10 DEF BlockCover
<1> QED BY <1>7, <1>8, <1>9, <1>10

\* The block is left.
LEMMA HeldEndBlock ==
    ASSUME Layout(alphabet, scopes, blocks, nextId),
           HeldInv(scopes, blocks, held, returned, jumped), EndBlock
    PROVE  HeldInv(scopes', blocks', held', returned', jumped')
<1> DEFINE m == Len(blocks)
           t == scopes'
           hd == held'
<1>0. m = Len(blocks) /\ t = scopes' /\ hd = held'
  OBVIOUS
<1> HIDE DEF m
<1>1. /\ Layout(alphabet', scopes', blocks', nextId')
      /\ m \in Nat /\ m >= 1 /\ Len(scopes) = m + 1 /\ Len(scopes') = m
      /\ Frame(scopes, scopes', m)
      /\ \A st \in EndStates : \A i \in 1 .. m : \A n \in DOMAIN scopes[i].vars :
            Dominated(st[i][n], scopes'[i].vars[n].prov)
      /\ Len(blocks') = m - 1
      /\ \A k \in 1 .. (m - 1) :
            /\ blocks'[k].kind = blocks[k].kind /\ blocks'[k].cond = blocks[k].cond
            /\ blocks'[k].before = blocks[k].before /\ blocks'[k].taken = blocks[k].taken
            /\ blocks'[k].states = blocks[k].states /\ blocks'[k].arm = blocks[k].arm
            /\ \/ blocks'[k] = blocks[k]
               \/ k = m - 1 /\ Top.kind # "while" /\ Top.allExit /\ Top.exits
  BY <1>0, EndBlockFacts
<1>2. UNCHANGED <<alphabet, returned, jumped>> /\ RunIn(Outer(scopes))
  BY DEF EndBlock, Statement
<1>3. scopes \in Seq(ScopeSet) /\ t \in Seq(ScopeSet)
  BY <1>1 DEF Layout, Scoped
<1> SUFFICES ASSUME ~ jumped
             PROVE  /\ HeldOK(t, hd) /\ Exclusive(t, hd)
                    /\ \A place \in returned : (place = Nothing \/ IsParam(place.root, place.scope))
                    /\ returned = {} => Followed(t, blocks', hd)
  BY <1>2 DEF HeldInv
<1>4. /\ HeldOK(scopes, held) /\ Exclusive(scopes, held)
      /\ \A place \in returned : (place = Nothing \/ IsParam(place.root, place.scope))
      /\ returned = {} => Followed(scopes, blocks, held)
  BY DEF HeldInv
<1> HIDE DEF t, hd
<1>5. /\ Keeps(scopes, t, m, held, hd)
      /\ \A c \in DOMAIN held : \A i \in 1 .. m : BoundAt(scopes, c, i) => c \in DOMAIN hd
  <2>1. Len(t) \in m .. (m + 1) /\ \A i \in 1 .. Len(t) : i > m => DOMAIN t[i].vars = {}
    BY <1>1 DEF t
  <2>2. Frame(scopes, t, m)
    BY <1>1 DEF t
  <2> QED BY <1>1, <1>2, <1>4, <2>1, <2>2, LeaveKeeps DEF hd
<1>6. HeldOK(t, hd) /\ Exclusive(t, hd)
  BY <1>3, <1>4, <1>5, KeptHeld
<1>7. ASSUME returned = {} PROVE Followed(t, blocks', hd)
  <2>1. Followed(scopes, blocks, held)
    BY <1>4, <1>7
  <2>2. ASSUME NEW k \in 1 .. m PROVE LiveBelow(blocks', k) = LiveBelow(blocks, k)
    <3>1. 1 .. (k - 1) \subseteq 1 .. (m - 1)
      BY <1>1
    <3> QED BY <1>1, <3>1 DEF LiveBelow
  <2>3. m \in 1 .. m /\ m \in 0 .. m /\ Len(t) \in Nat /\ Len(t) = m
    BY <1>1 DEF t
  <2>4. ASSUME LiveBelow(blocks', Len(t)) PROVE CoverIn(t, hd, Snapshot(t), Len(t))
    <3>1. LiveBelow(blocks, m)
      BY <2>2, <2>3, <2>4
    <3>2. PICK st \in EndStates : CoverIn(scopes, held, st, m)
      BY <1>0, <2>1, <3>1, EndReached
    <3>3. ASSUME NEW i \in 1 .. m, NEW n \in DOMAIN scopes[i].vars
          PROVE  Dominated(st[i][n], Snapshot(t)[i][n])
      <4>1. i \in 1 .. Len(t) /\ n \in DOMAIN t[i].vars
        BY <1>1, <2>3 DEF Frame, t
      <4>2. Snapshot(t)[i][n] = t[i].vars[n].prov
        BY <1>3, <4>1, SnapshotFacts
      <4> QED BY <1>1, <4>2 DEF t
    <3>4. CoverIn(t, hd, Snapshot(t), m)
      BY <1>5, <2>3, <3>2, <3>3, CoverKept
    <3> QED BY <2>3, <3>4
  <2>5. ASSUME NEW k \in 1 .. Len(blocks'), LiveBelow(blocks', k)
        PROVE  BlockCover(t, hd, blocks'[k], k) /\ BlockOK(blocks'[k])
    <3>1. k \in 1 .. (m - 1) /\ k \in 1 .. m /\ k \in 1 .. Len(blocks) /\ k + 1 <= m
      BY <1>0, <1>1
    <3>2. LiveBelow(blocks, k)
      BY <2>2, <2>5, <3>1
    <3>3. BlockCover(scopes, held, blocks[k], k) /\ BlockOK(blocks[k])
      BY <2>1, <3>1, <3>2 DEF Followed
    <3>4. BlockCover(t, hd, blocks'[k], k)
      <4>1. /\ blocks'[k].before = blocks[k].before /\ blocks'[k].taken = blocks[k].taken
            /\ blocks'[k].states = blocks[k].states /\ blocks'[k].arm = blocks[k].arm
        BY <1>1, <3>1
      <4> QED BY <1>5, <2>3, <3>1, <3>3, <4>1, BlockKept
    <3>5. CASE blocks'[k] = blocks[k]
      BY <3>3, <3>4, <3>5
    <3>6. CASE k = m - 1 /\ Top.kind # "while" /\ Top.allExit /\ Top.exits
      \* Below a block that is left this way the execution does not get here.
      <4>1. ~ LiveBelow(blocks, m)
        BY <1>0, <2>1, <3>6, EndReached
      <4>2. \A j \in 1 .. (m - 1) : j \in 1 .. (k - 1) \/ j = k
        BY <1>1, <3>6
      <4>3. blocks[k].taken # blocks[k].arm
        BY <3>2, <4>1, <4>2 DEF LiveBelow
      <4>4. /\ blocks'[k].kind = blocks[k].kind /\ blocks'[k].cond = blocks[k].cond
            /\ blocks'[k].taken = blocks[k].taken /\ blocks'[k].arm = blocks[k].arm
            /\ blocks'[k].allExit = blocks[k].allExit
        BY <1>0, <3>1, EndBlockFacts
      <4>5. \A a : ArmPossible(blocks'[k], a) = ArmPossible(blocks[k], a)
        BY <4>4 DEF ArmPossible
      <4>6. BlockOK(blocks'[k])
        BY <3>3, <4>3, <4>4, <4>5 DEF BlockOK
      <4> QED BY <3>4, <4>6
    <3> QED BY <1>1, <3>1, <3>5, <3>6
  <2>6. AllHeld(t, blocks', hd)
    <3> SUFFICES ASSUME NEW i \in 1 .. Len(t), LiveBelow(blocks', i),
                        NEW n \in RefsOf(t[i])
                 PROVE  <<n, t[i].id>> \in DOMAIN hd
      BY DEF AllHeld
    <3>1. i \in 1 .. m /\ i \in 1 .. Len(scopes)
      BY <1>1, <2>3
    <3>2. LiveBelow(blocks, i)
      BY <2>2, <3>1
    <3>3. t[i].id = scopes[i].id /\ n \in RefsOf(scopes[i])
      <4>1. Frame(scopes, t, m)
        BY <1>1 DEF t
      <4>2. t[i].id = scopes[i].id
        BY <3>1, <4>1 DEF Frame
      <4>3. RefsOf(t[i]) = RefsOf(scopes[i])
        BY <3>1, <4>1, FrameRefs
      <4> QED BY <4>2, <4>3
    <3>4. <<n, scopes[i].id>> \in DOMAIN held
      BY <2>1, <3>1, <3>2, <3>3 DEF Followed, AllHeld
    <3>5. BoundAt(scopes, <<n, scopes[i].id>>, i)
      BY <3>3 DEF BoundAt, RefsOf
    <3> QED BY <1>5, <3>1, <3>3, <3>4, <3>5
  <2> QED BY <2>4, <2>5, <2>6 DEF Followed
<1> QED BY <1>4, <1>6, <1>7

LEMMA HeldStep ==
    ASSUME Layout(alphabet, scopes, blocks, nextId),
           HeldInv(scopes, blocks, held, returned, jumped), [Next]_vars
    PROVE  HeldInv(scopes', blocks', held', returned', jumped')
<1>1. CASE Unmoved \/ LetValue \/ LetFrom \/ MoveOut \/ Refill
  BY <1>1, HeldQuiet
<1>2. CASE LetReference \/ SetReference
  BY <1>2, HeldReference
<1>3. CASE OpenBlock
  BY <1>3, HeldOpen
<1>4. CASE NextArm
  BY <1>4, HeldNextArm
<1>5. CASE EndBlock
  BY <1>5, HeldEndBlock
<1>6. CASE LeaveLoop
  <2>1. /\ UNCHANGED <<alphabet, scopes, nextId, returned>>
        /\ ~ Running => UNCHANGED <<blocks, held, jumped>>
        /\ Running => jumped'
    BY <1>6, LeaveLoopFacts
  <2>2. CASE Running
    BY <2>1, <2>2 DEF HeldInv
  <2>3. CASE ~ Running
    BY <2>1, <2>3
  <2> QED BY <2>2, <2>3
<1>7. CASE LeaveBody
  BY <1>7, HeldLeaveBody
<1> QED BY <1>1, <1>2, <1>3, <1>4, <1>5, <1>6, <1>7, StepKinds DEF Steps

LEMMA HeldInit ==
    ASSUME Init PROVE HeldInv(scopes, blocks, held, returned, jumped)
<1>1. /\ Layout(alphabet, scopes, blocks, nextId) /\ alphabet \in Alphabets
      /\ blocks = <<>> /\ held = <<>> /\ returned = {}
  BY LayoutInit DEF Init
<1>2. DOMAIN held = {}
  BY <1>1
<1>3. HeldOK(scopes, held) /\ Exclusive(scopes, held)
  BY <1>2 DEF HeldOK, Exclusive
<1>4. CoverIn(scopes, held, Snapshot(scopes), Len(scopes))
  BY <1>2 DEF CoverIn
<1>5. Len(scopes) = 1 /\ DOMAIN scopes[1].vars = Params /\ scopes[1].id = 1
  BY DEF Init
<1>6. AllHeld(scopes, blocks, held)
  BY <1>5 DEF AllHeld, RefsOf, IsParam
<1>7. Len(blocks) = 0
  BY <1>1
<1> QED BY <1>1, <1>3, <1>4, <1>6, <1>7 DEF HeldInv, Followed

----------------------------------------------------------------------------
(* The invariant, and what follows from it. *)

BorrowsInv ==
    /\ Layout(alphabet, scopes, blocks, nextId)
    /\ ExactOK(scopes, blocks, nextId, held, returned)
    /\ HeldInv(scopes, blocks, held, returned, jumped)

\* The scopes, what they believe to be borrowed, and what the execution
\* holds agree in every reachable state.
THEOREM BorrowsInvariant == Spec => []BorrowsInv
<1>1. Init => BorrowsInv
  <2> SUFFICES ASSUME Init PROVE BorrowsInv
    OBVIOUS
  <2>1. ExactOK(scopes, blocks, nextId, held, returned)
    <3>1. Layout(alphabet, scopes, blocks, nextId)
      BY LayoutInit
    <3>2. Len(scopes) = 1 /\ \A n \in DOMAIN scopes[1].vars : scopes[1].vars[n].prov = {}
      BY DEF Init, Binding
    <3> QED BY <3>2 DEF ExactOK, Exact
  <2> QED BY <2>1, LayoutInit, HeldInit DEF BorrowsInv
<1>2. BorrowsInv /\ [Next]_vars => BorrowsInv'
  BY LayoutStep, ExactStep, HeldStep DEF BorrowsInv
<1> QED BY <1>1, <1>2, PTL DEF Spec

\* Bindings are told apart by their names and scopes.
LEMMA HolderFacts ==
    ASSUME Layout(alphabet, scopes, blocks, nextId), HeldOK(scopes, held),
           NEW b \in DOMAIN held
    PROVE  \E i \in 1 .. Len(scopes) :
              BoundAt(scopes, b, i) /\ (HoldsMut(b) => scopes[i].vars[b[1]].type.mut)
<1>1. PICK i \in 1 .. Len(scopes) : BoundAt(scopes, b, i)
  BY DEF HeldOK
<1>2. \A j \in 1 .. Len(scopes) : scopes[j].id = b[2] => i = j
  BY <1>1, UniqueIds DEF Layout, BoundAt
<1> QED BY <1>1, <1>2 DEF HoldsMut

\* Where the execution runs, an entry says of each reference what it holds,
\* unless no statement can name that.
LEMMA EntryOf ==
    ASSUME BorrowsInv, Running, ~ jumped, NEW b \in DOMAIN held
    PROVE  \/ Unnamed(held[b])
           \/ \E e \in AllEntries :
                 /\ e.root = held[b].root /\ e.scope = held[b].scope
                 /\ e.path \in {Whole, held[b].path} /\ (HoldsMut(b) => e.mut)
<1>1. Here
  BY HereFacts DEF BorrowsInv
<1>2. /\ Layout(alphabet, scopes, blocks, nextId) /\ HeldOK(scopes, held)
      /\ CoverIn(scopes, held, Snapshot(scopes), Len(scopes))
      /\ scopes \in Seq(ScopeSet) /\ Len(scopes) \in Nat
  BY <1>1, InnerFacts DEF Here
<1>3. PICK i \in 1 .. Len(scopes) :
         BoundAt(scopes, b, i) /\ (HoldsMut(b) => scopes[i].vars[b[1]].type.mut)
  BY <1>2, HolderFacts
<1> DEFINE k == Len(scopes) + 1
<1>4. Innermost(k, b[1]) /\ OthersIn(k, b[1], AllEntries) /\ i # k
  BY <1>2, EntriesFacts DEF Innermost
<1>5. \/ Unnamed(held[b])
      \/ \E e \in AllEntries : Covers(e, held[b], scopes[i].vars[b[1]].type.mut)
  BY <1>2, <1>3, <1>4, EntryFor
<1> QED BY <1>3, <1>5 DEF Covers

\* The inner binding of the name is in a younger scope.
LEMMA HiddenIds ==
    ASSUME Layout(alphabet, scopes, blocks, nextId), NEW place, Unnamed(place)
    PROVE  Hidden(place)
<1>1. PICK h \in 1 .. Len(scopes) : \E l \in 1 .. (h - 1) :
        /\ place.root \in DOMAIN scopes[h].vars \cap DOMAIN scopes[l].vars
        /\ scopes[l].id = place.scope
  BY DEF Unnamed
<1>2. PICK l \in 1 .. (h - 1) : /\ place.root \in DOMAIN scopes[h].vars
                               /\ scopes[l].id = place.scope
  BY <1>1
<1>3. l \in 1 .. Len(scopes) /\ l < h
  BY <1>2 DEF Layout, Scoped
<1>4. scopes[l].id \in Nat /\ scopes[h].id \in Nat /\ scopes[l].id < scopes[h].id
  BY <1>3, ScopeFacts DEF Layout, Scoped
<1> QED BY <1>2, <1>4 DEF Hidden, Levels

\* The place of each live reference is recorded for some binding, and as
\* mutably borrowed if the reference is mutable, unless an inner binding has
\* the name of the place: the snapshots, restores and joins of check_stmt
\* lose nothing.
THEOREM ReferencesAreCovered == Spec => []ReferencesCovered
<1>1. BorrowsInv => ReferencesCovered
  <2> SUFFICES ASSUME BorrowsInv, Running, ~ jumped, NEW b \in DOMAIN held
               PROVE  \/ \E e \in AllEntries : Borrowed(e, held[b]) /\ (HoldsMut(b) => e.mut)
                      \/ Hidden(held[b])
    BY DEF ReferencesCovered, Covered
  <2>1. Unnamed(held[b]) => Hidden(held[b])
    BY HiddenIds DEF BorrowsInv
  <2> QED BY <2>1, EntryOf DEF Borrowed, Overlaps
<1> QED BY <1>1, BorrowsInvariant, PTL

\* No live reference outlives the scope of what it refers to, on a path
\* without a jump: the lifetime check of update_borrow_assignment.
THEOREM NothingDangles == Spec => []NoDanglingWithoutJump
<1>1. BorrowsInv => NoDanglingWithoutJump
  <2> SUFFICES ASSUME BorrowsInv, ~ jumped, NEW b \in DOMAIN held
               PROVE  held[b].scope \in VisibleScopes
    BY DEF NoDanglingWithoutJump, NoDangling
  <2>1. HeldOK(scopes, held) /\ Len(scopes) \in Nat
    BY InnerFacts DEF BorrowsInv, HeldInv
  <2>2. PICK i \in 1 .. Len(scopes) : \E j \in 1 .. i : scopes[j].id = held[b].scope
    BY <2>1 DEF HeldOK
  <2>3. PICK j \in 1 .. i : scopes[j].id = held[b].scope
    BY <2>2
  <2>4. j \in 1 .. Len(scopes)
    BY <2>1
  <2> QED BY <2>3, <2>4 DEF VisibleScopes
<1> QED BY <1>1, BorrowsInvariant, PTL

\* A mutable reference overlaps with no other one, unless one of the two was
\* made from a reference: check_borrow_conflict_at.
THEOREM MutableIsExclusive == Spec => []ExclusiveBorrows
<1>1. BorrowsInv => ExclusiveBorrows
  <2> SUFFICES ASSUME BorrowsInv, ~ jumped, NEW a \in DOMAIN held, NEW b \in DOMAIN held,
                      a # b, held[a].root = held[b].root, held[a].scope = held[b].scope,
                      Overlaps(held[a].path, held[b].path), HoldsMut(a)
               PROVE  held[a].via \/ held[b].via
    BY DEF ExclusiveBorrows
  <2>1. /\ Layout(alphabet, scopes, blocks, nextId) /\ HeldOK(scopes, held)
        /\ Exclusive(scopes, held)
    BY DEF BorrowsInv, HeldInv
  <2>2. PICK i \in 1 .. Len(scopes) : BoundAt(scopes, a, i) /\ scopes[i].vars[a[1]].type.mut
    BY <2>1, HolderFacts
  <2> QED BY <2>1, <2>2 DEF Exclusive
<1> QED BY <1>1, BorrowsInvariant, PTL

\* A reference that is returned is to the caller's storage, whichever path led
\* there: check_return_borrow_escape.
THEOREM ReturnedOutlives == Spec => []ReturnsOutlive
<1>1. BorrowsInv => ReturnsOutlive
  BY DEF BorrowsInv, HeldInv, ReturnsOutlive
<1> QED BY <1>1, BorrowsInvariant, PTL

\* What a live reference refers to is not assigned, and what a mutable one
\* refers to is not read or moved: check_assignment_not_borrowed and
\* check_read_not_mutably_borrowed.
THEOREM AccessIsExclusive == Spec => AccessExclusive
<1> DEFINE Access(n, p) ==
        /\ SetValue(n, p) \/ (SetOwned(n) /\ p = Whole) => \A b \in DOMAIN held : ~ Refers(b, n, p)
        /\ Read(n, p) \/ (MoveAway(n) /\ p = Whole) =>
              \A b \in DOMAIN held : Refers(b, n, p) => ~ HoldsMut(b)
<1>1. ASSUME BorrowsInv, Running, ~ jumped, verdict' = "checking", NEW n, NEW p
      PROVE  Access(n, p)
  <2>1. ASSUME NEW b \in DOMAIN held, Refers(b, n, p), InScope(n)
        PROVE  \E e \in BorrowsAt(AllEntries, n, p) : HoldsMut(b) => e.mut
    <3>1. PICK e \in AllEntries : /\ e.root = held[b].root /\ e.scope = held[b].scope
                                  /\ e.path \in {Whole, held[b].path} /\ (HoldsMut(b) => e.mut)
      <4>1. ~ Unnamed(held[b])
        BY <1>1, <2>1, NamedPlace DEF BorrowsInv, Refers
      <4> QED BY <1>1, <4>1, EntryOf
    <3>2. e \in BorrowsAt(AllEntries, n, p)
      BY <2>1, <3>1 DEF Refers, BorrowsAt, Overlaps
    <3> QED BY <3>1, <3>2
  <2>2. ASSUME SetValue(n, p) \/ (SetOwned(n) /\ p = Whole) PROVE AssignAllowed(n, p) /\ InScope(n)
    BY <1>1, <2>2 DEF SetValue, SetOwned, Owned, Refuse
  <2>3. ASSUME Read(n, p) \/ (MoveAway(n) /\ p = Whole) PROVE ReadAllowed(AllEntries, n, p) /\ InScope(n)
    BY <1>1, <2>3 DEF Read, MoveAway, Owned, MoveAllowed, Refuse
  <2>4. AssignAllowed(n, p) /\ InScope(n) => \A b \in DOMAIN held : ~ Refers(b, n, p)
    BY <2>1 DEF AssignAllowed
  <2>5. ReadAllowed(AllEntries, n, p) /\ InScope(n) =>
           \A b \in DOMAIN held : Refers(b, n, p) => ~ HoldsMut(b)
    BY <2>1 DEF ReadAllowed
  <2> QED BY <2>2, <2>3, <2>4, <2>5
<1>2. BorrowsInv => (Running /\ ~ jumped /\ verdict' = "checking" =>
         \A n \in alphabet.shapes \cup alphabet.owns, p \in Fields : Access(n, p))
  BY <1>1
<1> QED BY <1>2, BorrowsInvariant, PTL DEF AccessExclusive

\* In a body without a closed block an assignment is refused only for a live
\* reference that refers to what is assigned: scope_borrow_counts_for_place.
THEOREM RefusalsAreCaused == Spec => RefusalsHaveCause
<1> DEFINE Caused(n, p) == SetValue(n, p) /\ ~ IsRef(TypeOf(n)) => \E b \in DOMAIN held : Refers(b, n, p)
<1>1. ASSUME BorrowsInv, Running, verdict' = "rejected", nextId = Len(scopes) + 1,
             NEW n \in alphabet.shapes, NEW p, SetValue(n, p), ~ IsRef(TypeOf(n))
      PROVE  \E b \in DOMAIN held : Refers(b, n, p)
  <2>1. ~ AssignAllowed(n, p)
    BY <1>1 DEF SetValue, Statement, Accept
  <2>2. PICK e \in AllEntries : /\ e.root = n /\ e.scope = ScopeOf(n) /\ Overlaps(e.path, p)
    BY <2>1 DEF AssignAllowed, BorrowsAt
  <2>3. PICK i \in 1 .. Len(scopes) : \E m \in DOMAIN scopes[i].vars : e \in scopes[i].vars[m].prov
    BY DEF AllEntries
  <2>4. PICK m \in DOMAIN scopes[i].vars : e \in scopes[i].vars[m].prov
    BY <2>3
  <2>5. returned = {} /\ LiveBelow(blocks, Len(scopes))
    <3>1. Len(blocks) \in Nat /\ Len(scopes) = Len(blocks) + 1
      BY <1>1, BlockFacts DEF BorrowsInv
    <3> QED BY <1>1, <3>1 DEF Running, LiveBelow
  <2>6. Exact(scopes, held)
    BY <1>1, <2>5 DEF BorrowsInv, ExactOK
  <2>8. ~ OfRef(scopes, e)
    <3> SUFFICES ASSUME NEW j \in 1 .. Len(scopes), scopes[j].id = ScopeOf(n),
                        IsRef(scopes[j].vars[n].type)
                 PROVE  FALSE
      BY <2>2 DEF OfRef
    <3>1. /\ Level(n) \in 1 .. Len(scopes) /\ scopes[Level(n)].id = ScopeOf(n)
          /\ Scoped(scopes, nextId)
      BY <1>1, RootFacts DEF SetValue, BorrowsInv, Layout
    <3>2. j = Level(n)
      BY <3>1, UniqueIds
    <3> QED BY <1>1, <3>2 DEF TypeOf
  <2> DEFINE b == <<m, scopes[i].id>>
  <2>7. /\ b \in DOMAIN held /\ held[b].root = e.root
        /\ held[b].scope = e.scope /\ held[b].path = e.path
    BY <2>4, <2>6, <2>8 DEF Exact
  <2> HIDE DEF b
  <2> QED BY <2>2, <2>7 DEF Refers
<1>2. BorrowsInv => (Running /\ verdict' = "rejected" /\ nextId = Len(scopes) + 1 =>
         \A n \in alphabet.shapes, p \in Fields : Caused(n, p))
  BY <1>1
<1> QED BY <1>2, BorrowsInvariant, PTL DEF RefusalsHaveCause
=============================================================================
