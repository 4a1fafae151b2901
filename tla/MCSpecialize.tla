---------------------------- MODULE MCSpecialize ----------------------------
(* Programs for the runs of Specialize. *)
EXTENDS Specialize

CONSTANTS A, B, C, T

main == <<"m">>
g == <<"g">>
h == <<"g", "_", "_", "A">>
k == <<"k">>
MCGenerics == {g, h, k}

(* The text of a type, "W<...>" around a base.  A shape of the program is  *)
(* named W_A_, which is what is left of W<A>, and one is named A__A, so    *)
(* that g<A__A> and g__A<A> have one name.  A plain function has the name  *)
(* of an instance of g.                                                    *)
BaseText(b) == CASE b = A -> <<"A">>
                 [] b = B -> <<"W", "_", "A", "_">>
                 [] b = C -> <<"A", "_", "_", "A">>
                 [] b = T -> <<"T">>
MCMangled(t) ==
    LET text[d \in Nat] ==
            IF d = 0 THEN BaseText(t.base) ELSE <<"W", "_">> \o text[d - 1] \o <<"_">>
    IN  text[t.depth]
clash == g \o <<"_", "_">> \o MCMangled(Type(A, 2))
MCPlain == <<main, clash>>

CallsTo(gs, args) == [to : gs, arg : args]
UpTo(n, S) == UNION {[1 .. i -> S] : i \in 0 .. n}

Program(mains, gs, hs, ks) ==
    {[f \in {main, clash, g, h, k} |->
        CASE f = main -> m [] f = g -> x [] f = h -> y [] f = k -> z [] OTHER -> <<>>] :
        m \in mains, x \in gs, y \in hs, z \in ks}

(* Two functions with up to two calls each, called with one type; three    *)
(* functions with one call each; many instances called from main.          *)
Start == {<<Call(g, Type(A, 0))>>, <<Call(g, Type(B, 0)), Call(h, Type(A, 0))>>,
          <<Call(h, Type(A, 0)), Call(g, Type(C, 0))>>}
Two == Program(Start, UpTo(2, CallsTo({g, h}, {Type(A, 0), Type(B, 0), Type(T, 0), Type(T, 1)})),
               UpTo(2, CallsTo({g}, {Type(A, 1), Type(T, 0), Type(T, 1)})
                       \cup {Call(h, Type(T, 0))}), {<<>>})
Three == LET one == UpTo(1, CallsTo({g, h, k}, {Type(A, 0), Type(T, 0), Type(T, 1)}))
         IN Program(Start, one, one, one)
Many == Program(UpTo(4, CallsTo({g, h}, {Type(A, 0), Type(A, 1)})),
                {<<>>, <<Call(k, Type(T, 0))>>, <<Call(k, Type(T, 0)), Call(h, Type(T, 1))>>},
                {<<>>}, {<<>>})
MCPrograms == Two \cup Three \cup Many
=============================================================================
