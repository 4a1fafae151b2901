--------------------------- MODULE MCModuleResolve ---------------------------
(***************************************************************************)
(* Model checking ModuleResolve on all small import graphs of a program    *)
(* with a main file, two modules and one std module.                       *)
(***************************************************************************)
EXTENDS ModuleResolve

\* The main file is named on the command line; "./main.0" is the path its
\* importers lead to.
MCPaths == {"main.0", "./main.0", "./a.0", "./x/b.0", "./x/b/mod.0", "std/m.0"}
MCNames == {"main", "a", "x.b", "std.m"}
MCRootOf == [p \in MCPaths |-> IF p = "std/m.0" THEN "std" ELSE "src"]
MCCandidates ==
    [r \in Roots |-> [n \in MCNames |->
        CASE r = "src" /\ n = "main" -> <<"./main.0">>
          [] r = "src" /\ n = "a" -> <<"./a.0">>
          [] r = "src" /\ n = "x.b" -> <<"./x/b.0", "./x/b/mod.0">>
          [] r = "std" /\ n = "std.m" -> <<"std/m.0">>
          [] OTHER -> <<>>]]
MCDotted == [p \in MCPaths |->
    CASE p \in {"main.0", "./main.0"} -> "main" [] p = "./a.0" -> "a"
      [] p \in {"./x/b.0", "./x/b/mod.0"} -> "x.b" [] p = "std/m.0" -> "std.m"]
MCBase == [p \in MCPaths |->
    CASE p \in {"main.0", "./main.0"} -> "main" [] p = "./a.0" -> "a"
      [] p = "./x/b.0" -> "b" [] p = "./x/b/mod.0" -> "mod" [] p = "std/m.0" -> "m"]
MCFileOf == [p \in MCPaths |-> IF p = "./main.0" THEN "main.0" ELSE p]

\* Files: what they import and what they declare.
MkFile(uses, decls) == [state |-> "ok", uses |-> uses, decls |-> decls]
Unusable(s) == [state |-> s, uses |-> <<>>, decls |-> <<>>]
Imp(n) == [valid |-> TRUE, name |-> n]
Imports(ns, k) == {[i \in DOMAIN s |-> Imp(s[i])] : s \in SeqOf(ns, k)}
Pub(s) == <<[name |-> s, public |-> TRUE]>>
Priv(s) == <<[name |-> s, public |-> FALSE]>>

MkDisk(main, a, b, bmod, m) ==
    [p \in MCPaths |-> CASE p \in {"main.0", "./main.0"} -> main
                         [] p = "./a.0" -> a [] p = "./x/b.0" -> b
                         [] p = "./x/b/mod.0" -> bmod [] p = "std/m.0" -> m]

\* All import graphs: main and a with up to two imports, b with one.
GraphDisks ==
    {MkDisk(MkFile(um, <<>>), MkFile(ua, Pub("f")), b, Unusable("absent"), m) :
        um \in Imports(MCNames, 2), ua \in Imports(MCNames, 2),
        b \in {MkFile(ub, d) : ub \in Imports(MCNames, 1), d \in {Pub("f"), Priv("f")}},
        m \in {Unusable("absent"), MkFile(<<>>, Pub("f"))}}

\* Files that cannot be used, imports that are not well formed, a module
\* in a directory, and std modules that import.
FaultDisks ==
    {MkDisk(MkFile(um, Pub("g")), a, b, bmod, m) :
        um \in {<<Imp("a"), Imp("x.b")>>, <<Imp("x.b"), Imp("std.m"), Imp("a")>>},
        a \in {MkFile(<<Imp("x.b")>>, Priv("g") \o Pub("f")), Unusable("absent"),
               MkFile(<<[valid |-> FALSE, name |-> "x.b"]>>, <<>>)},
        b \in {Unusable("absent"), Unusable("unreadable"), Unusable("bad"),
               MkFile(<<>>, Pub("g")), MkFile(<<Imp("std.m")>>, Priv("f"))},
        bmod \in {Unusable("absent"), MkFile(<<Imp("a")>>, Pub("f")), MkFile(<<>>, Pub("h"))},
        m \in {Unusable("bad"), MkFile(<<Imp("std.m")>>, <<>>), MkFile(<<Imp("a")>>, Pub("h")),
               MkFile(<<>>, Pub("f"))}}

AllDisks == GraphDisks \cup FaultDisks

\* A library in the tree, and two modules that differ in their directory.
TwinPaths == {"./main.0", "./x/b.0", "./y/b.0"}
TwinNames == {"x.b", "y.b"}
TwinRootOf == [p \in TwinPaths |-> "src"]
TwinCandidates ==
    [r \in Roots |-> [n \in TwinNames |->
        IF r = "std" THEN <<>> ELSE IF n = "x.b" THEN <<"./x/b.0">> ELSE <<"./y/b.0">>]]
TwinDotted == [p \in TwinPaths |->
    CASE p = "./main.0" -> "main" [] p = "./x/b.0" -> "x.b" [] p = "./y/b.0" -> "y.b"]
TwinBase == [p \in TwinPaths |-> IF p = "./main.0" THEN "main" ELSE "b"]
TwinFileOf == [p \in TwinPaths |-> p]
TwinDisks ==
    {[p \in TwinPaths |-> CASE p = "./main.0" -> MkFile(um, <<>>)
                            [] p = "./x/b.0" -> MkFile(<<>>, Pub("f"))
                            [] p = "./y/b.0" -> MkFile(<<>>, d)] :
        um \in Imports(TwinNames, 2), d \in {Pub("f"), Pub("g"), Priv("f")}}
=============================================================================
