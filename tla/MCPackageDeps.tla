---------------------------- MODULE MCPackageDeps ----------------------------
(***************************************************************************)
(* Model checking PackageDeps on all small dependency graphs of a package  *)
(* and two others.                                                         *)
(***************************************************************************)
EXTENDS PackageDeps, SequencesExt

\* The package is named by a path that is not in normal form; dependencies
\* lead to it as "app".
MCPaths == {"./app", "app", "a", "b"}

Mk(name, version, deps) ==
    [state |-> "ok", name |-> name, version |-> version, deps |-> deps,
     exe |-> TRUE, main |-> TRUE, source |-> TRUE]
Unusable(s) == [Mk(NoName, NoVersion, <<>>) EXCEPT !.state = s]

PathDep(n, v, to) == [name |-> n, version |-> v, to |-> to, targets |-> {}]
Registry(n, v) == PathDep(n, v, NoPath)
OnlyFor(d, ts) == [d EXCEPT !.targets = ts]

MkDisk(app, a, b) == [p \in MCPaths |-> CASE p \in {"./app", "app"} -> app
                                          [] p = "a" -> a [] p = "b" -> b]

\* What a manifest may depend on: each package, with and without a version,
\* and the registry under the same names.
MCDeps == {PathDep("a", "", "a"), PathDep("a", "1", "a"), PathDep("b", "", "b"),
           PathDep("app", "", "app"), Registry("a", "1"), Registry("a", "")}
DepsUpTo(n) == SeqOf(MCDeps, n)

\* All graphs: the package with up to two dependencies, the others with one.
\* Two packages may go by one name, and one may have none.
GraphDisks ==
    {MkDisk(Mk("app", "1", d), Mk("a", va, da), Mk(b[1], b[2], db)) :
        d \in DepsUpTo(2), va \in {"", "1"}, da \in DepsUpTo(1), db \in DepsUpTo(1),
        b \in {<<"b", "1">>, <<"a", "1">>, <<"a", "2">>, <<"", "2">>, <<"app", "2">>}}

\* Manifests that cannot be used, targets, and shared packages.
FaultDisks ==
    {MkDisk([Mk("app", v, <<d, PathDep("b", "2", "b")>>) EXCEPT
                !.exe = f # "kind", !.main = f # "main", !.source = f # "source",
                !.state = IF f \in {"unreadable", "bad"} THEN f ELSE "ok"],
            a, b) :
        v \in {"", "1"}, d \in {PathDep("a", "1", "a"), Registry("a", "1")},
        f \in {"none", "kind", "main", "source", "unreadable", "bad"},
        a \in {Mk("a", "1", <<OnlyFor(PathDep("b", "", "b"), ts)>>) :
                  ts \in {{}, {"host"}, {"other"}}}
              \cup {Mk("a", "1", <<PathDep("b", "", "b"), PathDep("b", "2", "b")>>)}
              \cup {Unusable("unreadable"), Unusable("bad")},
        b \in {Unusable(s) : s \in {"absent", "unreadable", "bad"}}
              \cup {Mk("b", "2", <<>>), Mk("b", "", <<>>), Mk("b", "2", <<Registry("app", "2")>>)}}

\* Packages that all go by the empty name, or the keys of the dependencies.
NamelessDisks ==
    {MkDisk(Mk(n[1], "1", <<PathDep("", "", "a"), PathDep("b", "", "b")>>),
            Mk(n[2], "1", <<PathDep("", "", "b")>>), Mk(n[3], "2", <<>>)) :
        n \in {"", NoName, "a"} \X {"", NoName, "b"} \X {"", NoName, "a", "b"}}

AllDisks == GraphDisks \cup FaultDisks \cup NamelessDisks
=============================================================================
