----------------------------- MODULE PackageDeps -----------------------------
(***************************************************************************)
(* Package dependencies (fs.c, z_resolve_package_metadata and              *)
(* resolve_manifest_dependencies): the depth-first walk over the manifests *)
(* that path dependencies lead to, which lists every dependency of the     *)
(* graph, and the lockfile and target check made from that list.           *)
(*                                                                         *)
(* The C recursion is a stack of frames; frame i + 1 resolves the          *)
(* dependency frame i is at.  A package that several others depend on is   *)
(* walked once for each of them.  A manifest is what                       *)
(* z_parse_manifest_json makes of the file; `to` of a dependency is the    *)
(* normalized manifest path its directory leads to                         *)
(* (dependency_manifest_path), NoPath for a registry reference.            *)
(***************************************************************************)
EXTENDS Naturals, Sequences, FiniteSets

CONSTANTS
    Paths,       \* the manifest paths the walk can form
    RootPath,    \* the path of the package's manifest, as it was given
    Names,       \* package names; the empty one is compared with nothing
    Versions,    \* version strings but the empty one
    Targets,     \* targets a dependency can list
    HostTarget,  \* z_host_target()
    Disks        \* the contents of the file system considered

NoPath == ""
NoName == "(none)"  \* the manifest gives none
EmptyName == ""     \* the manifest gives this one
NoVersion == ""
AnyVersion == Versions \cup {NoVersion}

\* targets is the set of targets the dependency lists; empty for none.
Dependency == [name : Names, version : AnyVersion, to : Paths \cup {NoPath},
               targets : SUBSET Targets]

\* unreadable: it exists but cannot be opened; bad: not a JSON object.
\* `main` is whether targets.cli.main is a row source, `source` whether the
\* file it names exists; `exe` whether targets.cli.kind is "exe" or absent.
Manifest == [state : {"absent", "unreadable", "bad", "ok"},
             name : Names \cup {NoName}, version : AnyVersion,
             deps : Seq(Dependency), exe : BOOLEAN, main : BOOLEAN,
             source : BOOLEAN]

ASSUME PackageAssumption ==
    /\ RootPath \in Paths /\ NoPath \notin Paths
    /\ NoName \notin Names
    /\ Names \subseteq STRING /\ AnyVersion \subseteq STRING
    /\ HostTarget \in Targets
    /\ Disks \subseteq [Paths -> Manifest]

VARIABLES
    disk,      \* the manifests; they do not change during the walk
    target,    \* the target compiled for
    place,     \* load, walk, lock, source, targets, done
    frames,    \* the stack: a manifest, the index of its next dependency
               \* and, as history, the entry it was pushed for
    entries,   \* SourceInput.dependencies
    lockfile,  \* what became of the lockfile: none, written, lost
    diag       \* the diagnostic, "none" if there is none

vars == <<disk, target, place, frames, entries, lockfile, diag>>

-----------------------------------------------------------------------------
Depth == Len(frames)
Top == frames[Depth]
Root == disk[RootPath]
Deps(p) == disk[p].deps

Frame(p, e) == [path |-> p, next |-> 1, entry |-> e]

\* Mutant of OnStack: a package counts as a cycle once it was listed.
EverListed(p) == \E i \in 1..Len(entries) : entries[i].to = p

OnStack(p) == \E i \in 1..Depth : frames[i].path = p

PkgInit ==
    /\ disk \in Disks /\ target \in Targets
    /\ place = "load" /\ frames = <<>> /\ entries = <<>>
    /\ lockfile = "none" /\ diag = "none"

Fail(code) == /\ diag' = code
              /\ UNCHANGED <<disk, target, place, frames, entries, lockfile>>

\* resolve_direct_row_package_source up to the walk: the package's own
\* manifest is read, parsed and looked over, and pushed on the stack.
Load ==
    /\ place = "load" /\ diag = "none"
    /\ \/ Root.state \in {"absent", "unreadable"} /\ Fail("read")
       \/ /\ Root.state = "bad" \/ (Root.state = "ok" /\ ~(Root.main /\ Root.exe))
          /\ Fail("manifest")
       \/ /\ Root.state = "ok" /\ Root.main /\ Root.exe
          /\ place' = "walk" /\ frames' = <<Frame(RootPath, 0)>>
          /\ UNCHANGED <<disk, target, entries, lockfile, diag>>

\* Mutant of AtDep: the last dependency is left out.
AtDepOffByOne == /\ place = "walk" /\ diag = "none" /\ frames # <<>>
                 /\ Top.next < Len(Deps(Top.path))

\* The loop over the dependencies of the top frame's manifest has one more.
AtDep == /\ place = "walk" /\ diag = "none" /\ frames # <<>>
         /\ Top.next <= Len(Deps(Top.path))
Dep == Deps(Top.path)[Top.next]
NextDep == frames' = [frames EXCEPT ![Depth].next = @ + 1]

\* Mutant of Entry: the package on the stack is counted after the push.
EntryAfterPush(dep, name, version, status) ==
    [name |-> dep.name, version |-> dep.version, to |-> dep.to,
     targets |-> dep.targets, resolved_name |-> name,
     resolved_version |-> version, status |-> status, direct |-> Depth <= 2]

\* source_input_push_dependency, as far as anything depends on it.
Entry(dep, name, version, status) ==
    [name |-> dep.name, version |-> dep.version, to |-> dep.to,
     targets |-> dep.targets, resolved_name |-> name,
     resolved_version |-> version, status |-> status, direct |-> Depth = 1]

\* A dependency without a path is only recorded, as it is.
RegistryReference ==
    /\ AtDep /\ Dep.to = NoPath
    /\ entries' = Append(entries, Entry(Dep, Dep.name, Dep.version, "registry-reference"))
    /\ NextDep
    /\ UNCHANGED <<disk, target, place, lockfile, diag>>

ManifestMissing == /\ AtDep /\ Dep.to # NoPath
                   /\ disk[Dep.to].state = "absent"
                   /\ Fail("PKG001")

DependencyCycle == /\ AtDep /\ Dep.to # NoPath
                   /\ disk[Dep.to].state # "absent" /\ OnStack(Dep.to)
                   /\ Fail("PKG002")

\* The dependency leads to a manifest that exists and is not on the stack.
NewManifest == /\ AtDep /\ Dep.to # NoPath
               /\ disk[Dep.to].state # "absent" /\ ~OnStack(Dep.to)

ManifestUnusable ==
    /\ NewManifest
    /\ \/ disk[Dep.to].state = "unreadable" /\ Fail("read")
       \/ disk[Dep.to].state = "bad" /\ Fail("manifest")

ResolvedName == IF disk[Dep.to].name = NoName THEN Dep.name ELSE disk[Dep.to].name
ResolvedVersion == disk[Dep.to].version

\* The requested version and the one found are both given and differ.
Mismatch == /\ Dep.version # NoVersion /\ ResolvedVersion # NoVersion
            /\ Dep.version # ResolvedVersion

\* The entries no earlier entry has the resolved name of.
First(n) == {i \in 1..Len(entries) :
                /\ entries[i].resolved_name = n
                /\ \A j \in 1..(i - 1) : entries[j].resolved_name # n}

\* source_input_package_version: the version the package itself or the
\* first entry of that name has, if there is one.
SeenVersion(n) == IF n = EmptyName THEN {}
                  ELSE IF Root.name = n THEN {Root.version}
                  ELSE {entries[i].resolved_version : i \in First(n)}

\* Mutant of Conflict: the package itself is not looked at.
ConflictOfEntries == /\ ResolvedVersion # NoVersion
                     /\ ResolvedName # EmptyName
                     /\ \E i \in First(ResolvedName) :
                           entries[i].resolved_version # ResolvedVersion

Conflict == /\ ResolvedVersion # NoVersion
            /\ \E v \in SeenVersion(ResolvedName) : v # ResolvedVersion

VersionsClash == /\ NewManifest /\ disk[Dep.to].state = "ok"
                 /\ Mismatch \/ Conflict
                 /\ Fail("PKG003")

\* The dependency is recorded and its own dependencies come next.
Descend ==
    /\ NewManifest /\ disk[Dep.to].state = "ok" /\ ~Mismatch /\ ~Conflict
    /\ entries' = Append(entries, Entry(Dep, ResolvedName, ResolvedVersion, "path-resolved"))
    /\ frames' = Append(frames, Frame(Dep.to, Len(entries) + 1))
    /\ UNCHANGED <<disk, target, place, lockfile, diag>>

\* A manifest's dependencies are resolved: back to the one it was for.
Leave ==
    /\ place = "walk" /\ diag = "none" /\ frames # <<>> /\ ~AtDep
    /\ frames' = IF Depth = 1 THEN <<>>
                 ELSE [SubSeq(frames, 1, Depth - 1) EXCEPT ![Depth - 1].next = @ + 1]
    /\ place' = IF Depth = 1 THEN "lock" ELSE "walk"
    /\ UNCHANGED <<disk, target, entries, lockfile, diag>>

\* Mutant of Unwind: only the innermost call returns.
UnwindOnce == /\ diag # "none" /\ Depth > 1
              /\ frames' = SubSeq(frames, 1, Depth - 1)
              /\ UNCHANGED <<disk, target, place, entries, lockfile, diag>>

\* An error leaves the frames one by one.
Unwind == /\ diag # "none" /\ frames # <<>>
          /\ frames' = SubSeq(frames, 1, Depth - 1)
          /\ UNCHANGED <<disk, target, place, entries, lockfile, diag>>

\* write_package_lockfile; whether it could be written is not looked at.
WriteLock == /\ place = "lock"
             /\ lockfile' \in {"written", "lost"}
             /\ place' = "source"
             /\ UNCHANGED <<disk, target, frames, entries, diag>>

\* The main source must exist; the import walk (ModuleResolve) would follow.
FindSource == /\ place = "source" /\ diag = "none"
              /\ IF Root.source
                 THEN /\ place' = "targets"
                      /\ UNCHANGED <<disk, target, frames, entries, lockfile, diag>>
                 ELSE Fail("manifest")

\* package_dependency_target_compatible; a target is listed under its own
\* name or the one it has for zig.
TargetCompatible(e) == \/ e.targets = {}
                       \/ target \in e.targets
                       \/ HostTarget \in e.targets

\* validate_package_dependencies_for_target, which main calls for every
\* command but graph.
CheckTargets ==
    /\ place = "targets" /\ diag = "none"
    /\ IF \A i \in 1..Len(entries) : TargetCompatible(entries[i])
       THEN /\ place' = "done"
            /\ UNCHANGED <<disk, target, frames, entries, lockfile, diag>>
       ELSE Fail("PKG004")

PkgNext ==
    \/ Load \/ RegistryReference \/ ManifestMissing \/ DependencyCycle
    \/ ManifestUnusable \/ VersionsClash \/ Descend \/ Leave \/ Unwind
    \/ WriteLock \/ FindSource \/ CheckTargets

\* A sequential program: it takes its next step as long as there is one.
PkgSpec == PkgInit /\ [][PkgNext]_vars /\ WF_vars(PkgNext)

-----------------------------------------------------------------------------
EntryType == [name : Names, version : AnyVersion, to : Paths \cup {NoPath},
              targets : SUBSET Targets, resolved_name : Names,
              resolved_version : AnyVersion,
              status : {"registry-reference", "path-resolved"}, direct : BOOLEAN]

\* The type invariant of the walk.
PkgTypeOK ==
    /\ disk \in [Paths -> Manifest] /\ target \in Targets
    /\ place \in {"load", "walk", "lock", "source", "targets", "done"}
    /\ frames \in Seq([path : Paths, next : Nat \ {0}, entry : Nat])
    /\ entries \in Seq(EntryType)
    /\ lockfile \in {"none", "written", "lost"}
    /\ diag \in {"none", "read", "manifest", "PKG001", "PKG002", "PKG003", "PKG004"}

\* Entry e is what is recorded of dependency d.
Records(e, d) == /\ e.name = d.name /\ e.version = d.version
                 /\ e.to = d.to /\ e.targets = d.targets

Declares(p, e) == \E k \in 1..Len(Deps(p)) : Records(e, Deps(p)[k])

\* Two path dependencies of one name have the same version, as far as they
\* give one, however far apart in the graph they are, and it is also the
\* version of the package itself if that is of the name: the check against
\* the first entry of a name is enough to compare each with each.
PathVersionsAgree ==
    \A i \in 1..Len(entries) :
        LET e == entries[i] IN
        (/\ e.status = "path-resolved"
         /\ e.resolved_name # EmptyName
         /\ e.resolved_version # NoVersion) =>
            /\ e.resolved_name = Root.name => e.resolved_version = Root.version
            /\ \A j \in 1..Len(entries) :
                  /\ entries[j].status = "path-resolved"
                  /\ entries[j].resolved_name = e.resolved_name
                  /\ entries[j].resolved_version # NoVersion
                  => entries[j].resolved_version = e.resolved_version

\* Every entry was declared by the manifest of an earlier entry or, if and
\* only if it is marked direct, is one of the package's own: no entry is
\* left behind by a branch of the walk that was not taken.
EntriesAreDeclared ==
    \A i \in 1..Len(entries) :
        LET e == entries[i] IN
        IF e.direct THEN Declares(RootPath, e)
        ELSE \E j \in 1..(i - 1) : entries[j].to # NoPath /\ Declares(entries[j].to, e)

\* The walk is behind us.
Walked == place \in {"lock", "source", "targets", "done"}

\* Once the walk is done the package's own dependencies are listed, and
\* those of every listed package are listed after it.  So the list has the
\* whole graph, and the graph has no cycle: along its edges the last place
\* a package is listed at only grows.
WholeGraphListed ==
    Walked =>
        /\ \A k \in 1..Len(Deps(RootPath)) :
              \E j \in 1..Len(entries) : Records(entries[j], Deps(RootPath)[k])
        /\ \A i \in 1..Len(entries) : entries[i].to # NoPath =>
              \A k \in 1..Len(Deps(entries[i].to)) :
                 \E j \in (i + 1)..Len(entries) :
                    Records(entries[j], Deps(entries[i].to)[k])

\* The manifests reachable from the package's own: the least set that has it
\* and all that the manifests of the set depend on.
Successors(p) == {Deps(p)[k].to : k \in 1..Len(Deps(p))} \ {NoPath}

Closed(packages) == RootPath \in packages /\ \A p \in packages : Successors(p) \subseteq packages
Reachable == {p \in Paths : \A packages \in SUBSET Paths : Closed(packages) => p \in packages}

GraphDeps == UNION {{Deps(p)[k] : k \in 1..Len(Deps(p))} : p \in Reachable}

\* What the graph has under a name: manifests, under their own name or the
\* one they are depended on by, and registry references.
VersionsOf(n) ==
    {disk[p].version : p \in {q \in Reachable :
        \/ disk[q].name = n
        \/ disk[q].name = NoName /\ \E d \in GraphDeps : d.to = q /\ d.name = n}}
    \cup {d.version : d \in {e \in GraphDeps : e.to = NoPath /\ e.name = n}}

\* Of any of the manifests, one depends on none of them.
Acyclic == \A some \in SUBSET Reachable :
              some # {} => \E p \in some : Successors(p) \cap some = {}

\* The walk gets through only if the dependencies are acyclic, and every
\* diagnostic has its cause in the graph: a dependency that is missing, a
\* cycle, two versions (the empty one among them) of one name, a target
\* that is not listed.  A shared package is not mistaken for a cycle.
DiagnosticsAreTrue ==
    /\ Walked => Acyclic
    /\ diag = "PKG001" => \E p \in Reachable : disk[p].state = "absent"
    /\ diag = "PKG002" => ~Acyclic
    /\ diag = "PKG003" =>
          \/ \E d \in GraphDeps : /\ d.to # NoPath
                                 /\ d.version # NoVersion
                                 /\ disk[d.to].version \notin {NoVersion, d.version}
          \/ \E n \in Names \ {EmptyName} : \E v, w \in VersionsOf(n) : v # w
    /\ diag = "PKG004" => \E d \in GraphDeps : d.targets # {} /\ target \notin d.targets

\* The walk ends, whatever the manifests depend on.
PackagesEnd == <>(frames = <<>> /\ (diag # "none" \/ place = "done"))
=============================================================================
