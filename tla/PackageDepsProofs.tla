-------------------------- MODULE PackageDepsProofs --------------------------
(***************************************************************************)
(* Proofs about PackageDeps: the walk lists exactly the dependency graph,  *)
(* each package before its dependencies, in one version each, and its      *)
(* diagnostics have their causes in the graph.                             *)
(***************************************************************************)
EXTENDS PackageDeps, SeqLemmas, TLAPS

FrameSet == [path : Paths, next : Nat \ {0}, entry : Nat]

(***************************************************************************)
(* The invariant.                                                          *)
(***************************************************************************)
\* The k-th dependency of p is listed after entry e.
Follows(e, p, k) == \E j \in (e + 1)..Len(entries) : Records(entries[j], Deps(p)[k])

\* The stack starts with the package; each frame above was pushed for an
\* entry that leads to its manifest, the dependency the frame below is at.
StackIsAPath ==
    /\ frames # <<>> /\ frames[1].path = RootPath /\ frames[1].entry = 0
    /\ \A l \in 2..Depth : /\ frames[l].entry \in 1..Len(entries)
                          /\ entries[frames[l].entry].to = frames[l].path
    /\ \A l \in 1..(Depth - 1) :
          /\ frames[l].next \in 1..Len(Deps(frames[l].path))
          /\ frames[l].entry < frames[l + 1].entry
          /\ Records(entries[frames[l + 1].entry], Deps(frames[l].path)[frames[l].next])

\* The dependencies a frame has passed are listed after its own entry.
PassedAreListed ==
    \A l \in 1..Depth : \A k \in 1..Len(Deps(frames[l].path)) :
        k < frames[l].next => Follows(frames[l].entry, frames[l].path, k)

\* Every entry has all its dependencies listed, or is still on the stack.
ListedOrOpen ==
    \A i \in 1..Len(entries) : entries[i].to # NoPath =>
        \/ \A k \in 1..Len(Deps(entries[i].to)) : Follows(i, entries[i].to, k)
        \/ \E l \in 1..Depth : frames[l].entry = i

InWalk == place = "walk" /\ diag = "none"

WalkState == /\ place = "load" => entries = <<>>
             /\ InWalk => StackIsAPath /\ PassedAreListed /\ ListedOrOpen

\* An entry that gives a version agrees with the one its name was seen with
\* first.
FirstAgrees ==
    \A i \in 1..Len(entries) :
        entries[i].status = "path-resolved" /\ entries[i].resolved_version # NoVersion =>
            \A v \in SeenVersion(entries[i].resolved_name) : v = entries[i].resolved_version

PkgInv == /\ PkgTypeOK /\ WalkState /\ FirstAgrees
          /\ EntriesAreDeclared /\ WholeGraphListed

\* An entry index comes first, or another of its name does.
LEMMA FirstExists ==
    ASSUME entries \in Seq(EntryType), NEW i \in 1..Len(entries)
    PROVE  First(entries[i].resolved_name) # {}
<1> DEFINE n == entries[i].resolved_name
           S == {k \in 1..Len(entries) : entries[k].resolved_name = n}
<1>1. Len(entries) \in Nat
  OBVIOUS
<1>2. S \in SUBSET Nat /\ i \in S
  BY <1>1
<1>3. PICK m \in S : \A k \in S : m <= k
  BY <1>2, LeastNat
<1>4. ASSUME NEW j \in 1..(m - 1) PROVE entries[j].resolved_name # n
  BY <1>1, <1>2, <1>3
<1>5. m \in First(n)
  BY <1>3, <1>4 DEF First
<1> QED BY <1>5

\* What the types say of the stack and the manifests.
LEMMA Facts ==
    ASSUME PkgTypeOK
    PROVE  /\ Depth \in Nat /\ Len(entries) \in Nat
           /\ frames # <<>> => Depth \in 1..Depth
           /\ \A l \in 1..Depth : /\ frames[l] \in FrameSet /\ frames[l].path \in Paths
                                 /\ frames[l].next \in Nat \ {0}
                                 /\ frames[l].entry \in Nat
           /\ \A p \in Paths : /\ disk[p] \in Manifest
                              /\ Deps(p) \in Seq(Dependency) /\ Len(Deps(p)) \in Nat
           /\ \A p \in Paths : \A k \in 1..Len(Deps(p)) : Deps(p)[k] \in Dependency
           /\ \A i \in 1..Len(entries) : entries[i] \in EntryType
<1>1. /\ frames \in Seq(FrameSet) /\ entries \in Seq(EntryType)
      /\ disk \in [Paths -> Manifest]
  BY DEF PkgTypeOK, FrameSet
<1>2. \A f \in FrameSet : f.path \in Paths /\ f.next \in Nat \ {0} /\ f.entry \in Nat
  BY DEF FrameSet
<1>3. \A m \in Manifest : m.deps \in Seq(Dependency)
  BY DEF Manifest
<1>4. \A p \in Paths : disk[p] \in Manifest /\ Deps(p) \in Seq(Dependency)
  BY <1>1, <1>3 DEF Deps
<1>5. \A p \in Paths : /\ Len(Deps(p)) \in Nat
                       /\ \A k \in 1..Len(Deps(p)) : Deps(p)[k] \in Dependency
  BY <1>4
<1>6. /\ Depth \in Nat /\ Len(entries) \in Nat
      /\ frames # <<>> => Depth \in 1..Depth
      /\ \A l \in 1..Depth : frames[l] \in FrameSet
      /\ \A i \in 1..Len(entries) : entries[i] \in EntryType
  BY <1>1 DEF Depth
<1> QED BY <1>2, <1>4, <1>5, <1>6

\* The dependency the loop is at.
LEMMA DepFacts ==
    ASSUME PkgTypeOK, AtDep
    PROVE  /\ Depth \in 1..Depth /\ Top = frames[Depth] /\ Top \in FrameSet
           /\ Top.path \in Paths /\ Top.next \in 1..Len(Deps(Top.path))
           /\ Dep = Deps(Top.path)[Top.next] /\ Dep \in Dependency
<1>1. /\ Depth \in 1..Depth /\ Top = frames[Depth] /\ Top \in FrameSet
      /\ Top.path \in Paths /\ Top.next \in Nat \ {0}
  BY Facts DEF AtDep, Top
<1>2. Top.next \in 1..Len(Deps(Top.path))
  BY <1>1, Facts DEF AtDep
<1> QED BY <1>1, <1>2, Facts DEF Dep

\* Nothing the list says changes while the disk and the list do not.
LEMMA SameList ==
    ASSUME UNCHANGED <<disk, entries>>
    PROVE  /\ \A p : Deps(p)' = Deps(p)
           /\ \A e, p, k : Follows(e, p, k)' = Follows(e, p, k)
           /\ FirstAgrees => FirstAgrees'
           /\ EntriesAreDeclared => EntriesAreDeclared'
<1>1. disk' = disk /\ entries' = entries
  OBVIOUS
<1>2. \A p : Deps(p)' = Deps(p)
  BY <1>1 DEF Deps
<1>3. \A e, p, k : Follows(e, p, k)' = Follows(e, p, k)
  BY <1>1, <1>2 DEF Follows
<1>4. \A n : SeenVersion(n)' = SeenVersion(n)
  BY <1>1 DEF SeenVersion, First, Root
<1>5. FirstAgrees => FirstAgrees'
  BY <1>1, <1>4 DEF FirstAgrees
<1>6. EntriesAreDeclared => EntriesAreDeclared'
  BY <1>1, <1>2 DEF EntriesAreDeclared, Declares
<1> QED BY <1>2, <1>3, <1>5, <1>6

\* An error leaves all as it is but the diagnostic.
LEMMA FailKeepsInv ==
    ASSUME PkgInv, NEW code \in {"read", "manifest", "PKG001", "PKG002", "PKG003", "PKG004"},
           Fail(code)
    PROVE  PkgInv'
<1>1. /\ diag' = code /\ diag' # "none" /\ disk' = disk /\ target' = target
      /\ place' = place /\ frames' = frames /\ entries' = entries /\ lockfile' = lockfile
  BY DEF Fail
<1>2. PkgTypeOK'
  BY <1>1 DEF PkgInv, PkgTypeOK
<1>3. WalkState'
  BY <1>1 DEF PkgInv, WalkState, InWalk
<1>4. FirstAgrees' /\ EntriesAreDeclared' /\ \A p : Deps(p)' = Deps(p)
  BY <1>1, SameList DEF PkgInv
<1>5. WholeGraphListed'
  BY <1>1, <1>4 DEF PkgInv, WholeGraphListed, Walked
<1> QED BY <1>2, <1>3, <1>4, <1>5 DEF PkgInv

\* Agreement of an entry with the first of its name.
Agrees(e) == e.status = "path-resolved" /\ e.resolved_version # NoVersion =>
                 \A v \in SeenVersion(e.resolved_name) : v = e.resolved_version

\* An entry is added to the list.
LEMMA AddEntry ==
    ASSUME PkgInv, NEW e \in EntryType, entries' = Append(entries, e), disk' = disk
    PROVE  /\ Len(entries') = Len(entries) + 1 /\ entries' \in Seq(EntryType)
           /\ \A i \in 1..Len(entries) : entries'[i] = entries[i]
           /\ entries'[Len(entries) + 1] = e
           /\ \A p : Deps(p)' = Deps(p)
           /\ \A a \in Nat : \A p, k : Follows(a, p, k) => Follows(a, p, k)'
           /\ Agrees(e) => FirstAgrees'
<1>0. entries \in Seq(EntryType) /\ Len(entries) \in Nat /\ FirstAgrees
  BY DEF PkgInv, PkgTypeOK
<1>1. /\ Len(entries') = Len(entries) + 1 /\ entries' \in Seq(EntryType)
      /\ \A i \in 1..Len(entries) : entries'[i] = entries[i]
      /\ entries'[Len(entries) + 1] = e
  BY <1>0
<1>2. \A p : Deps(p)' = Deps(p)
  BY DEF Deps
<1>3. ASSUME NEW a \in Nat, NEW p, NEW k, Follows(a, p, k)
      PROVE  Follows(a, p, k)'
  <2>1. PICK j \in (a + 1)..Len(entries) : Records(entries[j], Deps(p)[k])
    BY <1>3 DEF Follows
  <2>2. j \in 1..Len(entries) /\ j \in (a + 1)..Len(entries')
    BY <1>0, <1>1, <2>1
  <2>3. Records(entries'[j], (Deps(p)')[k])
    BY <1>1, <1>2, <2>1, <2>2
  <2>4. (Deps(p)[k])' = (Deps(p)')[k]
    OBVIOUS
  <2> QED BY <2>2, <2>3, <2>4 DEF Follows
<1>4. ASSUME Agrees(e) PROVE FirstAgrees'
  <2> DEFINE N == Len(entries) + 1
  <2> SUFFICES ASSUME NEW i \in 1..N, entries'[i].status = "path-resolved",
                      entries'[i].resolved_version # NoVersion,
                      NEW n, n = entries'[i].resolved_name, NEW v \in SeenVersion(n)'
               PROVE  v = entries'[i].resolved_version
    BY <1>1 DEF FirstAgrees
  <2>0. Root' = Root
    BY DEF Root
  <2>e. n # EmptyName
    BY DEF SeenVersion
  <2>1. CASE Root.name = n
    <3>1. v \in SeenVersion(n)
      BY <2>0, <2>1 DEF SeenVersion
    <3>2. CASE i \in 1..Len(entries)
      <4>1. entries'[i] = entries[i]
        BY <1>1, <3>2
      <4> QED BY <1>0, <3>1, <3>2, <4>1 DEF FirstAgrees
    <3>3. CASE i = N
      <4>1. entries'[i] = e
        BY <1>1, <3>3
      <4> QED BY <1>4, <3>1, <4>1 DEF Agrees
    <3> QED BY <1>0, <3>2, <3>3
  <2>2. CASE Root.name # n
    <3>1. PICK k \in First(n)' : v = entries'[k].resolved_version
      BY <2>0, <2>2, <2>e DEF SeenVersion
    <3>2. /\ k \in 1..N /\ entries'[k].resolved_name = n
          /\ \A j \in 1..(k - 1) : entries'[j].resolved_name # n
      BY <1>1, <3>1 DEF First
    <3>3. CASE k \in 1..Len(entries)
      <4>1. entries'[k] = entries[k] /\ \A j \in 1..(k - 1) : entries'[j] = entries[j]
        BY <1>0, <1>1, <3>3
      <4>2. k \in First(n)
        BY <3>2, <3>3, <4>1 DEF First
      <4>3. v \in SeenVersion(n)
        BY <2>2, <2>e, <3>1, <4>1, <4>2 DEF SeenVersion
      <4>4. CASE i \in 1..Len(entries)
        <5>1. entries'[i] = entries[i]
          BY <1>1, <4>4
        <5> QED BY <1>0, <4>3, <4>4, <5>1 DEF FirstAgrees
      <4>5. CASE i = N
        <5>1. entries'[i] = e
          BY <1>1, <4>5
        <5> QED BY <1>4, <4>3, <5>1 DEF Agrees
      <4> QED BY <1>0, <4>4, <4>5
    <3>4. CASE k = N
      <4>1. i = N
        BY <1>0, <3>2, <3>4
      <4> QED BY <3>1, <3>4, <4>1
    <3> QED BY <1>0, <3>2, <3>3, <3>4
  <2> QED BY <2>1, <2>2
<1> QED BY <1>1, <1>2, <1>3, <1>4

\* An entry for the dependency the loop is at is declared: by the package
\* for the bottom frame, by the entry a frame was pushed for otherwise.
LEMMA AddDeclared ==
    ASSUME PkgInv, AtDep, NEW e \in EntryType, Records(e, Dep), e.direct <=> Depth = 1,
           entries' = Append(entries, e), disk' = disk
    PROVE  EntriesAreDeclared'
<1>0. PkgTypeOK /\ EntriesAreDeclared /\ StackIsAPath /\ Len(entries) \in Nat
  BY Facts DEF PkgInv, WalkState, InWalk, AtDep
<1>1. /\ Len(entries') = Len(entries) + 1
      /\ \A i \in 1..Len(entries) : entries'[i] = entries[i]
      /\ entries'[Len(entries) + 1] = e
      /\ \A p : Deps(p)' = Deps(p)
  BY AddEntry
<1>2. /\ Depth \in 1..Depth /\ Top = frames[Depth] /\ Depth \in Nat
      /\ Top.next \in 1..Len(Deps(Top.path)) /\ Dep = Deps(Top.path)[Top.next]
  BY <1>0, DepFacts, Facts
<1>3. Declares(Top.path, e)
  BY <1>2 DEF Declares
<1> SUFFICES ASSUME NEW i \in 1..(Len(entries) + 1)
             PROVE  IF entries'[i].direct
                    THEN Declares(RootPath, entries[i])'
                    ELSE \E j \in 1..(i - 1) : /\ entries'[j].to # NoPath
                                             /\ Declares(entries[j].to, entries[i])'
  BY <1>1 DEF EntriesAreDeclared
<1>4. CASE i \in 1..Len(entries)
  <2>1. entries'[i] = entries[i] /\ \A j \in 1..(i - 1) : entries'[j] = entries[j]
    BY <1>0, <1>1, <1>4
  <2>2. CASE entries[i].direct
    <3>1. Declares(RootPath, entries[i])
      BY <1>0, <1>4, <2>2 DEF EntriesAreDeclared
    <3>2. Declares(RootPath, entries[i])'
      BY <1>1, <2>1, <3>1 DEF Declares
    <3> QED BY <2>1, <2>2, <3>2
  <2>3. CASE ~entries[i].direct
    <3>1. PICK j \in 1..(i - 1) : entries[j].to # NoPath /\ Declares(entries[j].to, entries[i])
      BY <1>0, <1>4, <2>3 DEF EntriesAreDeclared
    <3>2. Declares(entries[j].to, entries[i])'
      BY <1>1, <2>1, <3>1 DEF Declares
    <3> QED BY <2>1, <2>3, <3>1, <3>2
  <2> QED BY <2>2, <2>3
<1>5. CASE i = Len(entries) + 1
  <2>1. entries'[i] = e
    BY <1>1, <1>5
  <2>2. CASE Depth = 1
    <3>1. Top.path = RootPath
      BY <1>0, <1>2, <2>2 DEF StackIsAPath
    <3>2. Declares(RootPath, entries[i])'
      BY <1>1, <1>3, <2>1, <3>1 DEF Declares
    <3> QED BY <2>1, <2>2, <3>2
  <2>3. CASE Depth # 1
    <3>1. PICK j \in 1..Len(entries) : entries[j].to = Top.path
      BY <1>0, <1>2, <2>3 DEF StackIsAPath
    <3>2. Top.path # NoPath
      BY <1>0, <1>2, Facts, PackageAssumption
    <3>3. j \in 1..(i - 1) /\ entries'[j] = entries[j]
      BY <1>0, <1>1, <1>5, <3>1
    <3>4. Declares(entries[j].to, entries[i])'
      BY <1>1, <1>3, <2>1, <3>1, <3>3 DEF Declares
    <3> QED BY <2>1, <2>3, <3>1, <3>2, <3>3, <3>4
  <2> QED BY <2>2, <2>3
<1> QED BY <1>0, <1>4, <1>5

\* A registry reference is recorded and the loop goes on.
LEMMA RegistryReferenceKeepsInv ==
    ASSUME PkgInv, RegistryReference
    PROVE  PkgInv'
<1> DEFINE e == Entry(Dep, Dep.name, Dep.version, "registry-reference")
           N == Len(entries) + 1
<1>0. /\ PkgTypeOK /\ StackIsAPath /\ PassedAreListed /\ ListedOrOpen /\ AtDep
      /\ Dep.to = NoPath /\ place = "walk" /\ diag = "none"
      /\ entries' = Append(entries, e) /\ NextDep
      /\ disk' = disk /\ target' = target /\ place' = place
      /\ lockfile' = lockfile /\ diag' = diag
  BY DEF PkgInv, WalkState, InWalk, AtDep, RegistryReference
<1>1. /\ Depth \in 1..Depth /\ Depth \in Nat /\ Depth = Len(frames) /\ Len(entries) \in Nat
      /\ Top = frames[Depth] /\ Top \in FrameSet /\ Top.path \in Paths
      /\ Top.next \in 1..Len(Deps(Top.path)) /\ Dep = Deps(Top.path)[Top.next]
      /\ Dep \in Dependency
      /\ \A l \in 1..Depth : /\ frames[l] \in FrameSet /\ frames[l].path \in Paths
                            /\ frames[l].next \in Nat \ {0} /\ frames[l].entry \in Nat
  BY <1>0, DepFacts, Facts DEF Depth
<1>2. /\ e \in EntryType /\ Records(e, Dep) /\ (e.direct <=> Depth = 1)
      /\ e.to = NoPath /\ e.status = "registry-reference"
  BY <1>0, <1>1 DEF Entry, EntryType, Dependency, Records
<1> HIDE DEF e
<1>3. /\ Len(entries') = N /\ entries' \in Seq(EntryType)
      /\ \A i \in 1..Len(entries) : entries'[i] = entries[i]
      /\ entries'[N] = e
      /\ \A p : Deps(p)' = Deps(p)
      /\ \A a \in Nat : \A p, k : Follows(a, p, k) => Follows(a, p, k)'
      /\ Agrees(e) => FirstAgrees'
  BY <1>0, <1>2, AddEntry
<1>4. EntriesAreDeclared'
  BY <1>0, <1>2, AddDeclared
<1>5. FirstAgrees'
  BY <1>2, <1>3 DEF Agrees
<1>6. /\ Len(frames') = Depth /\ frames' \in Seq(FrameSet)
      /\ \A l \in 1..Depth : frames'[l].path = frames[l].path /\ frames'[l].entry = frames[l].entry
      /\ \A l \in 1..(Depth - 1) : frames'[l] = frames[l]
      /\ frames'[Depth].next = frames[Depth].next + 1
  <2> DEFINE f == [frames[Depth] EXCEPT !.next = @ + 1]
  <2>1. frames[Depth] \in FrameSet
    BY <1>1
  <2>2. /\ f \in FrameSet /\ f.path = frames[Depth].path /\ f.entry = frames[Depth].entry
        /\ f.next = frames[Depth].next + 1
    BY <2>1 DEF FrameSet
  <2>3. frames' = [frames EXCEPT ![Depth] = f]
    BY <1>0 DEF NextDep
  <2>4. frames \in Seq(FrameSet)
    BY <1>0 DEF PkgTypeOK, FrameSet
  <2> HIDE DEF f
  <2> QED BY <1>1, <2>2, <2>3, <2>4
<1>7. PkgTypeOK'
  BY <1>0, <1>3, <1>6 DEF PkgTypeOK, FrameSet
<1>8. StackIsAPath'
  <2>1. /\ frames' # <<>> /\ frames'[1].path = RootPath /\ frames'[1].entry = 0
    BY <1>0, <1>1, <1>6 DEF StackIsAPath
  <2>2. ASSUME NEW l \in 2..Depth
        PROVE  frames'[l].entry \in 1..N /\ entries'[frames'[l].entry].to = frames'[l].path
    <3>1. /\ l \in 1..Depth /\ frames[l].entry \in 1..Len(entries)
          /\ entries[frames[l].entry].to = frames[l].path
      BY <1>0, <1>1 DEF StackIsAPath
    <3>2. frames'[l].entry = frames[l].entry /\ frames'[l].path = frames[l].path
      BY <1>6, <3>1
    <3>3. /\ entries'[frames[l].entry] = entries[frames[l].entry]
          /\ frames[l].entry \in 1..N
      BY <1>1, <1>3, <3>1
    <3> QED BY <3>1, <3>2, <3>3
  <2>3. ASSUME NEW l \in 1..(Depth - 1)
        PROVE  /\ frames'[l].next \in 1..Len(Deps(frames'[l].path))
               /\ frames'[l].entry < frames'[l + 1].entry
               /\ Records(entries'[frames'[l + 1].entry],
                          Deps(frames'[l].path)[frames'[l].next])
    <3>1. l \in 1..Depth /\ l + 1 \in 2..Depth /\ l + 1 \in 1..Depth
      BY <1>1
    <3>2. /\ frames'[l] = frames[l] /\ frames'[l + 1].entry = frames[l + 1].entry
          /\ frames[l + 1].entry \in 1..Len(entries)
      BY <1>0, <1>6, <3>1 DEF StackIsAPath
    <3>3. entries'[frames'[l + 1].entry] = entries[frames[l + 1].entry]
      BY <1>3, <3>2
    <3> QED BY <1>0, <3>2, <3>3 DEF StackIsAPath
  <2> QED BY <1>3, <1>6, <2>1, <2>2, <2>3 DEF StackIsAPath, Depth
<1>9. ASSUME NEW a, NEW p, NEW k, a = Top.entry, p = Top.path, k = Top.next
      PROVE  Follows(a, p, k)'
  <2>1. a \in Nat /\ a <= Len(entries)
    BY <1>0, <1>1, <1>9 DEF StackIsAPath
  <2>2. N \in (a + 1)..N
    BY <1>1, <2>1
  <2>3. Records(entries'[N], Deps(p)[k])
    BY <1>1, <1>2, <1>3, <1>9
  <2>4. \E j \in (a + 1)..Len(entries') : Records(entries'[j], Deps(p)[k])
    BY <1>3, <2>2, <2>3
  <2> QED BY <1>3, <2>4 DEF Follows
<1>10. PassedAreListed'
  <2> SUFFICES ASSUME NEW l \in 1..Depth, NEW a, NEW p,
                      a = frames'[l].entry, p = frames'[l].path,
                      NEW k \in 1..Len(Deps(p)), k < frames'[l].next
               PROVE  Follows(a, p, k)'
    BY <1>3, <1>6 DEF PassedAreListed, Depth
  <2>1. /\ a = frames[l].entry /\ p = frames[l].path /\ a \in Nat
        /\ k \in Nat /\ Len(Deps(p)) \in Nat
    BY <1>0, <1>1, <1>6, Facts
  <2>2. CASE k < frames[l].next
    <3>1. Follows(a, p, k)
      BY <1>0, <1>1, <2>1, <2>2 DEF PassedAreListed
    <3> QED BY <1>3, <2>1, <3>1
  <2>3. CASE ~(k < frames[l].next)
    <3>1. l = Depth
      <4>1. l # Depth => l \in 1..(Depth - 1)
        BY <1>1
      <4> QED BY <1>6, <2>3, <4>1
    <3>2. k = Top.next
      BY <1>1, <1>6, <2>1, <2>3, <3>1
    <3> QED BY <1>1, <1>9, <2>1, <3>1, <3>2
  <2> QED BY <2>2, <2>3
<1>11. ListedOrOpen'
  <2> SUFFICES ASSUME NEW i \in 1..N, NEW p, p = entries'[i].to, p # NoPath
               PROVE  \/ \A k \in 1..Len(Deps(p)) : Follows(i, p, k)'
                      \/ \E l \in 1..Depth : frames'[l].entry = i
    BY <1>3, <1>6 DEF ListedOrOpen, Depth
  <2>1. i \in 1..Len(entries) /\ i \in Nat /\ p = entries[i].to
    BY <1>1, <1>2, <1>3
  <2>2. CASE \A k \in 1..Len(Deps(p)) : Follows(i, p, k)
    BY <1>3, <2>1, <2>2
  <2>3. CASE \E l \in 1..Depth : frames[l].entry = i
    BY <1>6, <2>3
  <2> QED BY <1>0, <2>1, <2>2, <2>3 DEF ListedOrOpen
<1>12. WalkState' /\ WholeGraphListed'
  BY <1>0, <1>8, <1>10, <1>11 DEF WalkState, InWalk, WholeGraphListed, Walked
<1> QED BY <1>4, <1>5, <1>7, <1>12 DEF PkgInv

\* A new manifest's dependency is recorded and its frame pushed.
LEMMA DescendKeepsInv ==
    ASSUME PkgInv, Descend
    PROVE  PkgInv'
<1> DEFINE e == Entry(Dep, ResolvedName, ResolvedVersion, "path-resolved")
           N == Len(entries) + 1
           f == Frame(Dep.to, N)
<1>0. /\ PkgTypeOK /\ StackIsAPath /\ PassedAreListed /\ ListedOrOpen /\ AtDep
      /\ Dep.to # NoPath /\ place = "walk" /\ diag = "none" /\ ~Conflict
      /\ entries' = Append(entries, e) /\ frames' = Append(frames, f)
      /\ disk' = disk /\ target' = target /\ place' = place
      /\ lockfile' = lockfile /\ diag' = diag
  BY DEF PkgInv, WalkState, InWalk, AtDep, Descend, NewManifest
<1>1. /\ Depth \in 1..Depth /\ Depth \in Nat /\ Depth = Len(frames) /\ Len(entries) \in Nat
      /\ Top = frames[Depth] /\ Top \in FrameSet /\ Top.path \in Paths
      /\ Top.next \in 1..Len(Deps(Top.path)) /\ Dep = Deps(Top.path)[Top.next]
      /\ Dep \in Dependency
      /\ \A l \in 1..Depth : /\ frames[l] \in FrameSet /\ frames[l].path \in Paths
                            /\ frames[l].next \in Nat \ {0} /\ frames[l].entry \in Nat
  BY <1>0, DepFacts, Facts DEF Depth
<1>2. Dep.to \in Paths /\ ResolvedName \in Names /\ ResolvedVersion \in AnyVersion
  <2>1. Dep.to \in Paths /\ Dep.name \in Names
    BY <1>0, <1>1 DEF Dependency
  <2>2. disk[Dep.to].name \in Names \cup {NoName} /\ disk[Dep.to].version \in AnyVersion
    BY <1>0, <2>1, Facts DEF Manifest
  <2> QED BY <2>1, <2>2 DEF ResolvedName, ResolvedVersion
<1>3. /\ e \in EntryType /\ Records(e, Dep) /\ (e.direct <=> Depth = 1)
      /\ e.to = Dep.to /\ e.resolved_name = ResolvedName
      /\ e.resolved_version = ResolvedVersion
  BY <1>1, <1>2 DEF Entry, EntryType, Dependency, Records
<1>4. f \in FrameSet /\ f.path = Dep.to /\ f.next = 1 /\ f.entry = N
  BY <1>1, <1>2 DEF Frame, FrameSet
<1>5. Agrees(e)
  BY <1>0, <1>3 DEF Agrees, Conflict
<1> HIDE DEF e, f
<1>6. /\ Len(entries') = N /\ entries' \in Seq(EntryType)
      /\ \A i \in 1..Len(entries) : entries'[i] = entries[i]
      /\ entries'[N] = e
      /\ \A p : Deps(p)' = Deps(p)
      /\ \A a \in Nat : \A p, k : Follows(a, p, k) => Follows(a, p, k)'
      /\ FirstAgrees'
  BY <1>0, <1>3, <1>5, AddEntry
<1>7. EntriesAreDeclared'
  BY <1>0, <1>3, AddDeclared
<1>8. /\ Len(frames') = Depth + 1 /\ frames' \in Seq(FrameSet)
      /\ \A l \in 1..Depth : frames'[l] = frames[l]
      /\ frames'[Depth + 1] = f
  <2>1. frames \in Seq(FrameSet)
    BY <1>0 DEF PkgTypeOK, FrameSet
  <2> QED BY <1>0, <1>1, <1>4, <2>1
<1>9. PkgTypeOK'
  BY <1>0, <1>6, <1>8 DEF PkgTypeOK, FrameSet
<1>10. StackIsAPath'
  <2>1. /\ frames' # <<>> /\ frames'[1].path = RootPath /\ frames'[1].entry = 0
    BY <1>0, <1>1, <1>8 DEF StackIsAPath
  <2>2. ASSUME NEW l \in 2..(Depth + 1)
        PROVE  frames'[l].entry \in 1..N /\ entries'[frames'[l].entry].to = frames'[l].path
    <3>1. CASE l \in 2..Depth
      <4>1. /\ l \in 1..Depth /\ frames[l].entry \in 1..Len(entries)
            /\ entries[frames[l].entry].to = frames[l].path
        BY <1>0, <1>1, <3>1 DEF StackIsAPath
      <4> QED BY <1>1, <1>6, <1>8, <4>1
    <3>2. CASE l = Depth + 1
      BY <1>1, <1>3, <1>4, <1>6, <1>8, <3>2
    <3> QED BY <1>1, <3>1, <3>2
  <2>3. ASSUME NEW l \in 1..Depth
        PROVE  /\ frames'[l].next \in 1..Len(Deps(frames'[l].path))
               /\ frames'[l].entry < frames'[l + 1].entry
               /\ Records(entries'[frames'[l + 1].entry],
                          Deps(frames'[l].path)[frames'[l].next])
    <3>0. frames'[l] = frames[l]
      BY <1>8
    <3>1. CASE l \in 1..(Depth - 1)
      <4>1. l + 1 \in 2..Depth /\ l + 1 \in 1..Depth
        BY <1>1, <3>1
      <4>2. frames'[l + 1] = frames[l + 1] /\ frames[l + 1].entry \in 1..Len(entries)
        BY <1>0, <1>8, <4>1 DEF StackIsAPath
      <4>3. entries'[frames'[l + 1].entry] = entries[frames[l + 1].entry]
        BY <1>6, <4>2
      <4> QED BY <1>0, <3>0, <3>1, <4>2, <4>3 DEF StackIsAPath
    <3>2. CASE l = Depth
      <4>1. frames'[l + 1] = f /\ frames[l] = Top
        BY <1>1, <1>8, <3>2
      <4>2. Top.entry \in Nat /\ Top.entry <= Len(entries)
        BY <1>0, <1>1 DEF StackIsAPath
      <4> QED BY <1>1, <1>3, <1>4, <1>6, <3>0, <4>1, <4>2
    <3> QED BY <1>1, <3>1, <3>2
  <2> QED BY <1>1, <1>6, <1>8, <2>1, <2>2, <2>3 DEF StackIsAPath, Depth
<1>11. PassedAreListed'
  <2> SUFFICES ASSUME NEW l \in 1..(Depth + 1), NEW a, NEW p,
                      a = frames'[l].entry, p = frames'[l].path,
                      NEW k \in 1..Len(Deps(p)), k < frames'[l].next
               PROVE  Follows(a, p, k)'
    BY <1>6, <1>8 DEF PassedAreListed, Depth
  <2>1. l # Depth + 1
    BY <1>4, <1>8
  <2>2. l \in 1..Depth
    BY <1>1, <2>1
  <2>3. frames'[l] = frames[l] /\ a \in Nat
    BY <1>1, <1>8, <2>2
  <2>4. Follows(a, p, k)
    BY <1>0, <2>2, <2>3 DEF PassedAreListed
  <2> QED BY <1>6, <2>3, <2>4
<1>12. ListedOrOpen'
  <2> SUFFICES ASSUME NEW i \in 1..N, NEW p, p = entries'[i].to, p # NoPath
               PROVE  \/ \A k \in 1..Len(Deps(p)) : Follows(i, p, k)'
                      \/ \E l \in 1..(Depth + 1) : frames'[l].entry = i
    BY <1>6, <1>8 DEF ListedOrOpen, Depth
  <2>1. CASE i = N
    <3>1. Depth + 1 \in 1..(Depth + 1) /\ frames'[Depth + 1].entry = N
      BY <1>1, <1>4, <1>8
    <3> QED BY <2>1, <3>1
  <2>2. CASE i # N
    <3>1. i \in 1..Len(entries) /\ i \in Nat /\ p = entries[i].to
      BY <1>1, <1>6, <2>2
    <3>2. CASE \A k \in 1..Len(Deps(p)) : Follows(i, p, k)
      BY <1>6, <3>1, <3>2
    <3>3. CASE \E l \in 1..Depth : frames[l].entry = i
      <4>1. PICK l \in 1..Depth : frames[l].entry = i
        BY <3>3
      <4>2. l \in 1..(Depth + 1) /\ frames'[l].entry = i
        BY <1>1, <1>8, <4>1
      <4> QED BY <4>2
    <3> QED BY <1>0, <3>1, <3>2, <3>3 DEF ListedOrOpen
  <2> QED BY <2>1, <2>2
<1>13. WalkState' /\ WholeGraphListed'
  BY <1>0, <1>10, <1>11, <1>12 DEF WalkState, InWalk, WholeGraphListed, Walked
<1> QED BY <1>6, <1>7, <1>9, <1>13 DEF PkgInv

\* A frame whose dependencies are all passed is left: its entry has them all
\* listed, and so has the package when the bottom frame is left.
LEMMA LeaveKeepsInv ==
    ASSUME PkgInv, Leave
    PROVE  PkgInv'
<1>0. /\ PkgTypeOK /\ StackIsAPath /\ PassedAreListed /\ ListedOrOpen
      /\ place = "walk" /\ diag = "none" /\ frames # <<>> /\ ~AtDep
      /\ disk' = disk /\ target' = target /\ entries' = entries
      /\ lockfile' = lockfile /\ diag' = diag
  BY DEF PkgInv, WalkState, InWalk, Leave
<1>1. /\ Depth \in 1..Depth /\ Depth \in Nat /\ Depth = Len(frames) /\ Len(entries) \in Nat
      /\ \A l \in 1..Depth : /\ frames[l] \in FrameSet /\ frames[l].path \in Paths
                            /\ frames[l].next \in Nat \ {0} /\ frames[l].entry \in Nat
                            /\ Len(Deps(frames[l].path)) \in Nat
  BY <1>0, Facts DEF Depth
<1>2. /\ \A p : Deps(p)' = Deps(p)
      /\ \A a, p, k : Follows(a, p, k)' = Follows(a, p, k)
      /\ FirstAgrees' /\ EntriesAreDeclared'
  BY <1>0, SameList DEF PkgInv
<1>3. ASSUME NEW k \in 1..Len(Deps(frames[Depth].path))
      PROVE  Follows(frames[Depth].entry, frames[Depth].path, k)
  <2>1. ~(frames[Depth].next <= Len(Deps(frames[Depth].path)))
    BY <1>0 DEF AtDep, Top
  <2>2. k < frames[Depth].next
    BY <1>1, <2>1
  <2> QED BY <1>0, <1>1, <2>2 DEF PassedAreListed
<1>4. CASE Depth = 1
  <2>1. frames' = <<>> /\ place' = "lock"
    BY <1>4 DEF Leave
  <2>2. PkgTypeOK'
    BY <1>0, <2>1 DEF PkgTypeOK
  <2>3. frames[Depth].path = RootPath /\ frames[Depth].entry = 0
    BY <1>0, <1>4 DEF StackIsAPath
  <2>4. ASSUME NEW k \in 1..Len(Deps(RootPath))
        PROVE  \E j \in 1..Len(entries) : Records(entries[j], Deps(RootPath)[k])
    BY <1>3, <2>3 DEF Follows
  <2>5. ASSUME NEW i \in 1..Len(entries), entries[i].to # NoPath,
               NEW k \in 1..Len(Deps(entries[i].to))
        PROVE  \E j \in (i + 1)..Len(entries) : Records(entries[j], Deps(entries[i].to)[k])
    <3>1. ~\E l \in 1..Depth : frames[l].entry = i
      BY <1>0, <1>4, <2>3
    <3>2. Follows(i, entries[i].to, k)
      BY <1>0, <2>5, <3>1 DEF ListedOrOpen
    <3> QED BY <3>2 DEF Follows
  <2>6. WholeGraphListed'
    BY <1>0, <1>2, <2>4, <2>5 DEF WholeGraphListed
  <2>7. WalkState'
    BY <2>1 DEF WalkState, InWalk
  <2> QED BY <1>2, <2>2, <2>6, <2>7 DEF PkgInv
<1>5. CASE Depth # 1
  <2>p. PICK B \in 1..Depth : B = Depth - 1 /\ B \in Nat \ {0}
    <3>1. Depth \in Nat /\ Depth >= 1
      BY <1>1
    <3>2. Depth - 1 \in 1..Depth /\ Depth - 1 \in Nat \ {0}
      BY <1>5, <3>1
    <3> QED BY <3>2
  <2> DEFINE f == [frames[B] EXCEPT !.next = @ + 1]
  <2>0. /\ B \in 1..Depth /\ B \in Nat /\ B = Depth - 1 /\ B + 1 = Depth
        /\ \A l \in 1..B : l \in 1..Depth
    BY <1>1, <2>p
  <2>1. /\ frames' = [SubSeq(frames, 1, B) EXCEPT ![B].next = @ + 1]
        /\ place' = place
    BY <1>0, <1>5, <2>p DEF Leave
  <2>2. /\ f \in FrameSet /\ f.path = frames[B].path /\ f.entry = frames[B].entry
        /\ f.next = frames[B].next + 1
    <3>1. frames[B] \in FrameSet
      BY <1>1, <2>0
    <3> QED BY <3>1 DEF FrameSet
  <2>3. /\ Len(frames') = B /\ frames' \in Seq(FrameSet)
        /\ \A l \in 1..B : frames'[l].path = frames[l].path /\ frames'[l].entry = frames[l].entry
        /\ \A l \in 1..(B - 1) : frames'[l] = frames[l]
        /\ frames'[B].next = frames[B].next + 1
    <3> DEFINE rest == SubSeq(frames, 1, B)
    <3>1. frames \in Seq(FrameSet)
      BY <1>0 DEF PkgTypeOK, FrameSet
    <3>2. /\ rest \in Seq(FrameSet) /\ Len(rest) = B
          /\ \A l \in 1..B : rest[l] = frames[l]
      BY <1>1, <2>0, <3>1
    <3>3. frames' = [rest EXCEPT ![B] = f]
      <4>1. B \in 1..B /\ rest[B] = frames[B]
        BY <2>0, <3>2
      <4>2. frames' = [rest EXCEPT ![B] = [rest[B] EXCEPT !.next = @ + 1]]
        BY <2>1
      <4> QED BY <4>1, <4>2
    <3> HIDE DEF rest, f
    <3>4. /\ Len(frames') = B /\ frames' \in Seq(FrameSet) /\ frames'[B] = f
          /\ \A l \in 1..B : l # B => frames'[l] = frames[l]
      BY <2>0, <2>2, <3>2, <3>3
    <3> QED BY <2>0, <2>2, <3>4
  <2> HIDE DEF f
  <2>4. PkgTypeOK'
    BY <1>0, <2>1, <2>3 DEF PkgTypeOK, FrameSet
  <2>5. StackIsAPath'
    <3>1. /\ frames' # <<>> /\ frames'[1].path = RootPath /\ frames'[1].entry = 0
      BY <1>0, <2>0, <2>3 DEF StackIsAPath
    <3>2. ASSUME NEW l \in 2..B
          PROVE  frames'[l].entry \in 1..Len(entries) /\ entries[frames'[l].entry].to = frames'[l].path
      <4>1. l \in 2..Depth /\ l \in 1..B
        BY <1>1, <2>0
      <4> QED BY <1>0, <2>3, <4>1 DEF StackIsAPath
    <3>3. ASSUME NEW l \in 1..(B - 1)
          PROVE  /\ frames'[l].next \in 1..Len(Deps(frames'[l].path))
                 /\ frames'[l].entry < frames'[l + 1].entry
                 /\ Records(entries[frames'[l + 1].entry], Deps(frames'[l].path)[frames'[l].next])
      <4>1. l + 1 \in 1..B /\ l \in 1..(Depth - 1)
        BY <1>1, <2>0
      <4>2. frames'[l] = frames[l] /\ frames'[l + 1].entry = frames[l + 1].entry
        BY <2>3, <4>1
      <4> QED BY <1>0, <4>1, <4>2 DEF StackIsAPath
    <3> QED BY <1>0, <1>2, <2>3, <3>1, <3>2, <3>3 DEF StackIsAPath, Depth
  <2>6. PassedAreListed'
    <3> SUFFICES ASSUME NEW l \in 1..B, NEW k \in 1..Len(Deps(frames[l].path)),
                        k < frames'[l].next
                 PROVE  Follows(frames[l].entry, frames[l].path, k)
      BY <1>2, <2>3 DEF PassedAreListed, Depth
    <3>0. l \in 1..Depth
      BY <1>1, <2>0
    <3>1. CASE k < frames[l].next
      BY <1>0, <3>0, <3>1 DEF PassedAreListed
    <3>2. CASE ~(k < frames[l].next)
      <4>1. l = B
        <5>1. l # B => l \in 1..(B - 1)
          BY <2>0
        <5> QED BY <2>3, <3>2, <5>1
      <4>2. k = frames[B].next
        <5>1. k \in Nat /\ frames[B].next \in Nat
          BY <1>1, <3>0
        <5>2. k < frames[B].next + 1 /\ ~(k < frames[B].next)
          BY <2>3, <3>2, <4>1
        <5> QED BY <5>1, <5>2
      <4>3. B \in 1..(Depth - 1) /\ B + 1 = Depth /\ Depth \in 2..Depth
        BY <1>1, <2>0
      <4>4. /\ frames[B].entry < frames[Depth].entry
            /\ Records(entries[frames[Depth].entry], Deps(frames[B].path)[frames[B].next])
            /\ frames[Depth].entry \in 1..Len(entries)
        BY <1>0, <4>3 DEF StackIsAPath
      <4>5. frames[Depth].entry \in (frames[B].entry + 1)..Len(entries)
        <5>1. frames[B].entry \in Nat
          BY <1>1, <2>0
        <5>2. Len(entries) \in Nat
          BY <1>1
        <5>3. frames[Depth].entry \in Nat /\ frames[Depth].entry <= Len(entries)
          BY <4>4, <5>2
        <5> QED BY <4>4, <5>1, <5>2, <5>3
      <4> QED BY <4>1, <4>2, <4>4, <4>5 DEF Follows
    <3> QED BY <3>1, <3>2
  <2>7. ListedOrOpen'
    <3> SUFFICES ASSUME NEW i \in 1..Len(entries), entries[i].to # NoPath
                 PROVE  \/ \A k \in 1..Len(Deps(entries[i].to)) : Follows(i, entries[i].to, k)
                        \/ \E l \in 1..B : frames'[l].entry = i
      BY <1>0, <1>2, <2>3 DEF ListedOrOpen, Depth
    <3>1. CASE \E l \in 1..Depth : frames[l].entry = i
      <4>1. PICK l \in 1..Depth : frames[l].entry = i
        BY <3>1
      <4>2. CASE l = Depth
        <5>0. Depth \in 2..Depth
          BY <1>1, <1>5
        <5>1. frames[Depth].path = entries[i].to
          BY <1>0, <4>1, <4>2, <5>0 DEF StackIsAPath
        <5> QED BY <1>3, <4>1, <4>2, <5>1
      <4>3. CASE l # Depth
        <5>1. l \in 1..B
          BY <1>1, <2>0, <4>1, <4>3
        <5> QED BY <2>3, <4>1, <5>1
      <4> QED BY <4>2, <4>3
    <3> QED BY <1>0, <3>1 DEF ListedOrOpen
  <2>8. WalkState' /\ WholeGraphListed'
    BY <1>0, <2>1, <2>5, <2>6, <2>7 DEF WalkState, InWalk, WholeGraphListed, Walked
  <2> QED BY <1>2, <2>4, <2>8 DEF PkgInv
<1> QED BY <1>4, <1>5

\* The package's manifest is read and pushed, or rejected.
LEMMA LoadKeepsInv ==
    ASSUME PkgInv, Load
    PROVE  PkgInv'
<1>1. CASE \E code \in {"read", "manifest"} : Fail(code)
  BY <1>1, FailKeepsInv
<1>2. CASE /\ Root.state = "ok" /\ place' = "walk" /\ frames' = <<Frame(RootPath, 0)>>
           /\ UNCHANGED <<disk, target, entries, lockfile, diag>>
  <2>1. /\ entries = <<>> /\ entries' = entries /\ disk' = disk /\ target' = target
        /\ lockfile' = lockfile /\ diag' = diag /\ PkgTypeOK
    BY <1>2 DEF PkgInv, WalkState, Load
  <2>2. /\ Frame(RootPath, 0) \in FrameSet /\ Frame(RootPath, 0).path = RootPath
        /\ Frame(RootPath, 0).next = 1 /\ Frame(RootPath, 0).entry = 0
    BY PackageAssumption DEF Frame, FrameSet
  <2>3. /\ Len(frames') = 1 /\ frames' \in Seq(FrameSet)
        /\ frames'[1] = Frame(RootPath, 0) /\ frames' # <<>>
    BY <1>2, <2>2
  <2>4. PkgTypeOK'
    BY <1>2, <2>1, <2>3 DEF PkgTypeOK, FrameSet
  <2>5. StackIsAPath' /\ PassedAreListed' /\ ListedOrOpen'
    BY <2>1, <2>2, <2>3 DEF StackIsAPath, PassedAreListed, ListedOrOpen, Depth
  <2>6. WalkState' /\ WholeGraphListed'
    BY <1>2, <2>5 DEF WalkState, InWalk, WholeGraphListed, Walked
  <2>7. FirstAgrees' /\ EntriesAreDeclared'
    BY <2>1, SameList DEF PkgInv
  <2> QED BY <2>4, <2>6, <2>7 DEF PkgInv
<1> QED BY <1>1, <1>2 DEF Load

\* A step that only takes frames away on an error, or only moves on after
\* the walk.
LEMMA RestKeepsInv ==
    ASSUME PkgInv, UNCHANGED <<disk, target, entries, diag>>,
           lockfile' \in {"none", "written", "lost"},
           \/ /\ diag # "none" /\ frames # <<>> /\ place' = place
              /\ frames' = SubSeq(frames, 1, Depth - 1)
           \/ /\ Walked /\ frames' = frames
              /\ place' \in {"lock", "source", "targets", "done"}
    PROVE  PkgInv'
<1>1. disk' = disk /\ target' = target /\ entries' = entries /\ diag' = diag /\ PkgTypeOK
  BY DEF PkgInv
<1>2. frames' \in Seq(FrameSet)
  <2>1. frames \in Seq(FrameSet)
    BY <1>1 DEF PkgTypeOK, FrameSet
  <2>2. CASE frames' = frames
    BY <2>1, <2>2
  <2>3. CASE frames # <<>> /\ frames' = SubSeq(frames, 1, Depth - 1)
    <3>1. Depth \in Nat \ {0} /\ Depth = Len(frames)
      BY <2>1, <2>3 DEF Depth
    <3> QED BY <2>1, <2>3, <3>1
  <2> QED BY <2>2, <2>3
<1>3. PkgTypeOK'
  BY <1>1, <1>2 DEF PkgTypeOK, FrameSet
<1>4. WalkState'
  BY <1>1 DEF PkgInv, WalkState, InWalk
<1>5. FirstAgrees' /\ EntriesAreDeclared' /\ \A p : Deps(p)' = Deps(p)
  BY <1>1, SameList DEF PkgInv
<1>6. Walked' => Walked
  BY DEF Walked
<1>7. WholeGraphListed'
  BY <1>1, <1>5, <1>6 DEF PkgInv, WholeGraphListed
<1> QED BY <1>3, <1>4, <1>5, <1>7 DEF PkgInv

\* Nothing is listed before the walk.
LEMMA InitKeepsInv ==
    ASSUME PkgInit
    PROVE  PkgInv
<1>1. /\ disk \in [Paths -> Manifest] /\ target \in Targets /\ place = "load"
      /\ frames = <<>> /\ entries = <<>> /\ lockfile = "none" /\ diag = "none"
  BY PackageAssumption DEF PkgInit
<1>2. PkgTypeOK
  BY <1>1 DEF PkgTypeOK
<1>3. WalkState /\ WholeGraphListed
  BY <1>1 DEF WalkState, InWalk, WholeGraphListed, Walked
<1>4. FirstAgrees /\ EntriesAreDeclared
  <2>1. 1..Len(entries) = {}
    BY <1>1
  <2> QED BY <2>1 DEF FirstAgrees, EntriesAreDeclared
<1> QED BY <1>2, <1>3, <1>4 DEF PkgInv

\* Every step of the walk keeps the invariant.
LEMMA StepKeepsInv ==
    ASSUME PkgInv, [PkgNext]_vars
    PROVE  PkgInv'
<1>1. CASE Load
  BY <1>1, LoadKeepsInv
<1>2. CASE RegistryReference
  BY <1>2, RegistryReferenceKeepsInv
<1>3. CASE ManifestMissing
  BY <1>3, FailKeepsInv DEF ManifestMissing
<1>4. CASE DependencyCycle
  BY <1>4, FailKeepsInv DEF DependencyCycle
<1>5. CASE ManifestUnusable
  BY <1>5, FailKeepsInv DEF ManifestUnusable
<1>6. CASE VersionsClash
  BY <1>6, FailKeepsInv DEF VersionsClash
<1>7. CASE Descend
  BY <1>7, DescendKeepsInv
<1>8. CASE Leave
  BY <1>8, LeaveKeepsInv
<1>9. CASE Unwind
  <2>1. lockfile' \in {"none", "written", "lost"}
    BY <1>9 DEF Unwind, PkgInv, PkgTypeOK
  <2> QED BY <1>9, <2>1, RestKeepsInv DEF Unwind
<1>10. CASE WriteLock
  <2>1. Walked
    BY <1>10 DEF WriteLock, Walked
  <2> QED BY <1>10, <2>1, RestKeepsInv DEF WriteLock
<1>11. CASE FindSource
  <2>1. CASE Fail("manifest")
    BY <2>1, FailKeepsInv
  <2>2. CASE ~Fail("manifest")
    <3>1. Walked /\ lockfile' \in {"none", "written", "lost"}
      BY <1>11, <2>2 DEF FindSource, Walked, PkgInv, PkgTypeOK
    <3> QED BY <1>11, <2>2, <3>1, RestKeepsInv DEF FindSource
  <2> QED BY <2>1, <2>2
<1>12. CASE CheckTargets
  <2>1. CASE Fail("PKG004")
    BY <2>1, FailKeepsInv
  <2>2. CASE ~Fail("PKG004")
    <3>1. Walked /\ lockfile' \in {"none", "written", "lost"}
      BY <1>12, <2>2 DEF CheckTargets, Walked, PkgInv, PkgTypeOK
    <3> QED BY <1>12, <2>2, <3>1, RestKeepsInv DEF CheckTargets
  <2> QED BY <2>1, <2>2
<1>13. CASE UNCHANGED vars
  <2>1. /\ disk' = disk /\ target' = target /\ place' = place /\ frames' = frames
        /\ entries' = entries /\ lockfile' = lockfile /\ diag' = diag
    BY <1>13 DEF vars
  <2>2. PkgTypeOK'
    BY <2>1 DEF PkgInv, PkgTypeOK
  <2>3. \A e, p, k : Follows(e, p, k)' = Follows(e, p, k)
    BY <2>1, SameList
  <2>4. FirstAgrees' /\ EntriesAreDeclared' /\ \A p : Deps(p)' = Deps(p)
    BY <2>1, SameList DEF PkgInv
  <2>5. WalkState'
    BY <2>1, <2>3, <2>4 DEF PkgInv, WalkState, InWalk, StackIsAPath,
                            PassedAreListed, ListedOrOpen, Depth
  <2>6. WholeGraphListed'
    BY <2>1, <2>4 DEF PkgInv, WholeGraphListed, Walked
  <2> QED BY <2>2, <2>4, <2>5, <2>6 DEF PkgInv
<1> QED BY <1>1, <1>2, <1>3, <1>4, <1>5, <1>6, <1>7, <1>8, <1>9, <1>10,
           <1>11, <1>12, <1>13 DEF PkgNext

\* The invariant holds in every state resolve_manifest_dependencies reaches.
THEOREM PkgIsInductive == PkgSpec => []PkgInv
<1>1. PkgInit => PkgInv
  BY InitKeepsInv
<1>2. PkgInv /\ [PkgNext]_vars => PkgInv'
  BY StepKeepsInv
<1> QED BY <1>1, <1>2, PTL DEF PkgSpec

\* Whatever the manifests, the walk's stack, list and diagnostic have their
\* types; every listed dependency has a name and every frame a manifest.
THEOREM PkgTypeCorrect == PkgSpec => []PkgTypeOK
<1>1. PkgInv => PkgTypeOK
  BY DEF PkgInv
<1> QED BY <1>1, PkgIsInductive, PTL

\* Agreement with the first entry of a name is agreement with each.
LEMMA FirstIsEnough ==
    ASSUME PkgInv
    PROVE  PathVersionsAgree
<1>0. FirstAgrees /\ entries \in Seq(EntryType)
  BY DEF PkgInv, PkgTypeOK
<1> SUFFICES ASSUME NEW i \in 1..Len(entries), entries[i].status = "path-resolved",
                    entries[i].resolved_name # EmptyName,
                    entries[i].resolved_version # NoVersion
             PROVE  /\ entries[i].resolved_name = Root.name
                       => entries[i].resolved_version = Root.version
                    /\ \A j \in 1..Len(entries) :
                          /\ entries[j].status = "path-resolved"
                          /\ entries[j].resolved_name = entries[i].resolved_name
                          /\ entries[j].resolved_version # NoVersion
                          => entries[j].resolved_version = entries[i].resolved_version
  BY DEF PathVersionsAgree
<1> DEFINE n == entries[i].resolved_name
<1>1. PICK v : v \in SeenVersion(n)
  <2>1. CASE Root.name = n
    BY <2>1 DEF SeenVersion
  <2>2. CASE Root.name # n
    <3>1. PICK k \in First(n) : TRUE
      BY <1>0, FirstExists
    <3> QED BY <2>2, <3>1 DEF SeenVersion
  <2> QED BY <2>1, <2>2
<1>2. ASSUME NEW j \in 1..Len(entries), entries[j].status = "path-resolved",
             entries[j].resolved_name = n, entries[j].resolved_version # NoVersion
      PROVE  v = entries[j].resolved_version
  BY <1>0, <1>1, <1>2 DEF FirstAgrees
<1>3. n = Root.name => v = Root.version
  BY <1>1 DEF SeenVersion, EmptyName
<1> QED BY <1>2, <1>3

\* No graph of path dependencies gets past the conflict check with two
\* versions of one name, although each entry is compared with one other only.
THEOREM VersionsOfPathsAgree == PkgSpec => []PathVersionsAgree
<1>1. PkgInv => PathVersionsAgree
  BY FirstIsEnough
<1> QED BY <1>1, PkgIsInductive, PTL

\* The list, and with it the lockfile, has only what a manifest declares:
\* the package's own for a direct dependency, that of an earlier entry else.
THEOREM EntriesComeFromManifests == PkgSpec => []EntriesAreDeclared
<1>1. PkgInv => EntriesAreDeclared
  BY DEF PkgInv
<1> QED BY <1>1, PkgIsInductive, PTL

\* When the walk is done every dependency of the graph is listed, after the
\* package that has it.
THEOREM WholeGraphIsListed == PkgSpec => []WholeGraphListed
<1>1. PkgInv => WholeGraphListed
  BY DEF PkgInv
<1> QED BY <1>1, PkgIsInductive, PTL

(***************************************************************************)
(* The graph.                                                              *)
(***************************************************************************)
\* The stack holds manifests of the graph.
StackInGraph == InWalk => \A l \in 1..Depth : frames[l].path \in Reachable

\* e is the entry for dependency d of the graph: a path dependency has the
\* name and version of the manifest it leads to.
EntryFor(e, d) ==
    /\ Records(e, d)
    /\ e.to = NoPath => e.resolved_name = d.name /\ e.resolved_version = d.version
    /\ e.to # NoPath =>
          /\ e.to \in Reachable
          /\ e.resolved_version = disk[e.to].version
          /\ e.resolved_name = IF disk[e.to].name = NoName THEN d.name ELSE disk[e.to].name

EntriesInGraph == \A i \in 1..Len(entries) : \E d \in GraphDeps : EntryFor(entries[i], d)

\* What DiagnosticsAreTrue says of the diagnostics.
DiagIsTrue ==
    /\ diag = "PKG001" => \E p \in Reachable : disk[p].state = "absent"
    /\ diag = "PKG002" => ~Acyclic
    /\ diag = "PKG003" =>
          \/ \E d \in GraphDeps : /\ d.to # NoPath
                                 /\ d.version # NoVersion
                                 /\ disk[d.to].version \notin {NoVersion, d.version}
          \/ \E n \in Names \ {EmptyName} : \E v, w \in VersionsOf(n) : v # w
    /\ diag = "PKG004" => \E d \in GraphDeps : d.targets # {} /\ target \notin d.targets

GraphInv == StackInGraph /\ EntriesInGraph /\ DiagIsTrue

\* The graph does not change while the disk does not.
LEMMA SameGraph ==
    ASSUME UNCHANGED disk
    PROVE  /\ \A p : Successors(p)' = Successors(p)
           /\ Reachable' = Reachable /\ GraphDeps' = GraphDeps
           /\ \A n : VersionsOf(n)' = VersionsOf(n)
           /\ Acyclic' = Acyclic
<1>1. \A p : Successors(p)' = Successors(p)
  BY DEF Successors, Deps
<1>2. Reachable' = Reachable
  <2>1. \A packages : Closed(packages)' = Closed(packages)
    BY <1>1 DEF Closed
  <2> QED BY <2>1 DEF Reachable
<1>3. GraphDeps' = GraphDeps
  BY <1>2 DEF GraphDeps, Deps
<1>4. \A n : VersionsOf(n)' = VersionsOf(n)
  BY <1>2, <1>3 DEF VersionsOf
<1>5. Acyclic' = Acyclic
  BY <1>1, <1>2 DEF Acyclic
<1> QED BY <1>1, <1>2, <1>3, <1>4, <1>5

\* The manifests of the graph are closed under dependencies, and within
\* every set of manifests that is.
LEMMA ReachableIsLeast ==
    ASSUME PkgTypeOK
    PROVE  /\ Reachable \subseteq Paths /\ RootPath \in Reachable
           /\ \A p \in Reachable : Successors(p) \subseteq Reachable
           /\ \A packages \in SUBSET Paths : Closed(packages) => Reachable \subseteq packages
<1>1. RootPath \in Reachable
  BY PackageAssumption DEF Reachable, Closed
<1>2. ASSUME NEW p \in Reachable, NEW q \in Successors(p) PROVE q \in Reachable
  <2>1. p \in Paths
    BY DEF Reachable
  <2>2. q \in Paths
    <3>1. PICK k \in 1..Len(Deps(p)) : q = Deps(p)[k].to /\ q # NoPath
      BY DEF Successors
    <3>2. Deps(p)[k] \in Dependency
      BY <2>1, Facts
    <3> QED BY <3>1, <3>2 DEF Dependency
  <2>3. ASSUME NEW packages \in SUBSET Paths, Closed(packages) PROVE q \in packages
    <3>1. p \in packages
      BY <2>3 DEF Reachable
    <3> QED BY <2>3, <3>1 DEF Closed
  <2> QED BY <2>2, <2>3 DEF Reachable
<1> QED BY <1>1, <1>2 DEF Reachable

\* When the walk is done the list has all manifests of the graph but the
\* package's own.
LEMMA AllListed ==
    ASSUME PkgInv, Walked, NEW p \in Reachable
    PROVE  p = RootPath \/ \E i \in 1..Len(entries) : entries[i].to = p
<1>0. PkgTypeOK /\ WholeGraphListed
  BY DEF PkgInv
<1> DEFINE T == {RootPath} \cup {q \in Paths : \E i \in 1..Len(entries) : entries[i].to = q}
<1>1. T \in SUBSET Paths
  BY PackageAssumption
<1>2. ASSUME NEW q \in T, NEW r \in Successors(q) PROVE r \in T
  <2>1. PICK k \in 1..Len(Deps(q)) : r = Deps(q)[k].to /\ r # NoPath
    BY DEF Successors
  <2>2. r \in Paths
    <3>1. Deps(q)[k] \in Dependency
      BY <1>0, <1>1, Facts
    <3> QED BY <2>1, <3>1 DEF Dependency
  <2>3. \E j \in 1..Len(entries) : Records(entries[j], Deps(q)[k])
    <3>1. CASE q = RootPath
      BY <1>0, <3>1 DEF WholeGraphListed
    <3>2. CASE q # RootPath
      <4>1. PICK i \in 1..Len(entries) : entries[i].to = q
        BY <3>2
      <4>2. q # NoPath
        BY <1>1, PackageAssumption
      <4>3. PICK j \in (i + 1)..Len(entries) : Records(entries[j], Deps(q)[k])
        BY <1>0, <4>1, <4>2 DEF WholeGraphListed
      <4>4. j \in 1..Len(entries)
        BY <4>1, <4>3
      <4> QED BY <4>3, <4>4
    <3> QED BY <3>1, <3>2
  <2> QED BY <2>1, <2>2, <2>3 DEF Records
<1>3. Closed(T)
  BY <1>2 DEF Closed
<1>4. Reachable \subseteq T
  BY <1>0, <1>1, <1>3, ReachableIsLeast
<1> QED BY <1>4

\* Every dependency of a listed package is listed after it, so of any of
\* the manifests the one listed last depends on none of them.
LEMMA WalkedIsAcyclic ==
    ASSUME PkgInv, Walked
    PROVE  Acyclic
<1>0. PkgTypeOK /\ WholeGraphListed /\ Len(entries) \in Nat /\ Reachable \subseteq Paths
  BY Facts DEF PkgInv, Reachable
<1> SUFFICES ASSUME NEW some \in SUBSET Reachable, NEW p0 \in some,
                    \A p \in some : \E q \in some : q \in Successors(p)
             PROVE  FALSE
  BY DEF Acyclic
<1> DEFINE n == Len(entries)
           at == {i \in 1..n : entries[i].to \in some}
           back == {n - i : i \in at}
<1>1. at # {}
  <2>1. CASE \E i \in 1..n : entries[i].to = p0
    BY <2>1
  <2>2. CASE p0 = RootPath
    <3>1. PICK q \in some : q \in Successors(RootPath)
      BY <2>2
    <3>2. PICK k \in 1..Len(Deps(RootPath)) : q = Deps(RootPath)[k].to
      BY <3>1 DEF Successors
    <3>3. PICK j \in 1..n : Records(entries[j], Deps(RootPath)[k])
      BY <1>0 DEF WholeGraphListed
    <3> QED BY <3>2, <3>3 DEF Records
  <2> QED BY <2>1, <2>2, AllListed
<1>2. back \in SUBSET Nat /\ back # {}
  BY <1>0, <1>1
<1>3. PICK m \in back : \A y \in back : m <= y
  BY <1>2, LeastNat
<1>4. PICK i \in at : m = n - i
  BY <1>3
<1>5. PICK q \in some : q \in Successors(entries[i].to)
  BY <1>4
<1>6. PICK k \in 1..Len(Deps(entries[i].to)) : q = Deps(entries[i].to)[k].to
  BY <1>5 DEF Successors
<1>7. entries[i].to # NoPath
  BY <1>0, <1>4, PackageAssumption
<1>8. PICK j \in (i + 1)..n : Records(entries[j], Deps(entries[i].to)[k])
  BY <1>0, <1>4, <1>6, <1>7 DEF WholeGraphListed
<1>9. j \in at
  <2>1. j \in 1..n
    BY <1>0, <1>4, <1>8
  <2> QED BY <1>5, <1>6, <1>8, <2>1 DEF Records
<1>10. m <= n - j
  BY <1>3, <1>9
<1> QED BY <1>0, <1>4, <1>8, <1>10

\* Each frame's manifest depends on the manifest of the next frame.
LEMMA StackFollowsDeps ==
    ASSUME PkgTypeOK, StackIsAPath, NEW l \in 1..(Depth - 1)
    PROVE  frames[l + 1].path \in Successors(frames[l].path)
<1>1. Depth \in Nat /\ \A i \in 1..Depth : frames[i].path \in Paths
  BY Facts
<1>2. l + 1 \in 2..Depth /\ l + 1 \in 1..Depth
  BY <1>1
<1>3. /\ frames[l].next \in 1..Len(Deps(frames[l].path))
      /\ Records(entries[frames[l + 1].entry], Deps(frames[l].path)[frames[l].next])
      /\ entries[frames[l + 1].entry].to = frames[l + 1].path
  BY <1>2 DEF StackIsAPath
<1>4. frames[l + 1].path # NoPath
  BY <1>1, <1>2, PackageAssumption
<1> QED BY <1>3, <1>4 DEF Records, Successors

\* The dependency the loop is at belongs to the graph, and so does the
\* manifest it leads to.
LEMMA DepInGraph ==
    ASSUME PkgInv, StackInGraph, AtDep
    PROVE  /\ Dep \in GraphDeps /\ Dep \in Dependency
           /\ Dep.to # NoPath => /\ Dep.to \in Successors(Top.path)
                                 /\ Dep.to \in Reachable /\ Dep.to \in Paths
<1>0. PkgTypeOK /\ InWalk
  BY DEF PkgInv, AtDep, InWalk
<1>1. /\ Depth \in 1..Depth /\ Top = frames[Depth] /\ Top.path \in Paths
      /\ Top.next \in 1..Len(Deps(Top.path))
      /\ Dep = Deps(Top.path)[Top.next] /\ Dep \in Dependency
  BY <1>0, DepFacts
<1>2. Top.path \in Reachable
  BY <1>0, <1>1 DEF StackInGraph
<1>3. Dep \in GraphDeps
  BY <1>1, <1>2 DEF GraphDeps
<1>4. Dep.to # NoPath => Dep.to \in Successors(Top.path)
  BY <1>1 DEF Successors
<1> QED BY <1>0, <1>1, <1>2, <1>3, <1>4, ReachableIsLeast

\* A manifest on the stack that the dependency at hand leads to closes a
\* cycle of the graph.
LEMMA CycleIsTrue ==
    ASSUME PkgInv, StackInGraph, AtDep, Dep.to # NoPath, OnStack(Dep.to)
    PROVE  ~Acyclic
<1>0. PkgTypeOK /\ InWalk /\ StackIsAPath
  BY DEF PkgInv, AtDep, InWalk, WalkState
<1>1. Depth \in Nat /\ Depth \in 1..Depth /\ Top = frames[Depth]
  BY <1>0, Facts DEF AtDep, Top
<1>2. PICK k \in 1..Depth : frames[k].path = Dep.to
  BY DEF OnStack
<1> DEFINE some == {frames[l].path : l \in k..Depth}
<1>3. some \subseteq Reachable /\ some # {}
  <2>1. k \in k..Depth /\ \A l \in k..Depth : l \in 1..Depth
    BY <1>1
  <2> QED BY <1>0, <2>1 DEF StackInGraph
<1>4. ASSUME NEW p \in some PROVE Successors(p) \cap some # {}
  <2>1. PICK l \in k..Depth : p = frames[l].path
    BY <1>4
  <2>2. CASE l = Depth
    <3>1. Dep.to \in Successors(p)
      BY <1>1, <2>1, <2>2, DepInGraph
    <3>2. Dep.to \in some
      BY <1>1, <1>2
    <3> QED BY <3>1, <3>2
  <2>3. CASE l # Depth
    <3>1. l \in 1..(Depth - 1) /\ l + 1 \in k..Depth
      BY <1>1, <2>3
    <3>2. frames[l + 1].path \in Successors(p)
      BY <1>0, <2>1, <3>1, StackFollowsDeps
    <3> QED BY <3>1, <3>2
  <2> QED BY <2>2, <2>3
<1> HIDE DEF some
<1> QED BY <1>3, <1>4 DEF Acyclic

\* A conflict with the version that a name was seen with is a conflict of
\* two versions that the graph has under that name.
LEMMA ConflictIsTrue ==
    ASSUME PkgInv, StackInGraph, EntriesInGraph, AtDep, Dep.to # NoPath, Conflict
    PROVE  \E n \in Names \ {EmptyName} : \E v, w \in VersionsOf(n) : v # w
<1>0. PkgTypeOK
  BY DEF PkgInv
<1> DEFINE n == ResolvedName
<1>1. PICK v \in SeenVersion(n) : v # ResolvedVersion
  BY DEF Conflict
<1>2. Dep \in GraphDeps /\ Dep \in Dependency /\ Dep.to \in Reachable /\ Dep.to \in Paths
  BY DepInGraph
<1>3. n \in Names \ {EmptyName}
  <2>1. n # EmptyName
    BY <1>1 DEF SeenVersion
  <2>2. Dep.name \in Names /\ disk[Dep.to].name \in Names \cup {NoName}
    BY <1>0, <1>2, Facts DEF Dependency, Manifest
  <2> QED BY <2>1, <2>2 DEF ResolvedName
<1>4. ResolvedVersion \in VersionsOf(n)
  <2>1. disk[Dep.to].name = n \/ (disk[Dep.to].name = NoName /\ Dep.name = n)
    BY DEF ResolvedName
  <2> QED BY <1>2, <2>1 DEF VersionsOf, ResolvedVersion
<1> HIDE DEF n
<1>5. v \in VersionsOf(n)
  <2>1. CASE Root.name = n
    <3>1. v = Root.version
      BY <1>1, <2>1 DEF SeenVersion
    <3>2. RootPath \in Reachable
      BY <1>0, ReachableIsLeast
    <3> QED BY <2>1, <3>1, <3>2 DEF VersionsOf, Root
  <2>2. CASE Root.name # n
    <3>1. PICK i \in 1..Len(entries) : /\ entries[i].resolved_name = n
                                       /\ v = entries[i].resolved_version
      BY <1>1, <2>2 DEF SeenVersion, First
    <3>2. PICK d \in GraphDeps : EntryFor(entries[i], d)
      BY DEF EntriesInGraph
    <3>3. CASE entries[i].to = NoPath
      BY <3>1, <3>2, <3>3 DEF EntryFor, Records, VersionsOf
    <3>4. CASE entries[i].to # NoPath
      <4> DEFINE q == entries[i].to
      <4>1. q \in Reachable /\ v = disk[q].version /\ d.to = q
        BY <3>1, <3>2, <3>4 DEF EntryFor, Records
      <4>2. disk[q].name = n \/ (disk[q].name = NoName /\ d.name = n)
        BY <3>1, <3>2, <3>4 DEF EntryFor
      <4> QED BY <3>2, <4>1, <4>2 DEF VersionsOf
    <3> QED BY <3>3, <3>4
  <2> QED BY <2>1, <2>2
<1> QED BY <1>1, <1>3, <1>4, <1>5

\* An entry for a dependency of the graph joins the list.
LEMMA EntryJoins ==
    ASSUME PkgInv, EntriesInGraph, NEW e \in EntryType, NEW d \in GraphDeps,
           EntryFor(e, d), entries' = Append(entries, e), disk' = disk
    PROVE  EntriesInGraph'
<1>1. /\ Len(entries') = Len(entries) + 1 /\ Len(entries) \in Nat
      /\ \A i \in 1..Len(entries) : entries'[i] = entries[i]
      /\ entries'[Len(entries) + 1] = e
  BY AddEntry, Facts DEF PkgInv
<1>2. Reachable' = Reachable /\ GraphDeps' = GraphDeps
  BY SameGraph
<1>3. \A x, y : EntryFor(x, y)' = EntryFor(x, y)
  BY <1>2 DEF EntryFor, Records
<1>4. ASSUME NEW i \in 1..(Len(entries) + 1)
      PROVE  \E y \in GraphDeps : EntryFor(entries'[i], y)
  <2>1. CASE i = Len(entries) + 1
    BY <1>1, <2>1
  <2>2. CASE i # Len(entries) + 1
    <3>1. i \in 1..Len(entries)
      BY <1>1, <2>2
    <3> QED BY <1>1, <3>1 DEF EntriesInGraph
  <2> QED BY <2>1, <2>2
<1>5. \A i \in 1..Len(entries') : \E y \in GraphDeps' : EntryFor(entries'[i], y)
  BY <1>1, <1>2, <1>4
<1> QED BY <1>2, <1>5 DEF EntriesInGraph, EntryFor, Records

\* An error ends the walk; the list and the graph stay as they are.
LEMMA FailInGraph ==
    ASSUME GraphInv, NEW code, Fail(code), code # "none",
           code = "PKG001" => \E p \in Reachable : disk[p].state = "absent",
           code = "PKG002" => ~Acyclic,
           code = "PKG003" =>
              \/ \E d \in GraphDeps : /\ d.to # NoPath
                                     /\ d.version # NoVersion
                                     /\ disk[d.to].version \notin {NoVersion, d.version}
              \/ \E n \in Names \ {EmptyName} : \E v, w \in VersionsOf(n) : v # w,
           code = "PKG004" => \E d \in GraphDeps : d.targets # {} /\ target \notin d.targets
    PROVE  GraphInv'
<1>1. diag' = code /\ disk' = disk /\ target' = target /\ entries' = entries
  BY DEF Fail
<1>2. /\ Reachable' = Reachable /\ GraphDeps' = GraphDeps /\ Acyclic' = Acyclic
      /\ \A n : VersionsOf(n)' = VersionsOf(n)
  BY <1>1, SameGraph
<1>3. StackInGraph'
  BY <1>1 DEF StackInGraph, InWalk
<1>4. EntriesInGraph'
  BY <1>1, <1>2 DEF GraphInv, EntriesInGraph, EntryFor, Records
<1>5. DiagIsTrue'
  BY <1>1, <1>2 DEF DiagIsTrue
<1> QED BY <1>3, <1>4, <1>5 DEF GraphInv

\* A step that records nothing and reports nothing.
LEMMA QuietInGraph ==
    ASSUME GraphInv, UNCHANGED <<disk, target, entries, diag>>, StackInGraph'
    PROVE  GraphInv'
<1>1. diag' = diag /\ disk' = disk /\ target' = target /\ entries' = entries
  OBVIOUS
<1>2. /\ Reachable' = Reachable /\ GraphDeps' = GraphDeps /\ Acyclic' = Acyclic
      /\ \A n : VersionsOf(n)' = VersionsOf(n)
  BY <1>1, SameGraph
<1>3. EntriesInGraph'
  BY <1>1, <1>2 DEF GraphInv, EntriesInGraph, EntryFor, Records
<1>4. DiagIsTrue'
  BY <1>1, <1>2 DEF GraphInv, DiagIsTrue
<1> QED BY <1>3, <1>4 DEF GraphInv

\* A dependency is recorded; the stack still holds manifests of the graph.
LEMMA RecordInGraph ==
    ASSUME PkgInv, GraphInv, RegistryReference \/ Descend
    PROVE  GraphInv'
<1>0. /\ PkgTypeOK /\ StackInGraph /\ EntriesInGraph /\ AtDep /\ InWalk
      /\ disk' = disk /\ target' = target /\ diag' = diag
  BY DEF PkgInv, GraphInv, RegistryReference, Descend, NewManifest, AtDep, InWalk
<1>1. /\ Dep \in GraphDeps /\ Dep \in Dependency
      /\ Dep.to # NoPath => Dep.to \in Reachable /\ Dep.to \in Paths
  BY <1>0, DepInGraph
<1>2. /\ Depth \in Nat /\ Depth \in 1..Depth /\ Depth = Len(frames)
      /\ frames \in Seq(FrameSet) /\ \A l \in 1..Depth : frames[l] \in FrameSet
      /\ \A l \in 1..Depth : frames[l].path \in Reachable
  BY <1>0, Facts DEF AtDep, StackInGraph, Depth, PkgTypeOK, FrameSet
<1>3. Reachable' = Reachable /\ GraphDeps' = GraphDeps /\ Acyclic' = Acyclic
      /\ \A n : VersionsOf(n)' = VersionsOf(n)
  BY <1>0, SameGraph
<1>4. DiagIsTrue'
  BY <1>0, <1>3 DEF GraphInv, DiagIsTrue
<1>5. CASE RegistryReference
  <2> DEFINE e == Entry(Dep, Dep.name, Dep.version, "registry-reference")
  <2>1. entries' = Append(entries, e) /\ Dep.to = NoPath /\ NextDep
    BY <1>5 DEF RegistryReference
  <2>2. e \in EntryType /\ EntryFor(e, Dep)
    BY <1>1, <2>1 DEF Entry, EntryType, Dependency, EntryFor, Records
  <2> HIDE DEF e
  <2>3. EntriesInGraph'
    BY <1>0, <1>1, <2>1, <2>2, EntryJoins
  <2>4. Len(frames') = Depth /\ \A l \in 1..Depth : frames'[l].path = frames[l].path
    <3> DEFINE f == [frames[Depth] EXCEPT !.next = @ + 1]
    <3>1. frames[Depth] \in FrameSet
      BY <1>2
    <3>2. f.path = frames[Depth].path
      BY <3>1 DEF FrameSet
    <3>3. frames' = [frames EXCEPT ![Depth] = f]
      BY <2>1 DEF NextDep
    <3> HIDE DEF f
    <3> QED BY <1>2, <3>2, <3>3
  <2>5. StackInGraph'
    BY <1>2, <1>3, <2>4 DEF StackInGraph, Depth
  <2> QED BY <1>4, <2>3, <2>5 DEF GraphInv
<1>6. CASE Descend
  <2> DEFINE e == Entry(Dep, ResolvedName, ResolvedVersion, "path-resolved")
             f == Frame(Dep.to, Len(entries) + 1)
  <2>1. entries' = Append(entries, e) /\ Dep.to # NoPath /\ frames' = Append(frames, f)
    BY <1>6 DEF Descend, NewManifest
  <2>2. e \in EntryType /\ EntryFor(e, Dep)
    <3>1. disk[Dep.to].name \in Names \cup {NoName} /\ disk[Dep.to].version \in AnyVersion
      BY <1>0, <1>1, <2>1, Facts DEF Manifest
    <3>2. Dep.name \in Names
      BY <1>1 DEF Dependency
    <3>3. ResolvedName \in Names /\ ResolvedVersion \in AnyVersion
      BY <3>1, <3>2 DEF ResolvedName, ResolvedVersion
    <3>4. e \in EntryType
      BY <1>1, <3>3 DEF Entry, EntryType, Dependency
    <3>5. /\ e.name = Dep.name /\ e.version = Dep.version /\ e.to = Dep.to
          /\ e.targets = Dep.targets /\ e.resolved_name = ResolvedName
          /\ e.resolved_version = ResolvedVersion
      BY DEF Entry
    <3> HIDE DEF e
    <3>6. EntryFor(e, Dep)
      BY <1>1, <2>1, <3>5 DEF EntryFor, Records, ResolvedName, ResolvedVersion
    <3> QED BY <3>4, <3>6
  <2> HIDE DEF e
  <2>3. EntriesInGraph'
    BY <1>0, <1>1, <2>1, <2>2, EntryJoins
  <2>4. /\ Len(frames') = Depth + 1 /\ frames'[Depth + 1].path = Dep.to
        /\ \A l \in 1..Depth : frames'[l] = frames[l]
    <3>1. f.path = Dep.to
      BY DEF Frame
    <3> HIDE DEF f
    <3> QED BY <1>2, <2>1, <3>1
  <2>5. \A l \in 1..(Depth + 1) : frames'[l].path \in Reachable
    <3>1. \A l \in 1..(Depth + 1) : l = Depth + 1 \/ l \in 1..Depth
      BY <1>2
    <3> QED BY <1>1, <1>2, <2>1, <2>4, <3>1
  <2>6. StackInGraph'
    BY <1>3, <2>4, <2>5 DEF StackInGraph, Depth
  <2> QED BY <1>4, <2>3, <2>6 DEF GraphInv
<1> QED BY <1>5, <1>6

\* A frame is left because its dependencies are resolved.
LEMMA LeaveInGraph ==
    ASSUME PkgInv, GraphInv, Leave
    PROVE  GraphInv'
<1>0. /\ PkgTypeOK /\ StackInGraph /\ InWalk /\ frames # <<>>
      /\ UNCHANGED <<disk, target, entries, diag>>
  BY DEF PkgInv, GraphInv, Leave, InWalk
<1>1. /\ Depth \in Nat /\ Depth \in 1..Depth /\ Depth = Len(frames)
      /\ frames \in Seq(FrameSet) /\ \A l \in 1..Depth : frames[l].path \in Reachable
  BY <1>0, Facts DEF StackInGraph, Depth, PkgTypeOK, FrameSet
<1>2. CASE Depth = 1
  <2>1. StackInGraph'
    BY <1>2 DEF Leave, StackInGraph, InWalk
  <2> QED BY <1>0, <2>1, QuietInGraph
<1>3. CASE Depth # 1
  <2> DEFINE rest == SubSeq(frames, 1, Depth - 1)
             f == [rest[Depth - 1] EXCEPT !.next = @ + 1]
  <2>1. /\ rest \in Seq(FrameSet) /\ Len(rest) = Depth - 1 /\ Depth - 1 \in 1..(Depth - 1)
        /\ \A l \in 1..(Depth - 1) : rest[l] = frames[l] /\ l \in 1..Depth
    <3>1. Depth - 1 \in 0..Depth /\ Depth - 1 \in 1..(Depth - 1)
      BY <1>1, <1>3
    <3> QED BY <1>1, <3>1
  <2>2. rest[Depth - 1] \in FrameSet
    BY <2>1
  <2>3. frames' = [rest EXCEPT ![Depth - 1] = f] /\ f.path = rest[Depth - 1].path
    BY <1>3, <2>2 DEF Leave, FrameSet
  <2> HIDE DEF rest, f
  <2>4. Len(frames') = Depth - 1 /\ \A l \in 1..(Depth - 1) : frames'[l].path = rest[l].path
    BY <1>1, <2>1, <2>3
  <2>5. \A l \in 1..(Depth - 1) : frames'[l].path \in Reachable
    BY <1>1, <2>1, <2>4
  <2>6. Reachable' = Reachable
    BY <1>0, SameGraph
  <2>7. StackInGraph'
    BY <2>4, <2>5, <2>6 DEF StackInGraph, Depth
  <2> QED BY <1>0, <2>7, QuietInGraph
<1> QED BY <1>2, <1>3

\* Every step of the walk keeps the stack and the list within the graph, and
\* its diagnostic true of the graph.
LEMMA StepInGraph ==
    ASSUME PkgInv, GraphInv, [PkgNext]_vars
    PROVE  GraphInv'
<1>0. PkgTypeOK /\ StackInGraph /\ EntriesInGraph
  BY DEF PkgInv, GraphInv
<1>1. CASE Load
  <2>1. CASE \E code \in {"read", "manifest"} : Fail(code)
    BY <2>1, FailInGraph
  <2>2. CASE /\ frames' = <<Frame(RootPath, 0)>>
             /\ UNCHANGED <<disk, target, entries, diag>>
    <3>1. Len(frames') = 1 /\ frames'[1].path = RootPath
      BY <2>2 DEF Frame
    <3>2. RootPath \in Reachable /\ Reachable' = Reachable
      BY <1>0, <2>2, ReachableIsLeast, SameGraph
    <3>3. StackInGraph'
      BY <3>1, <3>2 DEF StackInGraph, Depth
    <3> QED BY <2>2, <3>3, QuietInGraph
  <2> QED BY <1>1, <2>1, <2>2 DEF Load
<1>2. CASE RegistryReference \/ Descend
  BY <1>2, RecordInGraph
<1>3. CASE ManifestMissing
  <2>1. AtDep /\ Dep.to # NoPath /\ disk[Dep.to].state = "absent" /\ Fail("PKG001")
    BY <1>3 DEF ManifestMissing
  <2>2. Dep.to \in Reachable
    BY <1>0, <2>1, DepInGraph
  <2> QED BY <2>1, <2>2, FailInGraph
<1>4. CASE DependencyCycle
  <2>1. AtDep /\ Dep.to # NoPath /\ OnStack(Dep.to) /\ Fail("PKG002")
    BY <1>4 DEF DependencyCycle
  <2>2. ~Acyclic
    BY <1>0, <2>1, CycleIsTrue
  <2> QED BY <2>1, <2>2, FailInGraph
<1>5. CASE ManifestUnusable
  BY <1>5, FailInGraph DEF ManifestUnusable
<1>6. CASE VersionsClash
  <2>1. AtDep /\ Dep.to # NoPath /\ Fail("PKG003")
    BY <1>6 DEF VersionsClash, NewManifest
  <2>2. CASE Mismatch
    <3>1. Dep \in GraphDeps
      BY <1>0, <2>1, DepInGraph
    <3>2. \E d \in GraphDeps : /\ d.to # NoPath
                              /\ d.version # NoVersion
                              /\ disk[d.to].version \notin {NoVersion, d.version}
      BY <2>1, <2>2, <3>1 DEF Mismatch, ResolvedVersion
    <3> QED BY <2>1, <3>2, FailInGraph
  <2>3. CASE Conflict
    <3>1. \E n \in Names \ {EmptyName} : \E v, w \in VersionsOf(n) : v # w
      BY <1>0, <2>1, <2>3, ConflictIsTrue
    <3> QED BY <2>1, <3>1, FailInGraph
  <2> QED BY <1>6, <2>2, <2>3 DEF VersionsClash
<1>7. CASE Leave
  BY <1>7, LeaveInGraph
<1>8. CASE Unwind
  <2>1. UNCHANGED <<disk, target, entries, diag>> /\ StackInGraph'
    BY <1>8 DEF Unwind, StackInGraph, InWalk
  <2> QED BY <2>1, QuietInGraph
<1>9. CASE WriteLock
  <2>1. UNCHANGED <<disk, target, entries, diag>> /\ StackInGraph'
    BY <1>9 DEF WriteLock, StackInGraph, InWalk
  <2> QED BY <2>1, QuietInGraph
<1>10. CASE FindSource
  <2>1. CASE Fail("manifest")
    BY <2>1, FailInGraph
  <2>2. CASE ~Fail("manifest")
    <3>1. UNCHANGED <<disk, target, entries, diag>> /\ StackInGraph'
      BY <1>10, <2>2 DEF FindSource, StackInGraph, InWalk
    <3> QED BY <3>1, QuietInGraph
  <2> QED BY <2>1, <2>2
<1>11. CASE CheckTargets
  <2>1. CASE \A i \in 1..Len(entries) : TargetCompatible(entries[i])
    <3>1. UNCHANGED <<disk, target, entries, diag>> /\ StackInGraph'
      BY <1>11, <2>1 DEF CheckTargets, StackInGraph, InWalk
    <3> QED BY <3>1, QuietInGraph
  <2>2. CASE ~\A i \in 1..Len(entries) : TargetCompatible(entries[i])
    <3>1. Fail("PKG004")
      BY <1>11, <2>2 DEF CheckTargets
    <3>2. PICK i \in 1..Len(entries) : ~TargetCompatible(entries[i])
      BY <2>2
    <3>3. PICK d \in GraphDeps : EntryFor(entries[i], d)
      BY <1>0 DEF EntriesInGraph
    <3>4. d.targets # {} /\ target \notin d.targets
      BY <3>2, <3>3 DEF TargetCompatible, EntryFor, Records
    <3> QED BY <3>1, <3>4, FailInGraph
  <2> QED BY <2>1, <2>2
<1>12. CASE UNCHANGED vars
  <2>1. UNCHANGED <<disk, target, entries, diag>> /\ frames' = frames /\ place' = place
    BY <1>12 DEF vars
  <2>2. Reachable' = Reachable
    BY <2>1, SameGraph
  <2>3. StackInGraph'
    BY <1>0, <2>1, <2>2 DEF StackInGraph, InWalk, Depth
  <2> QED BY <2>1, <2>3, QuietInGraph
<1> QED BY <1>1, <1>2, <1>3, <1>4, <1>5, <1>6, <1>7, <1>8, <1>9, <1>10,
           <1>11, <1>12 DEF PkgNext

\* Whatever the manifests: the walk gets through an acyclic graph only, and
\* a package diagnostic has its cause in the graph, PKG001 to PKG003 in
\* resolve_manifest_dependencies and PKG004 in the target check.
THEOREM DiagnosticsHaveCauses == PkgSpec => []DiagnosticsAreTrue
<1>1. PkgInit => GraphInv
  <2> SUFFICES ASSUME PkgInit PROVE GraphInv
    OBVIOUS
  <2>1. place = "load" /\ entries = <<>> /\ diag = "none"
    BY DEF PkgInit
  <2> QED BY <2>1 DEF GraphInv, StackInGraph, InWalk, EntriesInGraph, DiagIsTrue
<1>2. PkgInv /\ GraphInv /\ [PkgNext]_vars => GraphInv'
  BY StepInGraph
<1>3. PkgInv /\ GraphInv => DiagnosticsAreTrue
  BY WalkedIsAcyclic DEF GraphInv, DiagIsTrue, DiagnosticsAreTrue
<1> QED BY <1>1, <1>2, <1>3, PkgIsInductive, PTL DEF PkgSpec
=============================================================================
