------------------------- MODULE ModuleResolveProofs -------------------------
(***************************************************************************)
(* Proofs about ModuleResolve: the walk lists every file once, after the   *)
(* files it imports, and so implements ImportOrder; its cycle diagnostics  *)
(* name cycles, and it succeeds for the resolvable programs and no others. *)
(***************************************************************************)
EXTENDS ModuleResolve, SeqLemmas, TLAPS

\* An import leads to a path, or nowhere.
LEMMA LocateType ==
    ASSUME NEW p \in Paths, NEW n \in Names
    PROVE  Locate(p, n) \in Paths \cup {NoPath}
<1> DEFINE c == Candidates[ResolveRoot(p, n)][n]
           Exists(q) == disk[q].state # "absent"
           K == {i \in 1..Len(c) : Exists(c[i])}
           k == IF K # {} THEN Min(K) ELSE 0
<1>1. ResolveRoot(p, n) \in Roots
  BY ResolveAssumption DEF ResolveRoot, Roots
<1>2. c \in Seq({q \in Paths : RootOf[q] = ResolveRoot(p, n)})
  BY <1>1, ResolveAssumption
<1>3. Locate(p, n) = IF k = 0 THEN NoPath ELSE c[k]
  BY DEF Locate, SelectInSeq
<1>4. k = 0 \/ k \in 1..Len(c)
  <2>1. CASE K = {} BY <2>1
  <2>2. CASE K # {}
    <3>1. K \in SUBSET Nat OBVIOUS
    <3>2. Min(K) \in K BY <2>2, <3>1, MinOfNats
    <3> QED BY <2>2, <3>2
  <2> QED BY <2>1, <2>2
<1> HIDE DEF c, k
<1> QED BY <1>2, <1>3, <1>4

-----------------------------------------------------------------------------
\* The types the invariant needs.
FrameSet == [path : Paths, next : Nat \ {0}]

WalkTypes ==
    /\ disk \in [Paths -> File] /\ stdlib \in BOOLEAN
    /\ frames \in Seq(FrameSet)
    /\ source_files \in Seq(Paths)

Listed(p) == \E i \in 1..Len(source_files) : source_files[i] = p

\* The import that frame f is at, and those it has passed.
ImportAt(f, j) == Locate(f.path, Uses(f.path)[j].name)

\* Each frame resolves the import the frame below it is at.
StackIsAPath ==
    \A i \in 1..(Len(frames) - 1) :
        /\ frames[i].next \in 1..Len(Uses(frames[i].path))
        /\ frames[i + 1].path = ImportAt(frames[i], frames[i].next)

\* The imports a frame has passed are listed, or have no source file.
PassedAreListed ==
    \A i \in 1..Len(frames) :
        \A j \in 1..Len(Uses(frames[i].path)) :
            j < frames[i].next => ImportAt(frames[i], j) = NoPath \/ Listed(ImportAt(frames[i], j))

\* Nothing is listed twice, is on the stack twice, or both.
NothingTwice ==
    /\ \A i, j \in 1..Len(source_files) : i # j => source_files[i] # source_files[j]
    /\ \A i, j \in 1..Len(frames) : i # j => frames[i].path # frames[j].path
    /\ \A i \in 1..Len(frames) : ~Listed(frames[i].path)

\* Nothing moves once the result is there.
EndsEmpty == result # "none" => frames = <<>>

WalkInv == /\ WalkTypes /\ StackIsAPath /\ PassedAreListed
           /\ NothingTwice /\ DependenciesFirst /\ EndsEmpty

\* It holds before the walk starts: nothing is listed or on the stack.
LEMMA InitWalk == ResolveInit => WalkInv
<1> SUFFICES ASSUME ResolveInit PROVE WalkInv
  OBVIOUS
<1>1. /\ frames = <<>> /\ source_files = <<>> /\ result = "none"
      /\ disk \in [Paths -> File] /\ stdlib \in BOOLEAN
  BY ResolveAssumption DEF ResolveInit
<1> QED BY <1>1 DEF WalkInv, WalkTypes, StackIsAPath, PassedAreListed,
        NothingTwice, DependenciesFirst, EndsEmpty

\* What the types say of the stack.
LEMMA FrameFacts ==
    ASSUME WalkTypes
    PROVE  /\ Depth \in Nat /\ Len(source_files) \in Nat
           /\ \A i \in 1..Depth : /\ frames[i] \in FrameSet
                                  /\ frames[i].path \in Paths
                                  /\ frames[i].next \in Nat \ {0}
           /\ \A p \in Paths : Uses(p) \in Seq(Use) /\ Len(Uses(p)) \in Nat
           /\ \A p \in Paths : \A j \in 1..Len(Uses(p)) : Uses(p)[j].name \in Names
           /\ frames # <<>> => Depth \in 1..Depth
<1>1. frames \in Seq(FrameSet) /\ source_files \in Seq(Paths) /\ disk \in [Paths -> File]
  BY DEF WalkTypes
<1>2. \A f \in FrameSet : f.path \in Paths /\ f.next \in Nat \ {0}
  BY DEF FrameSet
<1>3. \A p \in Paths : Uses(p) \in Seq(Use)
  <2>1. \A p \in Paths : disk[p] \in File
    BY <1>1
  <2> QED BY <2>1 DEF Uses, File
<1>4. \A u \in Use : u.name \in Names
  BY DEF Use
<1>5. /\ Depth \in Nat /\ Len(source_files) \in Nat
      /\ \A i \in 1..Depth : frames[i] \in FrameSet
      /\ frames # <<>> => Depth \in 1..Depth
  BY <1>1 DEF Depth
<1>6. \A p \in Paths : /\ Len(Uses(p)) \in Nat
                       /\ \A j \in 1..Len(Uses(p)) : Uses(p)[j] \in Use
  BY <1>3
<1> QED BY <1>2, <1>3, <1>4, <1>5, <1>6

\* Where imports lead, and what is listed, does not change while the disk
\* and the list do not.
LEMMA SameDisk ==
    ASSUME UNCHANGED <<disk, stdlib>>
    PROVE  /\ \A p : Uses(p)' = Uses(p)
           /\ \A p, n : Locate(p, n)' = Locate(p, n)
<1>1. disk' = disk /\ stdlib' = stdlib
  OBVIOUS
<1>2. \A p : Uses(p)' = Uses(p)
  BY <1>1 DEF Uses
<1>3. \A p, n : ResolveRoot(p, n)' = ResolveRoot(p, n)
  BY <1>1 DEF ResolveRoot
<1>4. ASSUME NEW p, NEW n PROVE Locate(p, n)' = Locate(p, n)
  BY <1>1, <1>3 DEF Locate, SelectInSeq
<1> QED BY <1>2, <1>4

\* The parts of the invariant that speak of the list alone.
LEMMA SameList ==
    ASSUME WalkInv, UNCHANGED <<disk, stdlib, source_files>>
    PROVE  /\ \A p : Listed(p)' = Listed(p)
           /\ \A i, j \in 1..Len(source_files') : i # j => source_files'[i] # source_files'[j]
           /\ DependenciesFirst'
<1>1. source_files' = source_files
  OBVIOUS
<1>2. /\ \A p : Uses(p)' = Uses(p)
      /\ \A p, n : Locate(p, n)' = Locate(p, n)
  BY SameDisk
<1>3. \A p : Listed(p)' = Listed(p)
  BY <1>1 DEF Listed
<1>4. \A p : ImportsOf(p)' = ImportsOf(p)
  BY <1>2 DEF ImportsOf
<1>5. DependenciesFirst'
  BY <1>1, <1>4 DEF WalkInv, DependenciesFirst
<1> QED BY <1>1, <1>3, <1>5 DEF WalkInv, NothingTwice

\* The top frame goes on to its next `use`.
LEMMA AdvanceShape ==
    ASSUME WalkTypes, frames # <<>>, NextUse
    PROVE  /\ Len(frames') = Depth /\ frames' \in Seq(FrameSet)
           /\ \A i \in 1..Depth : frames'[i].path = frames[i].path
           /\ \A i \in 1..(Depth - 1) : frames'[i] = frames[i]
           /\ frames'[Depth].next = frames[Depth].next + 1
<1>1. Depth \in 1..Depth /\ Depth \in Nat /\ Depth = Len(frames)
  BY FrameFacts DEF Depth
<1> DEFINE f == [frames[Depth] EXCEPT !.next = @ + 1]
<1>2. frames[Depth] \in FrameSet
  BY <1>1, FrameFacts
<1>3. f \in FrameSet /\ f.path = frames[Depth].path /\ f.next = frames[Depth].next + 1
  BY <1>2 DEF FrameSet
<1>4. frames' = [frames EXCEPT ![Depth] = f]
  BY DEF NextUse
<1>5. frames \in Seq(FrameSet)
  BY DEF WalkTypes
<1> HIDE DEF f
<1> QED BY <1>1, <1>3, <1>4, <1>5

\* A frame is left: the others stay as they are.
LEMMA PopShape ==
    ASSUME WalkTypes, frames # <<>>, frames' = SubSeq(frames, 1, Depth - 1)
    PROVE  /\ Len(frames') = Depth - 1 /\ frames' \in Seq(FrameSet)
           /\ \A i \in 1..(Depth - 1) : frames'[i] = frames[i]
<1>1. Depth \in 1..Depth /\ Depth \in Nat /\ Depth = Len(frames)
  BY FrameFacts DEF Depth
<1>2. frames \in Seq(FrameSet)
  BY DEF WalkTypes
<1> QED BY <1>1, <1>2

\* A frame is pushed, at its first `use`.
LEMMA PushShape ==
    ASSUME WalkTypes, NEW p \in Paths, frames' = Append(frames, Frame(p))
    PROVE  /\ Len(frames') = Depth + 1 /\ frames' \in Seq(FrameSet)
           /\ \A i \in 1..Depth : frames'[i] = frames[i]
           /\ frames'[Depth + 1] = Frame(p)
           /\ Frame(p).path = p /\ Frame(p).next = 1
<1>1. Depth \in Nat /\ Depth = Len(frames)
  BY FrameFacts DEF Depth
<1>2. Frame(p) \in FrameSet /\ Frame(p).path = p /\ Frame(p).next = 1
  BY DEF Frame, FrameSet
<1>3. frames \in Seq(FrameSet)
  BY DEF WalkTypes
<1> QED BY <1>1, <1>2, <1>3

\* The loop goes on to the next `use` when the import it is at is listed or
\* has no source file.
LEMMA Advance ==
    ASSUME WalkInv, AtUse, Target = NoPath \/ HasFile(Target), NextUse,
           UNCHANGED <<disk, stdlib, source_files, result>>
    PROVE  WalkInv'
<1>0. /\ WalkTypes /\ StackIsAPath /\ PassedAreListed
      /\ NothingTwice /\ EndsEmpty
  BY DEF WalkInv
<1>1. /\ Depth \in 1..Depth /\ Depth \in Nat /\ Depth = Len(frames)
      /\ \A i \in 1..Depth : /\ frames[i] \in FrameSet /\ frames[i].path \in Paths
                             /\ frames[i].next \in Nat \ {0}
      /\ frames # <<>> /\ Top = frames[Depth]
  BY <1>0, FrameFacts DEF AtUse, Top, Depth
<1>2. /\ Len(frames') = Depth /\ frames' \in Seq(FrameSet)
      /\ \A i \in 1..Depth : frames'[i].path = frames[i].path
      /\ \A i \in 1..(Depth - 1) : frames'[i] = frames[i]
      /\ frames'[Depth].next = frames[Depth].next + 1
  BY <1>0, <1>1, AdvanceShape
<1>3. disk' = disk /\ stdlib' = stdlib /\ source_files' = source_files /\ result' = result
  OBVIOUS
<1>4. WalkTypes'
  BY <1>0, <1>2, <1>3 DEF WalkTypes
<1>5. /\ \A p : Uses(p)' = Uses(p)
      /\ \A p, n : Locate(p, n)' = Locate(p, n)
  BY <1>3, SameDisk
<1>6. /\ \A p : Listed(p)' = Listed(p)
      /\ DependenciesFirst'
  BY <1>3, SameList
<1>7. StackIsAPath'
  <2> SUFFICES ASSUME NEW i \in 1..(Depth - 1)
               PROVE  /\ frames'[i].next \in 1..Len(Uses(frames'[i].path))
                      /\ frames'[i + 1].path
                           = Locate(frames'[i].path, Uses(frames'[i].path)[frames'[i].next].name)
    BY <1>2, <1>5 DEF StackIsAPath, ImportAt
  <2>1. i \in 1..Depth /\ i + 1 \in 1..Depth
    BY <1>1
  <2>2. frames'[i] = frames[i] /\ frames'[i + 1].path = frames[i + 1].path
    BY <1>2, <2>1
  <2> QED BY <1>0, <1>1, <2>2 DEF StackIsAPath, ImportAt
<1>8. PassedAreListed'
  <2> SUFFICES ASSUME NEW i \in 1..Depth, NEW j \in 1..Len(Uses(frames[i].path)),
                      j < frames'[i].next
               PROVE  ImportAt(frames[i], j) = NoPath \/ Listed(ImportAt(frames[i], j))
    BY <1>2, <1>5, <1>6 DEF PassedAreListed, ImportAt
  <2>1. CASE j < frames[i].next
    BY <1>0, <1>1, <2>1 DEF PassedAreListed
  <2>2. CASE ~(j < frames[i].next)
    <3>1. i = Depth
      <4>1. i # Depth => i \in 1..(Depth - 1)
        BY <1>1
      <4>2. i # Depth => frames'[i] = frames[i]
        BY <1>2, <4>1
      <4> QED BY <2>2, <4>2
    <3>2. Len(Uses(frames[i].path)) \in Nat
      BY <1>0, <1>1, FrameFacts
    <3>3. j = frames[Depth].next
      BY <1>1, <1>2, <2>2, <3>1, <3>2
    <3>4. ImportAt(frames[i], j) = Target
      BY <1>1, <3>1, <3>3 DEF ImportAt, Target, TheUse
    <3> QED BY <3>4 DEF HasFile, Listed
  <2> QED BY <2>1, <2>2
<1>9. NothingTwice'
  <2>1. \A i \in 1..Depth : ~Listed(frames[i].path)'
    BY <1>0, <1>1, <1>2, <1>6 DEF NothingTwice
  <2> QED BY <1>0, <1>1, <1>2, <1>3, <1>6, <2>1 DEF NothingTwice
<1>10. EndsEmpty'
  BY <1>0, <1>1, <1>3 DEF EndsEmpty
<1> QED BY <1>4, <1>6, <1>7, <1>8, <1>9, <1>10 DEF WalkInv

\* A frame is left on an error: the rest of the stack is as it was.
LEMMA Pop ==
    ASSUME WalkInv, frames # <<>>, frames' = SubSeq(frames, 1, Depth - 1),
           UNCHANGED <<disk, stdlib, source_files, result>>
    PROVE  WalkInv'
<1>0. /\ WalkTypes /\ StackIsAPath /\ PassedAreListed
      /\ NothingTwice /\ EndsEmpty
  BY DEF WalkInv
<1>1. /\ Depth \in 1..Depth /\ Depth \in Nat /\ Depth = Len(frames)
      /\ \A i \in 1..Depth : frames[i] \in FrameSet
  BY <1>0, FrameFacts DEF Depth
<1>2. /\ Len(frames') = Depth - 1 /\ frames' \in Seq(FrameSet)
      /\ \A i \in 1..(Depth - 1) : frames'[i] = frames[i]
  BY <1>0, PopShape
<1>3. disk' = disk /\ stdlib' = stdlib /\ source_files' = source_files /\ result' = result
  OBVIOUS
<1>4. WalkTypes'
  BY <1>0, <1>2, <1>3 DEF WalkTypes
<1>5. /\ \A p : Uses(p)' = Uses(p)
      /\ \A p, n : Locate(p, n)' = Locate(p, n)
  BY <1>3, SameDisk
<1>6. /\ \A p : Listed(p)' = Listed(p)
      /\ DependenciesFirst'
  BY <1>3, SameList
<1>7. StackIsAPath'
  <2> SUFFICES ASSUME NEW i \in 1..(Depth - 2)
               PROVE  /\ frames'[i].next \in 1..Len(Uses(frames'[i].path))
                      /\ frames'[i + 1].path
                           = Locate(frames'[i].path, Uses(frames'[i].path)[frames'[i].next].name)
    BY <1>1, <1>2, <1>5 DEF StackIsAPath, ImportAt
  <2>1. i \in 1..(Depth - 1) /\ i + 1 \in 1..(Depth - 1)
    BY <1>1
  <2>2. frames'[i] = frames[i] /\ frames'[i + 1] = frames[i + 1]
    BY <1>2, <2>1
  <2> QED BY <1>0, <1>1, <2>1, <2>2 DEF StackIsAPath, ImportAt
<1>8. PassedAreListed'
  <2> SUFFICES ASSUME NEW i \in 1..(Depth - 1), NEW j \in 1..Len(Uses(frames[i].path)),
                      j < frames[i].next
               PROVE  ImportAt(frames[i], j) = NoPath \/ Listed(ImportAt(frames[i], j))
    BY <1>2, <1>5, <1>6 DEF PassedAreListed, ImportAt
  <2>1. i \in 1..Len(frames)
    BY <1>1
  <2> QED BY <1>0, <2>1 DEF PassedAreListed
<1>9. NothingTwice'
  <2>1. \A i \in 1..(Depth - 1) : ~Listed(frames[i].path)'
    BY <1>0, <1>1, <1>6 DEF NothingTwice
  <2>2. \A i, j \in 1..(Depth - 1) : i # j => frames'[i].path # frames'[j].path
    BY <1>0, <1>1, <1>2 DEF NothingTwice
  <2> QED BY <1>0, <1>2, <1>3, <2>1, <2>2 DEF NothingTwice
<1>10. EndsEmpty'
  BY <1>0, <1>3 DEF EndsEmpty
<1> QED BY <1>4, <1>6, <1>7, <1>8, <1>9, <1>10 DEF WalkInv

\* A file that is neither listed nor on the stack is opened, as the main
\* file or as the import the top frame is at.
LEMMA Push ==
    ASSUME WalkInv, NEW p \in Paths, ~HasFile(p), ~OnStack(p), result = "none",
           frames # <<>> => AtUse /\ p = Target,
           frames' = Append(frames, Frame(p)),
           UNCHANGED <<disk, stdlib, source_files, result>>
    PROVE  WalkInv'
<1>0. /\ WalkTypes /\ StackIsAPath /\ PassedAreListed
      /\ NothingTwice /\ EndsEmpty
  BY DEF WalkInv
<1>1. /\ Depth \in Nat /\ Depth = Len(frames)
      /\ frames # <<>> => Depth \in 1..Depth
      /\ \A i \in 1..Depth : /\ frames[i] \in FrameSet /\ frames[i].path \in Paths
                             /\ frames[i].next \in Nat \ {0}
  BY <1>0, FrameFacts DEF Depth
<1>2. Frame(p).path = p /\ Frame(p).next = 1
  BY DEF Frame
<1>3. /\ Len(frames') = Depth + 1 /\ frames' \in Seq(FrameSet)
      /\ \A i \in 1..Depth : frames'[i] = frames[i]
      /\ frames'[Depth + 1] = Frame(p)
  BY <1>0, PushShape
<1>4. disk' = disk /\ stdlib' = stdlib /\ source_files' = source_files /\ result' = result
  OBVIOUS
<1>5. WalkTypes'
  BY <1>0, <1>3, <1>4 DEF WalkTypes
<1>6. /\ \A q : Uses(q)' = Uses(q)
      /\ \A q, n : Locate(q, n)' = Locate(q, n)
  BY <1>4, SameDisk
<1>7. /\ \A q : Listed(q)' = Listed(q)
      /\ DependenciesFirst'
  BY <1>4, SameList
<1>8. StackIsAPath'
  <2> SUFFICES ASSUME NEW i \in 1..Depth
               PROVE  /\ frames'[i].next \in 1..Len(Uses(frames'[i].path))
                      /\ frames'[i + 1].path
                           = Locate(frames'[i].path, Uses(frames'[i].path)[frames'[i].next].name)
    BY <1>1, <1>3, <1>6 DEF StackIsAPath, ImportAt
  <2>1. frames'[i] = frames[i]
    BY <1>3
  <2>2. CASE i < Depth
    <3>1. i + 1 \in 1..Depth /\ i \in 1..(Len(frames) - 1)
      BY <1>1, <2>2
    <3>2. frames'[i + 1] = frames[i + 1]
      BY <1>3, <3>1
    <3> QED BY <1>0, <2>1, <3>1, <3>2 DEF StackIsAPath, ImportAt
  <2>3. CASE i = Depth
    <3>1. frames # <<>>
      BY <1>1, <2>3
    <3>2. AtUse /\ p = Target /\ Top = frames[i]
      BY <2>3, <3>1 DEF Top
    <3>3. frames[i].next \in 1..Len(Uses(frames[i].path))
      <4>1. frames[i].next \in Nat \ {0} /\ Len(Uses(frames[i].path)) \in Nat
        BY <1>0, <1>1, FrameFacts
      <4> QED BY <3>2, <4>1 DEF AtUse
    <3>4. frames'[i + 1].path = p
      BY <1>2, <1>3, <2>3
    <3> QED BY <2>1, <3>2, <3>3, <3>4 DEF Target, TheUse
  <2> QED BY <1>1, <2>2, <2>3
<1>9. PassedAreListed'
  <2> SUFFICES ASSUME NEW i \in 1..(Depth + 1), NEW j \in 1..Len(Uses(frames'[i].path)),
                      j < frames'[i].next
               PROVE  \/ ImportAt(frames'[i], j) = NoPath
                      \/ Listed(ImportAt(frames'[i], j))
    BY <1>3, <1>6, <1>7 DEF PassedAreListed, ImportAt
  <2>1. i # Depth + 1
    <3> SUFFICES ASSUME i = Depth + 1 PROVE FALSE
      OBVIOUS
    <3>1. frames'[i].path = p /\ frames'[i].next = 1
      BY <1>2, <1>3
    <3>2. Len(Uses(p)) \in Nat
      BY <1>0, FrameFacts
    <3> QED BY <3>1, <3>2
  <2>2. i \in 1..Len(frames) /\ frames'[i] = frames[i]
    BY <1>1, <1>3, <2>1
  <2> QED BY <1>0, <2>2 DEF PassedAreListed
<1>10. NothingTwice'
  <2>1. \A i \in 1..Depth : frames[i].path # p
    BY DEF OnStack
  <2>2. \A i, j \in 1..(Depth + 1) : i # j => frames'[i].path # frames'[j].path
    <3> TAKE i, j \in 1..(Depth + 1)
    <3> HAVE i # j
    <3>1. CASE i = Depth + 1
      BY <1>1, <1>2, <1>3, <2>1, <3>1
    <3>2. CASE j = Depth + 1
      BY <1>1, <1>2, <1>3, <2>1, <3>2
    <3>3. CASE i # Depth + 1 /\ j # Depth + 1
      <4>1. i \in 1..Depth /\ j \in 1..Depth
        BY <1>1, <3>3
      <4> QED BY <1>0, <1>1, <1>3, <4>1 DEF NothingTwice
    <3> QED BY <3>1, <3>2, <3>3
  <2>3. \A i \in 1..(Depth + 1) : ~Listed(frames'[i].path)
    <3> TAKE i \in 1..(Depth + 1)
    <3>1. CASE i = Depth + 1
      BY <1>2, <1>3, <3>1 DEF Listed, HasFile
    <3>2. CASE i # Depth + 1
      <4>1. i \in 1..Depth
        BY <1>1, <3>2
      <4> QED BY <1>0, <1>1, <1>3, <4>1 DEF NothingTwice
    <3> QED BY <3>1, <3>2
  <2> QED BY <1>0, <1>3, <1>4, <2>2, <2>3 DEF NothingTwice, Listed
<1>11. EndsEmpty'
  BY <1>4 DEF EndsEmpty
<1> QED BY <1>5, <1>7, <1>8, <1>9, <1>10, <1>11 DEF WalkInv

\* The top frame's file joins the list, and the frame below may go on.
LEMMA FinishShape ==
    ASSUME WalkTypes, Finish
    PROVE  /\ Len(source_files') = Len(source_files) + 1 /\ source_files' \in Seq(Paths)
           /\ \A i \in 1..Len(source_files) : source_files'[i] = source_files[i]
           /\ source_files'[Len(source_files) + 1] = Top.path
           /\ Len(frames') = Depth - 1 /\ frames' \in Seq(FrameSet)
           /\ \A i \in 1..(Depth - 1) : frames'[i].path = frames[i].path
           /\ \A i \in 1..(Depth - 2) : frames'[i] = frames[i]
           /\ \A i \in 1..(Depth - 1) :
                 frames'[i].next = frames[i].next \/ frames'[i].next = frames[i].next + 1
<1> DEFINE p == Top.path
           n == Len(source_files)
           rest == SubSeq(frames, 1, Depth - 1)
<1>1. /\ Depth \in 1..Depth /\ Depth \in Nat /\ Depth = Len(frames) /\ n \in Nat
      /\ \A i \in 1..Depth : /\ frames[i] \in FrameSet /\ frames[i].path \in Paths
                             /\ frames[i].next \in Nat \ {0}
      /\ frames # <<>> /\ p = frames[Depth].path /\ Top = frames[Depth]
  BY FrameFacts DEF Finish, Top, Depth
<1>2. /\ Len(rest) = Depth - 1 /\ rest \in Seq(FrameSet)
      /\ \A i \in 1..(Depth - 1) : rest[i] = frames[i]
  <2>1. frames \in Seq(FrameSet)
    BY DEF WalkTypes
  <2> QED BY <1>1, <2>1
<1>3. /\ disk' = disk /\ stdlib' = stdlib /\ result' = result
      /\ source_files' = Append(source_files, p)
      /\ \/ frames' = rest
         \/ rest # <<>> /\ frames' = [rest EXCEPT ![Depth - 1].next = @ + 1]
  BY DEF Finish
<1>4. /\ Len(source_files') = n + 1 /\ source_files' \in Seq(Paths)
      /\ \A i \in 1..n : source_files'[i] = source_files[i]
      /\ source_files'[n + 1] = p
  <2>1. source_files \in Seq(Paths) /\ p \in Paths
    BY <1>1 DEF WalkTypes
  <2> QED BY <1>3, <2>1
<1> HIDE DEF p, n, rest
<1>5. /\ Len(frames') = Depth - 1 /\ frames' \in Seq(FrameSet)
      /\ \A i \in 1..(Depth - 1) : frames'[i].path = frames[i].path
      /\ \A i \in 1..(Depth - 2) : frames'[i] = frames[i]
      /\ \A i \in 1..(Depth - 1) :
            frames'[i].next = frames[i].next \/ frames'[i].next = frames[i].next + 1
  <2>1. CASE frames' = rest
    BY SMTT(20), <1>1, <1>2, <2>1
  <2>2. CASE rest # <<>> /\ frames' = [rest EXCEPT ![Depth - 1].next = @ + 1]
    <3> DEFINE f == [frames[Depth - 1] EXCEPT !.next = @ + 1]
    <3>1. Depth - 1 \in 1..(Depth - 1)
      BY <1>1, <1>2, <2>2
    <3>2. rest[Depth - 1] = frames[Depth - 1] /\ frames[Depth - 1] \in FrameSet
      BY <1>1, <1>2, <3>1
    <3>3. /\ f \in FrameSet /\ f.path = frames[Depth - 1].path
          /\ f.next = frames[Depth - 1].next + 1
      BY <3>2 DEF FrameSet
    <3>4. frames' = [rest EXCEPT ![Depth - 1] = f]
      BY <2>2, <3>2
    <3> HIDE DEF f
    <3>5. /\ Len(frames') = Depth - 1 /\ frames' \in Seq(FrameSet)
          /\ frames'[Depth - 1] = f
          /\ \A i \in 1..(Depth - 1) : i # Depth - 1 => frames'[i] = rest[i]
      BY <1>2, <3>1, <3>3, <3>4
    <3>6. \A i \in 1..(Depth - 1) : i # Depth - 1 => frames'[i] = frames[i]
      BY <1>2, <3>5
    <3>7. \A i \in 1..(Depth - 2) : frames'[i] = frames[i]
      BY <1>1, <3>6
    <3>8. \A i \in 1..(Depth - 1) :
             /\ frames'[i].path = frames[i].path
             /\ frames'[i].next = frames[i].next \/ frames'[i].next = frames[i].next + 1
      BY <3>3, <3>5, <3>6
    <3> QED BY <3>5, <3>7, <3>8
  <2> QED BY <1>3, <2>1, <2>2
<1> QED BY <1>4, <1>5 DEF p, n

\* All imports of the top frame are passed, so when its file joins the list
\* they are listed before it; the frame below may go on to its next `use`,
\* because the import it was at is this file.
LEMMA FinishStep ==
    ASSUME WalkInv, Finish
    PROVE  WalkInv'
<1>0. /\ WalkTypes /\ StackIsAPath /\ PassedAreListed
      /\ NothingTwice /\ DependenciesFirst /\ EndsEmpty
  BY DEF WalkInv
<1> DEFINE p == Top.path
           n == Len(source_files)
<1>1. /\ Depth \in 1..Depth /\ Depth \in Nat /\ Depth = Len(frames) /\ n \in Nat
      /\ \A i \in 1..Depth : /\ frames[i] \in FrameSet /\ frames[i].path \in Paths
                             /\ frames[i].next \in Nat \ {0}
      /\ frames # <<>> /\ p = frames[Depth].path /\ Top = frames[Depth]
  BY <1>0, FrameFacts DEF Finish, Top, Depth
<1>3. disk' = disk /\ stdlib' = stdlib /\ result' = result
  BY DEF Finish
<1>4. /\ Len(source_files') = n + 1 /\ source_files' \in Seq(Paths)
      /\ \A i \in 1..n : source_files'[i] = source_files[i]
      /\ source_files'[n + 1] = p
  BY <1>0, FinishShape
<1>5. /\ Len(frames') = Depth - 1 /\ frames' \in Seq(FrameSet)
      /\ \A i \in 1..(Depth - 1) : frames'[i].path = frames[i].path
      /\ \A i \in 1..(Depth - 2) : frames'[i] = frames[i]
      /\ \A i \in 1..(Depth - 1) :
            frames'[i].next = frames[i].next \/ frames'[i].next = frames[i].next + 1
  BY <1>0, FinishShape
<1> HIDE DEF p, n
<1>6. WalkTypes'
  BY <1>0, <1>3, <1>4, <1>5 DEF WalkTypes
<1>7. /\ \A q : Uses(q)' = Uses(q)
      /\ \A q, m : Locate(q, m)' = Locate(q, m)
  BY <1>3, SameDisk
<1>8. ~Listed(p) /\ \A q : Listed(q) => \E k \in 1..(n + 1) : source_files'[k] = q
  <2>1. ~Listed(p)
    BY <1>0, <1>1 DEF NothingTwice
  <2> QED BY <1>1, <1>4, <2>1 DEF Listed, n
<1>9. StackIsAPath'
  <2> SUFFICES ASSUME NEW i \in 1..(Depth - 2)
               PROVE  /\ frames'[i].next \in 1..Len(Uses(frames'[i].path))
                      /\ frames'[i + 1].path
                           = Locate(frames'[i].path, Uses(frames'[i].path)[frames'[i].next].name)
    BY <1>1, <1>5, <1>7 DEF StackIsAPath, ImportAt
  <2>1. i + 1 \in 1..(Depth - 1) /\ i \in 1..(Len(frames) - 1)
    BY <1>1
  <2>2. frames'[i] = frames[i] /\ frames'[i + 1].path = frames[i + 1].path
    BY <1>5, <2>1
  <2> QED BY <1>0, <2>1, <2>2 DEF StackIsAPath, ImportAt
<1>10. PassedAreListed'
  <2> SUFFICES ASSUME NEW i \in 1..(Depth - 1), NEW j \in 1..Len(Uses(frames[i].path)),
                      j < frames'[i].next
               PROVE  \/ ImportAt(frames[i], j) = NoPath
                      \/ \E k \in 1..(n + 1) : source_files'[k] = ImportAt(frames[i], j)
    BY <1>4, <1>5, <1>7 DEF PassedAreListed, ImportAt, Listed
  <2>1. CASE j < frames[i].next
    <3>1. i \in 1..Len(frames)
      BY <1>1
    <3>2. ImportAt(frames[i], j) = NoPath \/ Listed(ImportAt(frames[i], j))
      BY <1>0, <2>1, <3>1 DEF PassedAreListed
    <3> QED BY <1>8, <3>2
  <2>2. CASE ~(j < frames[i].next)
    <3>1. i \in 1..Depth /\ frames[i].next \in Nat /\ Len(Uses(frames[i].path)) \in Nat
      BY <1>0, <1>1, FrameFacts
    <3>2. frames'[i].next = frames[i].next + 1 /\ j = frames[i].next
      BY <1>5, <2>2, <3>1
    <3>3. i = Depth - 1
      <4> SUFFICES ASSUME i # Depth - 1 PROVE FALSE
        OBVIOUS
      <4>1. i \in 1..(Depth - 2)
        BY <1>1
      <4> QED BY <1>5, <3>1, <3>2, <4>1
    <3>4. ImportAt(frames[i], j) = frames[i + 1].path
      <4>1. i \in 1..(Len(frames) - 1)
        BY <1>1
      <4> QED BY <1>0, <3>2, <4>1 DEF StackIsAPath
    <3>5. ImportAt(frames[i], j) = p
      BY <1>1, <3>3, <3>4
    <3> QED BY <1>1, <1>4, <3>5
  <2> QED BY <2>1, <2>2
<1>11. NothingTwice'
  <2>1. \A i, j \in 1..(n + 1) : i # j => source_files'[i] # source_files'[j]
    <3>1. \A i \in 1..n : source_files[i] # p
      BY <1>8 DEF Listed, n
    <3>2. \A i, j \in 1..n : i # j => source_files[i] # source_files[j]
      BY <1>0 DEF NothingTwice, n
    <3>3. n \in Nat /\ \A i \in 1..(n + 1) : i = n + 1 \/ i \in 1..n
      BY <1>1
    <3>4. /\ source_files'[n + 1] = p
          /\ \A i \in 1..n : source_files'[i] = source_files[i]
      BY <1>4
    <3> QED BY <3>1, <3>2, <3>3, <3>4
  <2>2. \A i \in 1..(Depth - 1) : ~Listed(frames[i].path) /\ frames[i].path # p
    BY <1>0, <1>1 DEF NothingTwice
  <2>3. \A i \in 1..(Depth - 1) : \A k \in 1..(n + 1) : source_files'[k] # frames'[i].path
    <3> TAKE i \in 1..(Depth - 1)
    <3> TAKE k \in 1..(n + 1)
    <3>1. frames'[i].path = frames[i].path
      BY <1>5
    <3>2. CASE k = n + 1
      BY <1>4, <2>2, <3>1, <3>2
    <3>3. CASE k # n + 1
      <4>1. k \in 1..n
        BY <1>1, <3>3
      <4> QED BY <1>4, <2>2, <3>1, <4>1 DEF Listed, n
    <3> QED BY <3>2, <3>3
  <2>4. \A i, j \in 1..(Depth - 1) : i # j => frames'[i].path # frames'[j].path
    BY SMTT(30), <1>0, <1>1, <1>5 DEF NothingTwice
  <2> QED BY <1>4, <1>5, <2>1, <2>3, <2>4 DEF NothingTwice, Listed
<1>12. DependenciesFirst'
  <2>1. \A q : ImportsOf(q)' = ImportsOf(q)
    BY <1>7 DEF ImportsOf
  <2> SUFFICES ASSUME NEW i \in 1..(n + 1), NEW q \in ImportsOf(source_files'[i])
               PROVE  \E j \in 1..(i - 1) : source_files'[j] = q
    BY <1>4, <2>1, <1>7 DEF DependenciesFirst, ImportsOf
  <2>2. CASE i \in 1..n
    <3>1. source_files'[i] = source_files[i]
      BY <1>4, <2>2
    <3>2. PICK j \in 1..(i - 1) : source_files[j] = q
      BY <1>0, <2>2, <3>1 DEF DependenciesFirst, n
    <3>3. j \in 1..n
      BY <1>1, <2>2
    <3> QED BY <1>4, <3>2, <3>3
  <2>3. CASE i = n + 1
    <3>1. q \in ImportsOf(p)
      BY <1>4, <2>3
    <3>2. PICK j \in 1..Len(Uses(p)) : q = Locate(p, Uses(p)[j].name) /\ q # NoPath
      BY <3>1 DEF ImportsOf
    <3>3. j < frames[Depth].next
      <4>1. Len(Uses(p)) \in Nat /\ frames[Depth].next \in Nat
        BY <1>0, <1>1, FrameFacts
      <4>2. ~(frames[Depth].next <= Len(Uses(p)))
        BY <1>1 DEF Finish, AtUse, p
      <4> QED BY <4>1, <4>2
    <3>4. q = ImportAt(frames[Depth], j)
      BY <1>1, <3>2 DEF ImportAt
    <3>5. Listed(q)
      BY <1>0, <1>1, <3>2, <3>3, <3>4 DEF PassedAreListed
    <3>6. PICK k \in 1..n : source_files[k] = q
      BY <3>5 DEF Listed, n
    <3> QED BY <1>1, <1>4, <2>3, <3>6
  <2> QED BY <1>1, <2>2, <2>3
<1>13. EndsEmpty'
  BY <1>0, <1>1, <1>3 DEF EndsEmpty
<1> QED BY <1>6, <1>9, <1>10, <1>11, <1>12, <1>13 DEF WalkInv

\* Every step of the walk preserves the invariant.
LEMMA NextWalk == WalkInv /\ [ResolveNext]_vars => WalkInv'
<1> SUFFICES ASSUME WalkInv, [ResolveNext]_vars PROVE WalkInv'
  OBVIOUS
<1>0. ResolveAssumption
  BY ResolveAssumption
<1>1. ASSUME UNCHANGED <<disk, stdlib, frames, source_files, result>>
      PROVE  WalkInv'
  <2>1. /\ \A p : Uses(p)' = Uses(p)
        /\ \A p, n : Locate(p, n)' = Locate(p, n)
    BY <1>1, SameDisk
  <2>2. (\A p : Listed(p)' = Listed(p)) /\ DependenciesFirst'
    BY <1>1, SameList
  <2>3. WalkTypes' /\ EndsEmpty'
    BY <1>1 DEF WalkInv, WalkTypes, EndsEmpty
  <2>4. frames' = frames /\ source_files' = source_files
    BY <1>1
  <2>5. StackIsAPath' /\ PassedAreListed'
    BY <2>1, <2>2, <2>4 DEF WalkInv, StackIsAPath, PassedAreListed, ImportAt
  <2>6. NothingTwice'
    BY <2>4 DEF WalkInv, NothingTwice, Listed
  <2> QED BY <2>2, <2>3, <2>5, <2>6 DEF WalkInv
<1>2. AtUse => frames # <<>> /\ result = "none"
  BY DEF AtUse, WalkInv, EndsEmpty
<1>3. AtUse => Target \in Paths \cup {NoPath}
  <2> SUFFICES ASSUME AtUse PROVE Target \in Paths \cup {NoPath}
    OBVIOUS
  <2>1. WalkTypes /\ frames # <<>>
    BY DEF WalkInv, AtUse
  <2>2. /\ Depth \in 1..Depth /\ Top.path \in Paths
        /\ Top.next \in Nat \ {0} /\ Len(Uses(Top.path)) \in Nat
    BY <2>1, FrameFacts DEF Top
  <2>3. Top.next \in 1..Len(Uses(Top.path))
    BY <2>2 DEF AtUse
  <2>4. TheUse.name \in Names
    BY <2>1, <2>2, <2>3, FrameFacts DEF TheUse
  <2> QED BY <2>2, <2>4, LocateType DEF Target
<1>4. ASSUME NEW p \in Paths, ~HasFile(p), ~OnStack(p), result = "none",
             frames # <<>> => AtUse /\ p = Target, Open(p)
      PROVE  WalkInv'
  <2>1. CASE frames' = Append(frames, Frame(p)) /\ UNCHANGED <<disk, stdlib, source_files, result>>
    BY <1>4, <2>1, Push
  <2>2. CASE UNCHANGED <<disk, stdlib, frames, source_files, result>>
    BY <1>1, <2>2
  <2> QED BY <1>4, <2>1, <2>2 DEF Open, Fail
<1>5. CASE OpenEntry
  <2>1. Entry \in Paths /\ ~OnStack(Entry)
    <3>1. Depth = 0
      BY <1>5 DEF OpenEntry, Depth
    <3> QED BY <1>0, <3>1 DEF OnStack, ResolveAssumption
  <2> QED BY <1>4, <1>5, <2>1 DEF OpenEntry
<1>6. CASE InvalidUse \/ UnknownImport \/ ImportCycle \/ UNCHANGED vars
  BY <1>1, <1>6 DEF InvalidUse, UnknownImport, ImportCycle, Fail, vars
<1>7. CASE SkipStd \/ ImportAgain
  BY <1>7, Advance DEF SkipStd, ImportAgain
<1>8. CASE ImportNew
  <2>1. Target \in Paths
    BY <1>3, <1>8 DEF ImportNew
  <2> QED BY <1>2, <1>4, <1>8, <2>1 DEF ImportNew
<1>9. CASE Finish
  BY <1>9, FinishStep
<1>10. CASE Unwind
  BY <1>10, Pop DEF Unwind
<1>11. CASE Return
  <2>1. UNCHANGED <<disk, stdlib, frames, source_files>> /\ frames = <<>>
    BY <1>11 DEF Return
  <2>2. /\ \A p : Uses(p)' = Uses(p)
        /\ \A p, n : Locate(p, n)' = Locate(p, n)
    BY <2>1, SameDisk
  <2>3. (\A p : Listed(p)' = Listed(p)) /\ DependenciesFirst'
    BY <2>1, SameList
  <2>4. WalkTypes' /\ EndsEmpty'
    BY <2>1 DEF WalkInv, WalkTypes, EndsEmpty
  <2>5. frames' = frames /\ source_files' = source_files
    BY <2>1
  <2>6. StackIsAPath' /\ PassedAreListed'
    BY <2>2, <2>3, <2>5 DEF WalkInv, StackIsAPath, PassedAreListed, ImportAt
  <2>7. NothingTwice'
    BY <2>5 DEF WalkInv, NothingTwice, Listed
  <2> QED BY <2>3, <2>4, <2>6, <2>7 DEF WalkInv
<1> QED BY <1>5, <1>6, <1>7, <1>8, <1>9, <1>10, <1>11 DEF ResolveNext

\* The invariant holds throughout the walk.
THEOREM WalkIsInductive == ResolveSpec => []WalkInv
<1>1. ResolveInit => WalkInv
  BY InitWalk
<1>2. WalkInv /\ [ResolveNext]_vars => WalkInv'
  BY NextWalk
<1> QED BY <1>1, <1>2, PTL DEF ResolveSpec

\* Whatever is on the disk, a file joins the list only after every file it
\* imports (direct_row_resolve_file appends the source at its end).
THEOREM ImportsComeFirst == ResolveSpec => []DependenciesFirst
<1>1. WalkInv => DependenciesFirst
  BY DEF WalkInv
<1> QED BY <1>1, WalkIsInductive, PTL

\* However many files import a file, it is listed once, and no path is on
\* the stack twice or listed while it is there (direct_input_has_file and
\* direct_row_stack_contains).
THEOREM FilesAreReadOnce == ResolveSpec => []EachFileOnce
<1>1. ASSUME WalkInv PROVE EachFileOnce
  <2> DEFINE paths == [i \in 1..Depth |-> frames[i].path]
             n == Len(source_files)
             all == source_files \o paths
  <2>1. /\ WalkTypes /\ NothingTwice
    BY <1>1 DEF WalkInv
  <2>2. /\ Depth \in Nat /\ n \in Nat /\ Depth = Len(frames)
        /\ \A i \in 1..Depth : frames[i].path \in Paths
    BY <2>1, FrameFacts DEF Depth
  <2>3. /\ paths \in Seq(Paths) /\ Len(paths) = Depth
        /\ \A i \in 1..Depth : paths[i] = frames[i].path
    BY <2>2
  <2>4. source_files \in Seq(Paths)
    BY <2>1 DEF WalkTypes
  <2> HIDE DEF paths, n
  <2>5. /\ Len(all) = n + Depth
        /\ \A i \in 1..n : all[i] = source_files[i]
        /\ \A i \in (n + 1)..(n + Depth) : all[i] = paths[i - n]
    BY <2>2, <2>3, <2>4 DEF n
  <2>6. \A i, j \in 1..n : i # j => source_files[i] # source_files[j]
    BY <2>1 DEF NothingTwice, n
  <2>7. \A i, j \in 1..Depth : i # j => paths[i] # paths[j]
    BY <2>1, <2>2, <2>3 DEF NothingTwice
  <2>8. \A i \in 1..n, j \in 1..Depth : source_files[i] # paths[j]
    BY <2>1, <2>2, <2>3 DEF NothingTwice, Listed, n
  <2> HIDE DEF all
  <2>9. ASSUME NEW i \in 1..Len(all), NEW j \in 1..Len(all), i < j
        PROVE  all[i] # all[j]
    <3>1. CASE j \in 1..n
      <4>1. i \in 1..n
        BY <2>2, <2>9, <3>1
      <4> QED BY <2>5, <2>6, <2>9, <3>1, <4>1
    <3>2. CASE i \in 1..n /\ j \in (n + 1)..(n + Depth)
      <4>1. j - n \in 1..Depth
        BY <2>2, <3>2
      <4> QED BY <2>5, <2>8, <3>2, <4>1
    <3>3. CASE i \in (n + 1)..(n + Depth)
      <4>1. /\ j \in (n + 1)..(n + Depth) /\ i - n \in 1..Depth /\ j - n \in 1..Depth
            /\ i - n # j - n
        BY <2>2, <2>5, <2>9, <3>3
      <4> QED BY <2>5, <2>7, <3>3, <4>1
    <3> QED BY <2>2, <2>5, <3>1, <3>2, <3>3
  <2>10. \A i, j \in 1..Len(all) : i # j => all[i] # all[j]
    <3>1. Len(all) \in Nat
      BY <2>2, <2>5
    <3> QED BY <2>9, <3>1
  <2> QED BY <2>10 DEF EachFileOnce, all, paths
<1> QED BY <1>1, WalkIsInductive, PTL

-----------------------------------------------------------------------------
\* The imports of a file that have a source file are paths.
LEMMA ImportsType ==
    ASSUME WalkTypes
    PROVE  \A p \in Paths : ImportsOf(p) \subseteq Paths
<1> SUFFICES ASSUME NEW p \in Paths, NEW i \in 1..Len(Uses(p))
             PROVE  Locate(p, Uses(p)[i].name) \in Paths \cup {NoPath}
  BY DEF ImportsOf
<1> QED BY FrameFacts, LocateType

\* The members of the list.
LEMMA ListMembers == \A p : p \in ToSet(source_files) <=>
                              \E i \in DOMAIN source_files : source_files[i] = p
BY DEF ToSet

\* Every step of the walk is a step of ImportOrder or changes nothing it
\* speaks of.
LEMMA StepImplements ==
    ASSUME WalkInv, [ResolveNext]_vars
    PROVE  [Order!OrderNext]_(Order!orderVars)
<1>0. WalkTypes
  BY DEF WalkInv
<1>1. ASSUME UNCHANGED <<disk, stdlib, source_files, result>>
      PROVE  UNCHANGED Order!orderVars
  <2>1. \A p : ImportsOf(p)' = ImportsOf(p)
    BY <1>1, SameDisk DEF ImportsOf
  <2>2. [p \in Paths |-> ImportsOf(p)]' = [p \in Paths |-> ImportsOf(p)]
    BY <2>1
  <2>3. ToSet(source_files)' = ToSet(source_files) /\ result' = result
    BY <1>1 DEF ToSet
  <2> QED BY <2>2, <2>3 DEF Order!orderVars
<1>2. CASE \/ OpenEntry \/ InvalidUse \/ SkipStd \/ UnknownImport \/ ImportCycle
           \/ ImportAgain \/ ImportNew \/ Unwind \/ UNCHANGED vars
  BY <1>1, <1>2 DEF OpenEntry, InvalidUse, SkipStd, UnknownImport, ImportCycle,
     ImportAgain, ImportNew, Unwind, Open, Fail, vars
<1>3. CASE Return
  <2>1. UNCHANGED <<disk, stdlib, source_files>> /\ result = "none"
    BY <1>3 DEF Return
  <2>2. \A p : ImportsOf(p)' = ImportsOf(p)
    BY <2>1, SameDisk DEF ImportsOf
  <2>3. /\ [p \in Paths |-> ImportsOf(p)]' = [p \in Paths |-> ImportsOf(p)]
        /\ ToSet(source_files)' = ToSet(source_files)
    BY <2>1, <2>2 DEF ToSet
  <2>4. CASE diag = "none"
    <3>1. result' = "ok" /\ HasFile(Entry)
      BY <1>3, <2>4 DEF Return
    <3>2. Entry \in ToSet(source_files)
      <4>1. DOMAIN source_files = 1..Len(source_files)
        BY <1>0 DEF WalkTypes
      <4> QED BY <3>1, <4>1, ListMembers DEF HasFile
    <3>3. Order!Succeed
      BY <2>1, <2>3, <3>1, <3>2 DEF Order!Succeed
    <3> QED BY <3>3 DEF Order!OrderNext
  <2>5. CASE diag # "none"
    <3>1. result' = "failed"
      BY <1>3, <2>5 DEF Return
    <3>2. Order!GiveUp
      BY <2>1, <2>3, <3>1 DEF Order!GiveUp
    <3> QED BY <3>2 DEF Order!OrderNext
  <2> QED BY <2>4, <2>5
<1>4. CASE Finish
  <2> DEFINE p == Top.path
  <2>1. WalkInv'
    BY <1>4, FinishStep
  <2>2. /\ frames # <<>> /\ UNCHANGED <<disk, stdlib, result>> /\ result = "none"
        /\ source_files' = Append(source_files, p)
    BY <1>4 DEF Finish, WalkInv, EndsEmpty
  <2>3. Depth \in 1..Len(frames) /\ p \in Paths /\ p = frames[Depth].path
    BY <1>0, <2>2, FrameFacts DEF Top, Depth
  <2>4. source_files \in Seq(Paths) /\ DOMAIN source_files = 1..Len(source_files)
    BY <1>0 DEF WalkTypes
  <2>5. p \notin ToSet(source_files)
    <3>1. ~Listed(p)
      BY <2>3 DEF WalkInv, NothingTwice
    <3> QED BY <2>4, <3>1, ListMembers DEF Listed
  <2> HIDE DEF p
  <2>6. /\ Len(source_files') = Len(source_files) + 1 /\ Len(source_files) \in Nat
        /\ source_files' \in Seq(Paths)
        /\ \A i \in 1..Len(source_files) : source_files'[i] = source_files[i]
        /\ source_files'[Len(source_files) + 1] = p
    BY <2>2, <2>3, <2>4
  <2>7. \A q : ImportsOf(q)' = ImportsOf(q)
    BY <2>2, SameDisk DEF ImportsOf
  <2>8. ToSet(source_files') = ToSet(source_files) \cup {p}
    <3>1. DOMAIN source_files' = 1..(Len(source_files) + 1)
      BY <2>6
    <3>2. ASSUME NEW q PROVE q \in ToSet(source_files') <=> q \in ToSet(source_files) \cup {p}
      <4>1. ASSUME NEW i \in 1..(Len(source_files) + 1), source_files'[i] = q
            PROVE  q \in ToSet(source_files) \cup {p}
        <5>1. CASE i = Len(source_files) + 1
          BY <2>6, <4>1, <5>1
        <5>2. CASE i \in 1..Len(source_files)
          BY <2>4, <2>6, <4>1, <5>2, ListMembers
        <5> QED BY <2>6, <5>1, <5>2
      <4>2. ASSUME NEW i \in 1..Len(source_files), source_files[i] = q
            PROVE  q \in ToSet(source_files')
        BY <2>6, <3>1, <4>2 DEF ToSet
      <4>3. p \in ToSet(source_files')
        BY <2>6, <3>1 DEF ToSet
      <4>4. q \in ToSet(source_files') => q \in ToSet(source_files) \cup {p}
        BY <3>1, <4>1 DEF ToSet
      <4> QED BY <2>4, <4>2, <4>3, <4>4, ListMembers
    <3> QED BY <3>2
  <2>9. ImportsOf(p) \subseteq ToSet(source_files)
    <3> SUFFICES ASSUME NEW q \in ImportsOf(p) PROVE q \in ToSet(source_files)
      OBVIOUS
    <3>1. DependenciesFirst'
      BY <2>1 DEF WalkInv
    <3>2. /\ \A r : Uses(r)' = Uses(r)
          /\ \A r, m : Locate(r, m)' = Locate(r, m)
      BY <2>2, SameDisk
    <3>3. \A i \in 1..Len(source_files') : \A r \in ImportsOf(source_files'[i]) :
             \E j \in 1..(i - 1) : source_files'[j] = r
      <4>1. \A r : ImportsOf(r)' = ImportsOf(r)
        BY <3>2 DEF ImportsOf
      <4> QED BY <3>1, <4>1 DEF DependenciesFirst
    <3>4. PICK j \in 1..(Len(source_files) + 1 - 1) : source_files'[j] = q
      BY <2>6, <3>3
    <3> QED BY <2>4, <2>6, <3>4, ListMembers
  <2>10. [r \in Paths |-> ImportsOf(r)]' = [r \in Paths |-> ImportsOf(r)]
    BY <2>7
  <2>11. Order!List(p)
    BY <2>2, <2>3, <2>5, <2>8, <2>9, <2>10 DEF Order!List, p
  <2> QED BY <2>3, <2>11 DEF Order!OrderNext
<1> QED BY <1>1, <1>2, <1>3, <1>4 DEF ResolveNext

\* The walk implements its promise: a file is listed once, when its imports
\* are, and the walk succeeds only with the main file listed.
THEOREM WalkImplementsOrder == ResolveSpec => ImplementsImportOrder
<1>1. ResolveInit => Order!OrderInit
  <2> SUFFICES ASSUME ResolveInit PROVE Order!OrderInit
    OBVIOUS
  <2>1. WalkTypes
    BY InitWalk DEF WalkInv
  <2>2. [p \in Paths |-> ImportsOf(p)] \in [Paths -> SUBSET Paths]
    BY <2>1, ImportsType
  <2>3. ToSet(source_files) = {} /\ result = "none"
    BY DEF ResolveInit, ToSet
  <2> QED BY <2>2, <2>3 DEF Order!OrderInit
<1>2. WalkInv /\ [ResolveNext]_vars => [Order!OrderNext]_(Order!orderVars)
  BY StepImplements
<1> QED BY <1>1, <1>2, WalkIsInductive, PTL DEF ResolveSpec, ImplementsImportOrder, Order!OrderSpec

-----------------------------------------------------------------------------
\* The reports have their types too: the diagnostic, the cycle chain, the
\* recorded declarations and the outcome.
ReportTypes ==
    /\ symbols \in Seq([module : STRING, name : Symbols, public : BOOLEAN])
    /\ diag \in {"none", "read", "syntax", "use", "IMP001", "IMP002", "IMP003"}
    /\ chain \in Seq(Paths)
    /\ result \in {"none", "ok", "failed"}

\* The chain of a cycle diagnostic is made of paths of the stack
\* (direct_row_format_cycle_chain).
LEMMA CycleChainType ==
    ASSUME WalkTypes, NEW p \in Paths, OnStack(p)
    PROVE  CycleChain(p) \in Seq(Paths)
<1> DEFINE K == {i \in 1..Len(frames) : frames[i].path = p}
           k == IF K # {} THEN Min(K) ELSE 0
           c == [i \in 1..(Depth - k + 2) |->
                    IF k + i - 1 > Depth THEN p ELSE frames[k + i - 1].path]
<1>1. CycleChain(p) = c
  BY DEF CycleChain, SelectInSeq
<1>2. Depth \in Nat /\ Depth = Len(frames) /\ \A i \in 1..Depth : frames[i].path \in Paths
  BY FrameFacts DEF Depth
<1>3. k \in 1..Depth
  <2>1. K # {} /\ K \in SUBSET Nat
    BY <1>2 DEF OnStack
  <2>2. Min(K) \in K
    BY <2>1, MinOfNats
  <2> QED BY <1>2, <2>1, <2>2
<1> HIDE DEF k
<1>4. Depth - k + 2 \in Nat
  BY <1>2, <1>3
<1>5. ASSUME NEW i \in 1..(Depth - k + 2)
      PROVE  (IF k + i - 1 > Depth THEN p ELSE frames[k + i - 1].path) \in Paths
  <2>1. CASE k + i - 1 > Depth BY <2>1
  <2>2. CASE ~(k + i - 1 > Depth)
    <3>1. k + i - 1 \in 1..Depth
      BY <1>2, <1>3, <2>2
    <3> QED BY <1>2, <2>2, <3>1
  <2> QED BY <2>1, <2>2
<1>6. c \in [1..(Depth - k + 2) -> Paths]
  BY <1>5
<1> HIDE DEF c
<1>7. c \in Seq(Paths)
  BY <1>4, <1>6
<1> QED BY <1>1, <1>7

\* The declarations recorded for a file (direct_input_add_row_symbols).
LEMMA DeclaredType ==
    ASSUME NEW ds \in Seq(Decl), NEW m \in STRING
    PROVE  Declared(ds, m) \in Seq([module : STRING, name : Symbols, public : BOOLEAN])
<1>1. \A i \in 1..Len(ds) : ds[i] \in Decl
  OBVIOUS
<1>2. \A i \in 1..Len(ds) : [module |-> m, name |-> ds[i].name, public |-> ds[i].public]
                               \in [module : STRING, name : Symbols, public : BOOLEAN]
  BY <1>1 DEF Decl
<1> DEFINE S == [module : STRING, name : Symbols, public : BOOLEAN]
           R(i) == [module |-> m, name |-> ds[i].name, public |-> ds[i].public]
<1> HIDE DEF S, R
<1>3. [i \in 1..Len(ds) |-> R(i)] \in [1..Len(ds) -> S]
  BY <1>2 DEF S, R
<1>4. [i \in 1..Len(ds) |-> R(i)] \in Seq(S)
  BY <1>3
<1> QED BY <1>4 DEF Declared, R, S

\* Every step keeps the types of the reports.
LEMMA NextReports == WalkInv /\ ReportTypes /\ [ResolveNext]_vars => ReportTypes'
<1> SUFFICES ASSUME WalkInv, ReportTypes, [ResolveNext]_vars PROVE ReportTypes'
  OBVIOUS
<1>0. WalkTypes
  BY DEF WalkInv
<1>1. ASSUME UNCHANGED <<symbols, result>>, chain' = chain,
             diag' \in {diag, "read", "syntax", "use", "IMP001"}
      PROVE  ReportTypes'
  BY <1>1 DEF ReportTypes
<1>2. CASE \/ OpenEntry \/ InvalidUse \/ SkipStd \/ UnknownImport
           \/ ImportAgain \/ ImportNew \/ Unwind \/ UNCHANGED vars
  BY <1>1, <1>2 DEF OpenEntry, InvalidUse, SkipStd, UnknownImport,
     ImportAgain, ImportNew, Unwind, Open, Fail, vars
<1>3. CASE ImportCycle
  <2>1. OnStack(Target) /\ chain' = CycleChain(Target) /\ diag' = "IMP002"
        /\ UNCHANGED <<symbols, result>>
    BY <1>3 DEF ImportCycle, Fail
  <2>2. Target \in Paths
    BY <1>0, <2>1, FrameFacts DEF OnStack
  <2>3. chain' \in Seq(Paths)
    BY <1>0, <2>1, <2>2, CycleChainType
  <2> QED BY <2>1, <2>3 DEF ReportTypes
<1>4. CASE Finish
  <2> DEFINE p == Top.path
             ds == disk[p].decls
             S == [module : STRING, name : Symbols, public : BOOLEAN]
             k == LET Bad(d) == Clashes(d, ModuleName(p)) IN SelectInSeq(ds, Bad)
             kept == IF k = 0 THEN ds ELSE SubSeq(ds, 1, k - 1)
  <2>1. /\ symbols' = symbols \o Declared(kept, ModuleName(p))
        /\ diag' \in {"none", "IMP003"} /\ chain' = chain /\ result' = result
        /\ frames # <<>>
    BY <1>4 DEF Finish
  <2>2. p \in Paths
    BY <1>0, <2>1, FrameFacts DEF Top
  <2>3. ModuleName(p) \in STRING
    BY <2>2, ResolveAssumption DEF ModuleName
  <2>4. ds \in Seq(Decl)
    <3>1. disk[p] \in File
      BY <1>0, <2>2 DEF WalkTypes
    <3> QED BY <3>1 DEF File
  <2> HIDE DEF p, ds
  <2>5. k = 0 \/ k \in 1..Len(ds)
    <3> DEFINE K == {i \in 1..Len(ds) : Clashes(ds[i], ModuleName(p))}
    <3>1. k = IF K # {} THEN Min(K) ELSE 0
      BY DEF SelectInSeq
    <3>2. K \in SUBSET Nat
      OBVIOUS
    <3>3. K # {} => Min(K) \in K
      BY <3>2, MinOfNats
    <3> HIDE DEF k
    <3> QED BY <3>1, <3>3
  <2> HIDE DEF k
  <2>6. kept \in Seq(Decl)
    BY <2>4, <2>5
  <2> HIDE DEF kept
  <2>7. Declared(kept, ModuleName(p)) \in Seq(S)
    BY <2>3, <2>6, DeclaredType
  <2>8. symbols \in Seq(S)
    BY DEF ReportTypes
  <2> HIDE DEF S
  <2>9. symbols' \in Seq(S)
    BY <2>1, <2>7, <2>8
  <2> QED BY <2>1, <2>9 DEF ReportTypes, S
<1>5. CASE Return
  BY <1>5 DEF Return, ReportTypes
<1> QED BY <1>2, <1>3, <1>4, <1>5 DEF ResolveNext

\* The variables of the walk have their types.
THEOREM WalkTypeCorrect == ResolveSpec => []ResolveTypeOK
<1>1. ResolveInit => ReportTypes
  BY DEF ResolveInit, ReportTypes
<1>2. WalkInv /\ ReportTypes /\ [ResolveNext]_vars => ReportTypes'
  BY NextReports
<1>3. WalkInv /\ ReportTypes => ResolveTypeOK
  BY DEF WalkInv, WalkTypes, FrameSet, ReportTypes, ResolveTypeOK
<1> QED BY <1>1, <1>2, <1>3, WalkIsInductive, PTL DEF ResolveSpec


-----------------------------------------------------------------------------
\* Each frame's file imports the file of the next frame, and the top one the
\* file of the import at hand.
LEMMA FramesImport ==
    ASSUME WalkInv, AtUse, Target # NoPath
    PROVE  /\ Target \in Paths
           /\ \A i \in 1..Depth :
                 (IF i = Depth THEN Target ELSE frames[i + 1].path) \in ImportsOf(frames[i].path)
<1>0. WalkTypes /\ StackIsAPath
  BY DEF WalkInv
<1> DEFINE p == Target
<1>1. /\ Depth \in Nat /\ Depth = Len(frames) /\ frames # <<>> /\ Depth \in 1..Depth
      /\ \A i \in 1..Depth : frames[i].path \in Paths /\ frames[i].next \in Nat \ {0}
      /\ \A q \in Paths : /\ Len(Uses(q)) \in Nat
                          /\ \A j \in 1..Len(Uses(q)) : Uses(q)[j].name \in Names
  BY <1>0, FrameFacts DEF Depth, AtUse
<1>2. frames[Depth].next \in 1..Len(Uses(frames[Depth].path))
  BY <1>1 DEF AtUse, Top
<1>3. p = Locate(frames[Depth].path, Uses(frames[Depth].path)[frames[Depth].next].name)
  BY DEF Target, TheUse, Top
<1>4. p \in Paths
  <2>1. Uses(frames[Depth].path)[frames[Depth].next].name \in Names
    BY <1>1, <1>2
  <2> QED BY <1>1, <1>3, <2>1, LocateType
<1>5. p \in ImportsOf(frames[Depth].path)
  BY <1>2, <1>3 DEF ImportsOf
<1> HIDE DEF p
<1>6. ASSUME NEW i \in 1..Depth, i # Depth
      PROVE  frames[i + 1].path \in ImportsOf(frames[i].path)
  <2>1. i \in 1..(Len(frames) - 1) /\ i + 1 \in 1..Depth
    BY <1>1, <1>6
  <2>2. /\ frames[i].next \in 1..Len(Uses(frames[i].path))
        /\ frames[i + 1].path = Locate(frames[i].path, Uses(frames[i].path)[frames[i].next].name)
    BY <1>0, <2>1 DEF StackIsAPath, ImportAt
  <2>3. frames[i + 1].path # NoPath
    BY <1>1, <2>1, ResolveAssumption
  <2> QED BY <2>2, <2>3 DEF ImportsOf
<1> QED BY <1>4, <1>5, <1>6 DEF p

\* Each frame's import is the file of the next frame, so the chain that is
\* formed from the stack when the import at hand is on it follows imports.
LEMMA ChainFollowsImports ==
    ASSUME WalkInv, ImportCycle
    PROVE  CycleDiagNamesACycle'
<1>0. WalkTypes /\ StackIsAPath
  BY DEF WalkInv
<1> DEFINE p == Target
           K == {i \in 1..Len(frames) : frames[i].path = p}
           k == IF K # {} THEN Min(K) ELSE 0
           c == [i \in 1..(Depth - k + 2) |->
                    IF k + i - 1 > Depth THEN p ELSE frames[k + i - 1].path]
<1>1. /\ OnStack(Target) /\ chain' = CycleChain(Target) /\ diag' = "IMP002"
      /\ UNCHANGED <<disk, stdlib>> /\ AtUse
  BY DEF ImportCycle, Fail
<1>2. CycleChain(p) = c
  BY DEF CycleChain, SelectInSeq
<1>3. /\ Depth \in Nat /\ Depth = Len(frames) /\ frames # <<>> /\ Depth \in 1..Depth
      /\ \A i \in 1..Depth : frames[i].path \in Paths /\ frames[i].next \in Nat \ {0}
      /\ \A q \in Paths : Len(Uses(q)) \in Nat
  BY <1>0, <1>1, FrameFacts DEF Depth, AtUse
<1>4. k \in 1..Depth /\ frames[k].path = p
  <2>1. K # {} /\ K \in SUBSET Nat
    BY <1>1, <1>3 DEF OnStack
  <2>2. Min(K) \in K
    BY <2>1, MinOfNats
  <2> QED BY <1>3, <2>1, <2>2
<1>5. p \in Paths
  BY <1>3, <1>4
<1>6. ASSUME NEW i \in 1..Depth
      PROVE  (IF i = Depth THEN p ELSE frames[i + 1].path) \in ImportsOf(frames[i].path)
  BY FramesImport DEF ImportCycle
<1>7. \A q : ImportsOf(q)' = ImportsOf(q)
  BY <1>1, SameDisk DEF ImportsOf
<1> HIDE DEF p, k
<1>8. /\ DOMAIN c = 1..(Depth - k + 2) /\ Depth - k + 2 \in Nat /\ Depth - k + 2 >= 2
      /\ Len(c) = Depth - k + 2
  BY <1>3, <1>4
<1>9. c[1] = p /\ c[Depth - k + 2] = p
  BY <1>3, <1>4
<1>10. ASSUME NEW i \in 1..(Depth - k + 1) PROVE c[i + 1] \in ImportsOf(c[i])
  <2>1. k + i - 1 \in 1..Depth /\ i \in 1..(Depth - k + 2) /\ i + 1 \in 1..(Depth - k + 2)
    BY <1>3, <1>4
  <2>2. c[i] = frames[k + i - 1].path
    BY <1>3, <2>1
  <2>3. c[i + 1] = IF k + i - 1 = Depth THEN p ELSE frames[(k + i - 1) + 1].path
    <3>1. k + (i + 1) - 1 = (k + i - 1) + 1
      BY <1>3, <1>4
    <3>2. (k + (i + 1) - 1 > Depth) <=> (k + i - 1 = Depth)
      BY <1>3, <1>4, <2>1
    <3> QED BY <2>1, <3>1, <3>2
  <2> QED BY <1>6, <2>1, <2>2, <2>3
<1>11. chain' = c
  BY <1>1, <1>2 DEF p
<1> HIDE DEF c
<1>12. Len(chain') - 1 = Depth - k + 1
  BY <1>3, <1>4, <1>8, <1>11
<1> QED BY <1>7, <1>8, <1>9, <1>10, <1>11, <1>12 DEF CycleDiagNamesACycle

\* The chain of an import-cycle diagnostic is a cycle of imports, for every
\* file system (direct_row_format_cycle_chain).
THEOREM CyclesAreReal == ResolveSpec => []CycleDiagNamesACycle
<1>1. ResolveInit => CycleDiagNamesACycle
  BY DEF ResolveInit, CycleDiagNamesACycle
<1>2. WalkInv /\ CycleDiagNamesACycle /\ [ResolveNext]_vars => CycleDiagNamesACycle'
  <2> SUFFICES ASSUME WalkInv, CycleDiagNamesACycle, [ResolveNext]_vars
               PROVE  CycleDiagNamesACycle'
    OBVIOUS
  <2>1. ASSUME chain' = chain, UNCHANGED <<disk, stdlib>>,
               diag' \in {diag, "none", "read", "syntax", "use", "IMP001", "IMP003"}
        PROVE  CycleDiagNamesACycle'
    <3>1. \A q : ImportsOf(q)' = ImportsOf(q)
      BY <2>1, SameDisk DEF ImportsOf
    <3> QED BY <2>1, <3>1 DEF CycleDiagNamesACycle
  <2>2. CASE \/ OpenEntry \/ InvalidUse \/ SkipStd \/ UnknownImport
             \/ ImportAgain \/ ImportNew \/ Unwind \/ UNCHANGED vars
    BY <2>1, <2>2 DEF OpenEntry, InvalidUse, SkipStd, UnknownImport,
       ImportAgain, ImportNew, Unwind, Open, Fail, vars
  <2>3. CASE ImportCycle
    BY <2>3, ChainFollowsImports
  <2>4. CASE Finish
    <3>1. chain' = chain /\ UNCHANGED <<disk, stdlib>> /\ diag' \in {"none", "IMP003"}
      BY <2>4 DEF Finish
    <3> QED BY <2>1, <3>1
  <2>5. CASE Return
    BY <2>1, <2>5 DEF Return
  <2> QED BY <2>2, <2>3, <2>4, <2>5 DEF ResolveNext
<1> QED BY <1>1, <1>2, WalkIsInductive, PTL DEF ResolveSpec

-----------------------------------------------------------------------------
\* The stack and the list hold only files the main file leads to.
OnlyReached ==
    /\ \A i \in 1..Len(frames) : frames[i].path \in Reached
    /\ \A i \in 1..Len(source_files) : source_files[i] \in Reached

KnownUse(p, j) == /\ Uses(p)[j].valid
                  /\ Locate(p, Uses(p)[j].name) # NoPath \/ Uses(p)[j].name \in StdNames

\* They could be read, and what they import is known as far as it was looked
\* at: up to the import a frame is at if there is a frame for that import.
PassedAreKnown ==
    /\ \A i \in 1..Len(frames) :
          /\ disk[frames[i].path].state = "ok"
          /\ \A j \in 1..Len(Uses(frames[i].path)) :
                j <= frames[i].next /\ (i = Len(frames) => j < frames[i].next)
                => KnownUse(frames[i].path, j)
    /\ \A i \in 1..Len(source_files) :
          disk[source_files[i]].state = "ok" /\ Known(source_files[i])

\* A recorded public name is one that a listed file exports, and as long as
\* there is no diagnostic all of them are recorded, each for one module name.
SymbolsAreExports ==
    \A i \in 1..Len(symbols) : symbols[i].public =>
        \E k \in 1..Len(source_files) : /\ symbols[i].module = ModuleName(source_files[k])
                                        /\ symbols[i].name \in Exports(source_files[k])

ExportsAreSymbols ==
    diag = "none" =>
        \A k \in 1..Len(source_files) : \A n \in Exports(source_files[k]) :
            \E i \in 1..Len(symbols) : /\ symbols[i].public /\ symbols[i].name = n
                                       /\ symbols[i].module = ModuleName(source_files[k])

NoClashYet ==
    diag = "none" =>
        \A i, j \in 1..Len(symbols) :
            /\ symbols[i].public /\ symbols[j].public /\ symbols[i].name = symbols[j].name
            => symbols[i].module = symbols[j].module

\* A diagnostic means that something is wrong with the program, and the
\* outcome says whether there is one.
DiagIsTrue == diag # "none" => ~Resolvable
OutcomeFits == /\ result = "ok" => diag = "none" /\ HasFile(Entry)
               /\ result = "failed" => diag # "none"

ResInv == /\ OnlyReached /\ PassedAreKnown
          /\ SymbolsAreExports /\ ExportsAreSymbols /\ NoClashYet
          /\ DiagIsTrue /\ OutcomeFits

\* What the walk asks of the program does not change while the disk does not.
LEMMA SameProgram ==
    ASSUME UNCHANGED <<disk, stdlib>>
    PROVE  /\ \A p : ImportsOf(p)' = ImportsOf(p)
           /\ \A p, j : KnownUse(p, j)' = KnownUse(p, j)
           /\ \A p : Known(p)' = Known(p)
           /\ \A p : Exports(p)' = Exports(p)
           /\ \A p : ModuleName(p)' = ModuleName(p)
           /\ Reached' = Reached
           /\ Resolvable' = Resolvable
<1>1. disk' = disk /\ stdlib' = stdlib
  OBVIOUS
<1>2. (\A p : Uses(p)' = Uses(p)) /\ (\A p, n : Locate(p, n)' = Locate(p, n))
  BY SameDisk
<1>3. \A p : ImportsOf(p)' = ImportsOf(p)
  BY <1>2 DEF ImportsOf
<1>4. (\A p, j : KnownUse(p, j)' = KnownUse(p, j)) /\ (\A p : Known(p)' = Known(p))
  BY <1>2 DEF KnownUse, Known
<1>5. (\A p : Exports(p)' = Exports(p)) /\ (\A p : ModuleName(p)' = ModuleName(p))
  BY <1>1 DEF Exports, ModuleName
<1>6. Reached' = Reached
  <2>1. \A files : Closed(files)' = Closed(files)
    BY <1>3 DEF Closed
  <2> QED BY <2>1 DEF Reached
<1>7. Acyclic(Reached)' = Acyclic(Reached)
  BY <1>3, <1>6 DEF Acyclic
<1>8. Resolvable' = Resolvable
  BY <1>1, <1>4, <1>5, <1>6, <1>7 DEF Resolvable
<1> QED BY <1>3, <1>4, <1>5, <1>6, <1>8

\* The files the main file leads to are closed under imports, and within
\* every set of files that is.
LEMMA ReachedIsLeast ==
    ASSUME WalkTypes
    PROVE  /\ Reached \subseteq Paths /\ Closed(Reached)
           /\ \A files \in SUBSET Paths : Closed(files) => Reached \subseteq files
<1>1. Entry \in Reached
  BY ResolveAssumption DEF Reached, Closed
<1>2. ASSUME NEW p \in Reached, NEW q \in ImportsOf(p) PROVE q \in Reached
  <2>1. p \in Paths
    BY DEF Reached
  <2>2. q \in Paths
    BY <2>1, ImportsType
  <2>3. ASSUME NEW files \in SUBSET Paths, Closed(files) PROVE q \in files
    <3>1. p \in files
      BY <2>3 DEF Reached
    <3> QED BY <2>3, <3>1 DEF Closed
  <2> QED BY <2>2, <2>3 DEF Reached
<1> QED BY <1>1, <1>2 DEF Reached, Closed

\* Closing a cycle on the stack shows that the imports have one.
LEMMA CycleIsTrue ==
    ASSUME WalkInv, OnlyReached, AtUse, Target # NoPath, OnStack(Target)
    PROVE  ~Acyclic(Reached)
<1>1. WalkTypes
  BY DEF WalkInv
<1>2. Depth \in Nat /\ Depth = Len(frames)
  BY <1>1, FrameFacts DEF Depth
<1>3. PICK k \in 1..Depth : frames[k].path = Target
  BY DEF OnStack
<1> DEFINE some == {frames[i].path : i \in k..Depth}
<1>4. some \subseteq Reached /\ some # {}
  <2>1. k \in k..Depth /\ \A i \in k..Depth : i \in 1..Len(frames)
    BY <1>2
  <2> QED BY <2>1 DEF OnlyReached
<1>5. ASSUME NEW p \in some PROVE ImportsOf(p) \cap some # {}
  <2>1. PICK i \in k..Depth : p = frames[i].path
    BY <1>5
  <2>2. i \in 1..Depth
    BY <1>2
  <2>3. CASE i = Depth
    <3>1. Target \in ImportsOf(p)
      BY <2>1, <2>2, <2>3, FramesImport
    <3>2. Target \in some
      BY <1>2, <1>3
    <3> QED BY <3>1, <3>2
  <2>4. CASE i # Depth
    <3>1. frames[i + 1].path \in ImportsOf(p)
      BY <2>1, <2>2, <2>4, FramesImport
    <3>2. i + 1 \in k..Depth
      BY <1>2, <2>4
    <3> QED BY <3>1, <3>2
  <2> QED BY <2>3, <2>4
<1> HIDE DEF some
<1> QED BY <1>4, <1>5 DEF Acyclic

\* A walk that succeeded: the list is closed under imports, so it is what
\* the main file leads to; and because imports come first in it, the first
\* of any of its files imports none of them.
LEMMA SuccessIsResolvable ==
    ASSUME WalkInv, ResInv, result = "ok"
    PROVE  Resolvable /\ ToSet(source_files) = Reached
<1> DEFINE n == Len(source_files)
<1>1. /\ WalkTypes /\ DependenciesFirst /\ OnlyReached /\ PassedAreKnown
      /\ ExportsAreSymbols /\ NoClashYet /\ diag = "none" /\ HasFile(Entry)
  BY DEF WalkInv, ResInv, OutcomeFits
<1>2. n \in Nat /\ source_files \in Seq(Paths) /\ DOMAIN source_files = 1..n
      /\ \A i \in 1..n : source_files[i] \in Paths
  BY <1>1 DEF WalkTypes
<1>3. ToSet(source_files) = Reached
  <2>1. ToSet(source_files) \subseteq Reached
    BY <1>1, <1>2, ListMembers DEF OnlyReached
  <2>2. Closed(ToSet(source_files))
    <3>1. Entry \in ToSet(source_files)
      BY <1>1, <1>2, ListMembers DEF HasFile
    <3>2. ASSUME NEW p \in ToSet(source_files), NEW q \in ImportsOf(p)
          PROVE  q \in ToSet(source_files)
      <4>1. PICK i \in 1..n : source_files[i] = p
        BY <1>2, ListMembers
      <4>2. PICK j \in 1..(i - 1) : source_files[j] = q
        BY <1>1, <4>1 DEF DependenciesFirst
      <4>3. j \in 1..n
        BY <1>2
      <4> QED BY <1>2, <4>2, <4>3, ListMembers
    <3> QED BY <3>1, <3>2 DEF Closed
  <2>3. ToSet(source_files) \in SUBSET Paths
    BY <1>2, ListMembers
  <2> QED BY <1>1, <2>1, <2>2, <2>3, ReachedIsLeast
<1>4. \A p \in Reached : \E i \in 1..n : source_files[i] = p
  BY <1>2, <1>3, ListMembers
<1>5. \A p \in Reached : disk[p].state = "ok" /\ Known(p)
  BY <1>1, <1>4 DEF PassedAreKnown
<1>6. Acyclic(Reached)
  <2> SUFFICES ASSUME NEW some \in SUBSET Reached, some # {}
               PROVE  \E p \in some : ImportsOf(p) \cap some = {}
    BY DEF Acyclic
  <2> DEFINE at == {i \in 1..n : source_files[i] \in some}
  <2>1. at # {} /\ at \in SUBSET Nat
    BY <1>4
  <2>2. PICK m \in at : \A y \in at : m <= y
    BY <2>1, LeastNat
  <2>3. ASSUME NEW q \in ImportsOf(source_files[m]) PROVE q \notin some
    <3>1. PICK j \in 1..(m - 1) : source_files[j] = q
      BY <1>1, <2>2 DEF DependenciesFirst
    <3>2. j \in 1..n /\ ~(m <= j)
      BY <1>2, <2>2
    <3> QED BY <2>2, <3>1, <3>2
  <2> QED BY <2>2, <2>3
<1>7. ASSUME NEW p \in Reached, NEW q \in Reached, ModuleName(p) # ModuleName(q)
      PROVE  Exports(p) \cap Exports(q) = {}
  <2> SUFFICES ASSUME NEW x \in Exports(p), x \in Exports(q) PROVE FALSE
    OBVIOUS
  <2>1. PICK k \in 1..n : source_files[k] = p
    BY <1>4
  <2>2. PICK l \in 1..n : source_files[l] = q
    BY <1>4
  <2>3. PICK i \in 1..Len(symbols) : /\ symbols[i].public /\ symbols[i].name = x
                                     /\ symbols[i].module = ModuleName(p)
    BY <1>1, <2>1 DEF ExportsAreSymbols
  <2>4. PICK j \in 1..Len(symbols) : /\ symbols[j].public /\ symbols[j].name = x
                                     /\ symbols[j].module = ModuleName(q)
    BY <1>1, <2>2 DEF ExportsAreSymbols
  <2> QED BY <1>1, <1>7, <2>3, <2>4 DEF NoClashYet
<1> QED BY <1>3, <1>5, <1>6, <1>7 DEF Resolvable

\* It holds before the walk starts.
LEMMA InitRes == ResolveInit => ResInv
<1> SUFFICES ASSUME ResolveInit PROVE ResInv
  OBVIOUS
<1>1. /\ frames = <<>> /\ source_files = <<>> /\ symbols = <<>>
      /\ diag = "none" /\ result = "none"
  BY DEF ResolveInit
<1> QED BY <1>1 DEF ResInv, OnlyReached, PassedAreKnown, SymbolsAreExports,
        ExportsAreSymbols, NoClashYet, DiagIsTrue, OutcomeFits

\* What the stack and the list hold, if the loop goes on past a known import.
LEMMA AdvanceKnown ==
    ASSUME WalkInv, OnlyReached, PassedAreKnown, AtUse, TheUse.valid,
           Target # NoPath \/ TheUse.name \in StdNames, NextUse,
           UNCHANGED <<disk, stdlib, source_files>>
    PROVE  OnlyReached' /\ PassedAreKnown'
<1>0. WalkTypes /\ frames # <<>>
  BY DEF WalkInv, AtUse
<1>1. /\ Depth \in 1..Depth /\ Depth \in Nat /\ Depth = Len(frames) /\ Top = frames[Depth]
      /\ \A i \in 1..Depth : frames[i].path \in Paths /\ frames[i].next \in Nat \ {0}
      /\ \A q \in Paths : Len(Uses(q)) \in Nat
  BY <1>0, FrameFacts DEF Top, Depth
<1>2. /\ Len(frames') = Depth
      /\ \A i \in 1..Depth : frames'[i].path = frames[i].path
      /\ \A i \in 1..(Depth - 1) : frames'[i] = frames[i]
      /\ frames'[Depth].next = frames[Depth].next + 1
  BY <1>0, AdvanceShape
<1>3. /\ disk' = disk /\ source_files' = source_files /\ Reached' = Reached
      /\ \A p : Known(p)' = Known(p) /\ Uses(p)' = Uses(p)
      /\ \A p, j : KnownUse(p, j)' = KnownUse(p, j)
  BY SameProgram, SameDisk
<1>4. OnlyReached'
  BY <1>1, <1>2, <1>3 DEF OnlyReached
<1>5. KnownUse(frames[Depth].path, frames[Depth].next)
  BY <1>1 DEF KnownUse, Target, TheUse
<1>6. ASSUME NEW i \in 1..Depth, NEW j \in 1..Len(Uses(frames[i].path)),
             j <= frames'[i].next, i = Depth => j < frames'[i].next
      PROVE  KnownUse(frames[i].path, j)
  <2>1. CASE i = Depth
    <3>1. j < frames[Depth].next \/ j = frames[Depth].next
      BY <1>1, <1>2, <1>6, <2>1
    <3> QED BY <1>1, <1>5, <2>1, <3>1 DEF PassedAreKnown
  <2>2. CASE i # Depth
    <3>1. i \in 1..(Depth - 1)
      BY <1>1, <2>2
    <3>2. frames'[i] = frames[i]
      BY <1>2, <3>1
    <3> QED BY <1>1, <1>6, <2>2, <3>2 DEF PassedAreKnown
  <2> QED BY <2>1, <2>2
<1>7. PassedAreKnown'
  <2>1. \A i \in 1..Depth : disk[frames'[i].path].state = "ok"
    BY <1>1, <1>2 DEF PassedAreKnown
  <2>2. \A i \in 1..Len(source_files) :
           disk[source_files[i]].state = "ok" /\ Known(source_files[i])
    BY DEF PassedAreKnown
  <2> QED BY <1>2, <1>3, <1>6, <2>1, <2>2 DEF PassedAreKnown
<1> QED BY <1>4, <1>7

\* If a file that the main file leads to, and that could be read, is opened.
LEMMA PushKnown ==
    ASSUME WalkInv, OnlyReached, PassedAreKnown, NEW p \in Reached,
           disk[p].state = "ok", frames' = Append(frames, Frame(p)),
           frames # <<>> => AtUse /\ TheUse.valid /\ Target # NoPath,
           UNCHANGED <<disk, stdlib, source_files>>
    PROVE  OnlyReached' /\ PassedAreKnown'
<1>0. WalkTypes /\ p \in Paths
  BY DEF WalkInv, Reached
<1>1. /\ Depth \in Nat /\ Depth = Len(frames) /\ Top = frames[Depth]
      /\ \A i \in 1..Depth : frames[i].path \in Paths /\ frames[i].next \in Nat \ {0}
      /\ \A q \in Paths : Len(Uses(q)) \in Nat
  BY <1>0, FrameFacts DEF Top, Depth
<1>2. /\ Len(frames') = Depth + 1
      /\ \A i \in 1..Depth : frames'[i] = frames[i]
      /\ frames'[Depth + 1].path = p /\ frames'[Depth + 1].next = 1
  BY <1>0, PushShape
<1>3. /\ disk' = disk /\ source_files' = source_files /\ Reached' = Reached
      /\ \A q : Known(q)' = Known(q) /\ Uses(q)' = Uses(q)
      /\ \A q, j : KnownUse(q, j)' = KnownUse(q, j)
  BY SameProgram, SameDisk
<1>4. \A i \in 1..(Depth + 1) : i = Depth + 1 \/ i \in 1..Depth
  BY <1>1
<1>5. OnlyReached'
  BY <1>1, <1>2, <1>3, <1>4 DEF OnlyReached
<1>6. ASSUME NEW i \in 1..(Depth + 1), NEW j \in 1..Len(Uses(frames'[i].path)),
             j <= frames'[i].next, i = Depth + 1 => j < frames'[i].next
      PROVE  KnownUse(frames'[i].path, j)
  <2>1. CASE i = Depth + 1
    <3>1. j < 1 /\ Len(Uses(p)) \in Nat /\ j \in 1..Len(Uses(p))
      BY <1>0, <1>1, <1>2, <1>6, <2>1
    <3> QED BY <3>1
  <2>2. CASE i \in 1..Depth
    <3>1. frames'[i] = frames[i]
      BY <1>2, <2>2
    <3>2. CASE i = Depth /\ j = frames[i].next
      <4>1. AtUse /\ TheUse.valid /\ Target # NoPath
        BY <1>1, <2>2
      <4>2. KnownUse(frames[Depth].path, frames[Depth].next)
        BY <1>1, <4>1 DEF KnownUse, Target, TheUse
      <4> QED BY <3>1, <3>2, <4>2
    <3>3. CASE ~(i = Depth /\ j = frames[i].next)
      <4>1. i = Depth => j < frames[i].next
        <5>1. frames[i].next \in Nat /\ Len(Uses(frames[i].path)) \in Nat
          BY <1>1, <2>2
        <5> QED BY <1>6, <3>1, <3>3, <5>1
      <4> QED BY <1>1, <1>6, <2>2, <3>1, <4>1 DEF PassedAreKnown
    <3> QED BY <3>2, <3>3
  <2> QED BY <1>4, <2>1, <2>2
<1>7. PassedAreKnown'
  <2>1. \A i \in 1..Depth : disk[frames[i].path].state = "ok"
    BY <1>1 DEF PassedAreKnown
  <2>2. \A i \in 1..(Depth + 1) : disk[frames'[i].path].state = "ok"
    BY <1>2, <1>4, <2>1
  <2>3. \A i \in 1..Len(source_files) :
           disk[source_files[i]].state = "ok" /\ Known(source_files[i])
    BY DEF PassedAreKnown
  <2> QED BY <1>2, <1>3, <1>6, <2>2, <2>3 DEF PassedAreKnown
<1> QED BY <1>5, <1>7

\* If frames are left but nothing is listed.
LEMMA PopKnown ==
    ASSUME WalkInv, OnlyReached, PassedAreKnown, frames # <<>>,
           frames' = SubSeq(frames, 1, Depth - 1),
           UNCHANGED <<disk, stdlib, source_files>>
    PROVE  OnlyReached' /\ PassedAreKnown'
<1>0. WalkTypes
  BY DEF WalkInv
<1>1. Depth \in 1..Depth /\ Depth \in Nat /\ Depth = Len(frames)
  BY <1>0, FrameFacts DEF Depth
<1>2. /\ Len(frames') = Depth - 1
      /\ \A i \in 1..(Depth - 1) : frames'[i] = frames[i] /\ i \in 1..Depth /\ i # Depth
  BY <1>0, <1>1, PopShape
<1>3. /\ disk' = disk /\ source_files' = source_files /\ Reached' = Reached
      /\ \A q : Known(q)' = Known(q) /\ Uses(q)' = Uses(q)
      /\ \A q, j : KnownUse(q, j)' = KnownUse(q, j)
  BY SameProgram, SameDisk
<1>4. OnlyReached'
  BY <1>1, <1>2, <1>3 DEF OnlyReached
<1>5. \A i \in 1..(Depth - 1) :
         /\ disk[frames'[i].path].state = "ok"
         /\ \A j \in 1..Len(Uses(frames'[i].path)) :
               j <= frames'[i].next => KnownUse(frames'[i].path, j)
  BY <1>1, <1>2 DEF PassedAreKnown
<1>6. \A i \in 1..Len(source_files) :
         disk[source_files[i]].state = "ok" /\ Known(source_files[i])
  BY DEF PassedAreKnown
<1>7. PassedAreKnown'
  BY <1>2, <1>3, <1>5, <1>6 DEF PassedAreKnown
<1> QED BY <1>4, <1>7

\* If the top frame's file joins the list: all its imports are known.
LEMMA FinishKnown ==
    ASSUME WalkInv, OnlyReached, PassedAreKnown, Finish
    PROVE  OnlyReached' /\ PassedAreKnown'
<1>0. WalkTypes /\ frames # <<>> /\ UNCHANGED <<disk, stdlib>>
  BY DEF WalkInv, Finish
<1> DEFINE n == Len(source_files)
<1>1. /\ Depth \in 1..Depth /\ Depth \in Nat /\ Depth = Len(frames) /\ Top = frames[Depth]
      /\ n \in Nat
      /\ \A i \in 1..Depth : frames[i].path \in Paths /\ frames[i].next \in Nat \ {0}
      /\ \A q \in Paths : Len(Uses(q)) \in Nat
  BY <1>0, FrameFacts DEF Top, Depth
<1>2. /\ Len(frames') = Depth - 1
      /\ \A i \in 1..(Depth - 1) : frames'[i].path = frames[i].path
      /\ \A i \in 1..(Depth - 2) : frames'[i] = frames[i]
      /\ \A i \in 1..(Depth - 1) :
            frames'[i].next = frames[i].next \/ frames'[i].next = frames[i].next + 1
      /\ Len(source_files') = n + 1 /\ source_files'[n + 1] = frames[Depth].path
      /\ \A i \in 1..n : source_files'[i] = source_files[i]
  BY <1>0, <1>1, FinishShape
<1>3. /\ disk' = disk /\ Reached' = Reached
      /\ \A q : Known(q)' = Known(q) /\ Uses(q)' = Uses(q)
      /\ \A q, j : KnownUse(q, j)' = KnownUse(q, j)
  BY <1>0, SameProgram, SameDisk
<1>4. \A i \in 1..(n + 1) : i = n + 1 \/ i \in 1..n
  BY <1>1
<1>5. \A i \in 1..(Depth - 1) : i \in 1..Depth /\ i # Depth
  BY <1>1
<1>6. OnlyReached'
  BY <1>1, <1>2, <1>3, <1>4, <1>5 DEF OnlyReached
<1>7. Known(frames[Depth].path)
  <2>1. \A j \in 1..Len(Uses(frames[Depth].path)) : j < frames[Depth].next
    <3>1. ~(frames[Depth].next <= Len(Uses(frames[Depth].path)))
      BY <1>1 DEF Finish, AtUse
    <3>2. frames[Depth].next \in Nat /\ Len(Uses(frames[Depth].path)) \in Nat
      BY <1>1
    <3> QED BY <3>1, <3>2
  <2>2. \A j \in 1..Len(Uses(frames[Depth].path)) : KnownUse(frames[Depth].path, j)
    BY <1>1, <2>1 DEF PassedAreKnown
  <2> QED BY <2>2 DEF Known, KnownUse
<1>8. ASSUME NEW i \in 1..(Depth - 1), NEW j \in 1..Len(Uses(frames[i].path)),
             j <= frames'[i].next, i = Depth - 1 => j < frames'[i].next
      PROVE  KnownUse(frames[i].path, j)
  <2>1. frames[i].next \in Nat /\ Len(Uses(frames[i].path)) \in Nat
    BY <1>1, <1>5
  <2>2. j <= frames[i].next
    <3>1. CASE i = Depth - 1
      BY <1>2, <1>8, <2>1, <3>1
    <3>2. CASE i # Depth - 1
      <4>1. i \in 1..(Depth - 2)
        <5>1. Depth \in Nat /\ i \in 1..(Depth - 1)
          BY <1>1
        <5> QED BY <3>2, <5>1
      <4> QED BY <1>2, <1>8, <4>1
    <3> QED BY <3>1, <3>2
  <2> QED BY <1>1, <1>5, <2>2 DEF PassedAreKnown
<1>9. PassedAreKnown'
  <2>1. \A i \in 1..(Depth - 1) : disk[frames'[i].path].state = "ok"
    BY <1>1, <1>2, <1>5 DEF PassedAreKnown
  <2>2. \A i \in 1..(n + 1) : disk[source_files'[i]].state = "ok" /\ Known(source_files'[i])
    <3>1. \A i \in 1..n : disk[source_files[i]].state = "ok" /\ Known(source_files[i])
      BY DEF PassedAreKnown
    <3>2. disk[frames[Depth].path].state = "ok"
      BY <1>1 DEF PassedAreKnown
    <3> QED BY <1>2, <1>4, <1>7, <3>1, <3>2
  <2> QED BY <1>2, <1>3, <1>8, <2>1, <2>2 DEF PassedAreKnown
<1> QED BY <1>6, <1>9

\* What direct_input_add_row_symbols does of a file: the declarations before
\* the first that clashes, or all of them, are recorded.
LEMMA FinishSymbols ==
    ASSUME WalkInv, ReportTypes, Finish
    PROVE  LET p == Top.path
               ds == disk[p].decls
               m == ModuleName(p)
               old == Len(symbols)
               new == Len(symbols')
           IN  /\ old \in Nat /\ new \in Nat /\ old <= new /\ new - old <= Len(ds)
               /\ Len(ds) \in Nat
               /\ \A i \in 1..old : symbols'[i] = symbols[i]
               /\ \A i \in (old + 1)..new :
                     /\ symbols'[i].module = m
                     /\ symbols'[i].name = ds[i - old].name
                     /\ symbols'[i].public = ds[i - old].public
               /\ \/ /\ diag' = "none" /\ new = old + Len(ds)
                     /\ \A j \in 1..Len(ds) : ~Clashes(ds[j], m)
                  \/ diag' # "none" /\ \E j \in 1..Len(ds) : Clashes(ds[j], m)
<1> DEFINE p == Top.path
           ds == disk[p].decls
           m == ModuleName(p)
           S == [module : STRING, name : Symbols, public : BOOLEAN]
           K == {i \in 1..Len(ds) : Clashes(ds[i], m)}
           k == LET Bad(d) == Clashes(d, m) IN SelectInSeq(ds, Bad)
           kept == IF k = 0 THEN ds ELSE SubSeq(ds, 1, k - 1)
<1>1. /\ symbols' = symbols \o Declared(kept, m)
      /\ diag' = IF k = 0 THEN "none" ELSE "IMP003"
      /\ frames # <<>> /\ WalkTypes
  BY DEF Finish, WalkInv
<1>2. p \in Paths
  BY <1>1, FrameFacts DEF Top
<1>3. m \in STRING
  BY <1>2, ResolveAssumption DEF ModuleName
<1>4. ds \in Seq(Decl) /\ Len(ds) \in Nat
  <2>1. disk[p] \in File
    BY <1>1, <1>2 DEF WalkTypes
  <2> QED BY <2>1 DEF File
<1> HIDE DEF p, ds, m
<1>5. k = IF K # {} THEN Min(K) ELSE 0
  BY DEF SelectInSeq
<1>6. K # {} => Min(K) \in K
  <2>1. K \in SUBSET Nat
    OBVIOUS
  <2> QED BY <2>1, MinOfNats
<1>7. \/ k = 0 /\ K = {}
      \/ k \in 1..Len(ds) /\ K # {}
  <2> HIDE DEF k
  <2> QED BY <1>4, <1>5, <1>6
<1> HIDE DEF k
<1>8. /\ kept \in Seq(Decl) /\ Len(kept) \in Nat /\ Len(kept) <= Len(ds)
      /\ k = 0 => Len(kept) = Len(ds)
      /\ \A i \in 1..Len(kept) : kept[i] = ds[i]
  <2>1. CASE k = 0
    BY <1>4, <2>1
  <2>2. CASE k # 0
    <3>1. kept = SubSeq(ds, 1, k - 1) /\ k - 1 \in 0..Len(ds)
      BY <1>4, <1>7, <2>2
    <3> HIDE DEF kept
    <3>2. Len(kept) = k - 1 /\ kept \in Seq(Decl) /\ \A i \in 1..(k - 1) : kept[i] = ds[i]
      BY <1>4, <3>1
    <3> QED BY <1>4, <2>2, <3>1, <3>2
  <2> QED BY <2>1, <2>2
<1> HIDE DEF kept
<1>9. Declared(kept, m) \in Seq(S)
  BY <1>3, <1>8, DeclaredType
<1>10. /\ Len(Declared(kept, m)) = Len(kept)
       /\ \A i \in 1..Len(kept) : /\ Declared(kept, m)[i].module = m
                                  /\ Declared(kept, m)[i].name = kept[i].name
                                  /\ Declared(kept, m)[i].public = kept[i].public
  BY <1>8 DEF Declared
<1>11. symbols \in Seq(S)
  BY DEF ReportTypes
<1> DEFINE d == Declared(kept, m)
           old == Len(symbols)
           new == Len(symbols')
<1> HIDE DEF S, d
<1>12. /\ old \in Nat /\ new = old + Len(kept)
       /\ \A i \in 1..old : symbols'[i] = symbols[i]
       /\ \A i \in (old + 1)..new : symbols'[i] = d[i - old]
  <2>1. symbols' = symbols \o d /\ d \in Seq(S) /\ Len(d) = Len(kept)
    BY <1>1, <1>9, <1>10 DEF d
  <2>2. /\ Len(symbols) \in Nat
        /\ Len(symbols \o d) = Len(symbols) + Len(d)
        /\ \A i \in 1..Len(symbols) : (symbols \o d)[i] = symbols[i]
        /\ \A i \in (Len(symbols) + 1)..(Len(symbols) + Len(d)) :
              (symbols \o d)[i] = d[i - Len(symbols)]
    BY <1>11, <2>1, Concatenated
  <2> QED BY <2>1, <2>2
<1> HIDE DEF old, new
<1>13. ASSUME NEW i \in (old + 1)..new
       PROVE  /\ symbols'[i].module = m
              /\ symbols'[i].name = ds[i - old].name
              /\ symbols'[i].public = ds[i - old].public
  <2>1. i - old \in 1..Len(kept)
    BY <1>8, <1>12
  <2> QED BY <1>8, <1>10, <1>12, <2>1 DEF d
<1>14. new \in Nat /\ old <= new /\ new - old <= Len(ds)
  BY <1>4, <1>8, <1>12
<1>15. \/ /\ diag' = "none" /\ new = old + Len(ds)
          /\ \A j \in 1..Len(ds) : ~Clashes(ds[j], m)
       \/ diag' # "none" /\ \E j \in 1..Len(ds) : Clashes(ds[j], m)
  <2>1. CASE k = 0 /\ K = {}
    <3>1. \A j \in 1..Len(ds) : ~Clashes(ds[j], m)
      BY <2>1
    <3>2. diag' = "none" /\ new = old + Len(ds)
      BY <1>1, <1>8, <1>12, <2>1
    <3> QED BY <3>1, <3>2
  <2>2. CASE k \in 1..Len(ds) /\ K # {}
    <3>1. \E j \in 1..Len(ds) : Clashes(ds[j], m)
      BY <2>2
    <3>2. diag' # "none"
      BY <1>1, <1>4, <2>2
    <3> QED BY <3>1, <3>2
  <2> QED BY <1>7, <2>1, <2>2
<1> QED BY <1>4, <1>12, <1>13, <1>14, <1>15 DEF p, ds, m, old, new

\* The records of the public names when a file joins the list; a name that
\* clashes makes the program one that cannot be resolved.
LEMMA FinishRecords ==
    ASSUME WalkInv, ReportTypes, ResInv, Finish
    PROVE  SymbolsAreExports' /\ ExportsAreSymbols' /\ NoClashYet' /\ DiagIsTrue'
<1> DEFINE p == Top.path
           ds == disk[p].decls
           m == ModuleName(p)
           n == Len(source_files)
           old == Len(symbols)
           new == Len(symbols')
<1>1. /\ old \in Nat /\ new \in Nat /\ old <= new /\ new - old <= Len(ds)
      /\ Len(ds) \in Nat
      /\ \A i \in 1..old : symbols'[i] = symbols[i]
      /\ \A i \in (old + 1)..new :
            /\ symbols'[i].module = m
            /\ symbols'[i].name = ds[i - old].name
            /\ symbols'[i].public = ds[i - old].public
      /\ \/ /\ diag' = "none" /\ new = old + Len(ds)
            /\ \A j \in 1..Len(ds) : ~Clashes(ds[j], m)
         \/ diag' # "none" /\ \E j \in 1..Len(ds) : Clashes(ds[j], m)
  BY FinishSymbols
<1>2. /\ WalkTypes /\ frames # <<>> /\ diag = "none" /\ UNCHANGED <<disk, stdlib>>
      /\ SymbolsAreExports /\ ExportsAreSymbols /\ NoClashYet
      /\ OnlyReached /\ PassedAreKnown
  BY DEF WalkInv, Finish, ResInv
<1>3. /\ n \in Nat /\ Len(source_files') = n + 1 /\ source_files'[n + 1] = p
      /\ \A i \in 1..n : source_files'[i] = source_files[i]
  BY <1>2, FrameFacts, FinishShape
<1>4. /\ \A q : Exports(q)' = Exports(q) /\ ModuleName(q)' = ModuleName(q)
      /\ Resolvable' = Resolvable
  BY <1>2, SameProgram
<1>5. ASSUME NEW j \in 1..Len(ds), ds[j].public PROVE ds[j].name \in Exports(p)
  BY <1>5 DEF Exports
<1>6. ASSUME NEW x \in Exports(p) PROVE \E j \in 1..Len(ds) : ds[j].public /\ ds[j].name = x
  BY <1>6 DEF Exports
<1>7. \A i \in 1..new : i \in 1..old \/ (i \in (old + 1)..new /\ i - old \in 1..Len(ds))
  BY <1>1
<1>8. p \in Reached
  <2>1. Depth \in 1..Len(frames) /\ p = frames[Depth].path
    BY <1>2, FrameFacts DEF Top, Depth
  <2> QED BY <1>2, <2>1 DEF OnlyReached
<1> HIDE DEF p, ds, m, n, old, new
<1>9. ASSUME NEW i \in 1..new, symbols'[i].public
      PROVE  \E k \in 1..(n + 1) : /\ symbols'[i].module = ModuleName(source_files'[k])
                                   /\ symbols'[i].name \in Exports(source_files'[k])
  <2>1. CASE i \in 1..old
    <3>1. PICK k \in 1..n : /\ symbols[i].module = ModuleName(source_files[k])
                            /\ symbols[i].name \in Exports(source_files[k])
      BY <1>1, <1>2, <1>9, <2>1 DEF SymbolsAreExports, old, n
    <3>2. k \in 1..(n + 1)
      BY <1>3
    <3> QED BY <1>1, <1>3, <2>1, <3>1, <3>2
  <2>2. CASE i \in (old + 1)..new /\ i - old \in 1..Len(ds)
    <3>1. n + 1 \in 1..(n + 1)
      BY <1>3
    <3>2. symbols'[i].name \in Exports(p) /\ symbols'[i].module = m
      BY <1>1, <1>5, <1>9, <2>2
    <3> QED BY <1>3, <3>1, <3>2 DEF m
  <2> QED BY <1>7, <2>1, <2>2
<1>10. SymbolsAreExports'
  BY <1>3, <1>4, <1>9 DEF SymbolsAreExports, n, new
<1>11. ExportsAreSymbols'
  <2> SUFFICES ASSUME diag' = "none", NEW k \in 1..(n + 1), NEW x \in Exports(source_files'[k])
               PROVE  \E i \in 1..new : /\ symbols'[i].public /\ symbols'[i].name = x
                                        /\ symbols'[i].module = ModuleName(source_files'[k])
    BY <1>3, <1>4 DEF ExportsAreSymbols, n, new
  <2>1. CASE k = n + 1
    <3>1. PICK j \in 1..Len(ds) : ds[j].public /\ ds[j].name = x
      BY <1>3, <1>6, <2>1
    <3>2. old + j \in (old + 1)..new /\ old + j \in 1..new /\ (old + j) - old = j
      BY <1>1
    <3> QED BY <1>1, <1>3, <2>1, <3>1, <3>2 DEF m
  <2>2. CASE k # n + 1
    <3>1. k \in 1..n /\ source_files'[k] = source_files[k]
      BY <1>3, <2>2
    <3>2. PICK i \in 1..old : /\ symbols[i].public /\ symbols[i].name = x
                              /\ symbols[i].module = ModuleName(source_files[k])
      BY SMTT(20), <1>2, <3>1 DEF ExportsAreSymbols, old, n
    <3>3. i \in 1..new
      BY <1>1
    <3> QED BY <1>1, <3>1, <3>2, <3>3
  <2> QED BY <2>1, <2>2
<1>12. NoClashYet'
  <2> SUFFICES ASSUME diag' = "none", NEW i \in 1..new, NEW j \in 1..new,
                      symbols'[i].public, symbols'[j].public,
                      symbols'[i].name = symbols'[j].name
               PROVE  symbols'[i].module = symbols'[j].module
    BY DEF NoClashYet, new
  <2>1. ASSUME NEW a \in 1..old, NEW b \in (old + 1)..new, b - old \in 1..Len(ds),
               symbols'[a].public, symbols'[b].public, symbols'[a].name = symbols'[b].name
        PROVE  symbols'[a].module = m
    <3>1. ~Clashes(ds[b - old], m)
      BY <1>1, <2>1
    <3> QED BY <1>1, <2>1, <3>1 DEF Clashes, old
  <2>2. CASE i \in 1..old /\ j \in 1..old
    BY <1>1, <1>2, <2>2 DEF NoClashYet, old
  <2>3. CASE i \in 1..old /\ j \in (old + 1)..new /\ j - old \in 1..Len(ds)
    BY <1>1, <2>1, <2>3
  <2>4. CASE j \in 1..old /\ i \in (old + 1)..new /\ i - old \in 1..Len(ds)
    BY <1>1, <2>1, <2>4
  <2>5. CASE i \in (old + 1)..new /\ j \in (old + 1)..new
    BY <1>1, <2>5
  <2> QED BY <1>7, <2>2, <2>3, <2>4, <2>5
<1>13. DiagIsTrue'
  <2> SUFFICES ASSUME diag' # "none" PROVE ~Resolvable
    BY <1>4 DEF DiagIsTrue
  <2>1. PICK j \in 1..Len(ds) : Clashes(ds[j], m)
    BY <1>1
  <2>2. PICK i \in 1..old : /\ symbols[i].public /\ symbols[i].name = ds[j].name
                            /\ symbols[i].module # m
    BY <2>1 DEF Clashes, old
  <2>3. PICK k \in 1..n : /\ symbols[i].module = ModuleName(source_files[k])
                          /\ symbols[i].name \in Exports(source_files[k])
    BY <1>2, <2>2 DEF SymbolsAreExports, old, n
  <2>4. ds[j].name \in Exports(p)
    BY <1>5, <2>1 DEF Clashes
  <2>5. source_files[k] \in Reached /\ ModuleName(source_files[k]) # ModuleName(p)
    BY <1>2, <2>2, <2>3 DEF OnlyReached, n, m
  <2> QED BY <1>8, <2>2, <2>3, <2>4, <2>5 DEF Resolvable
<1> QED BY <1>10, <1>11, <1>12, <1>13

\* What the invariant says of the records and the outcome, while nothing is
\* recorded and the diagnostic stays or has a cause in the program.
LEMMA QuietStep ==
    ASSUME ResInv, UNCHANGED <<disk, stdlib, source_files, symbols, result>>,
           diag' = diag \/ (diag' # "none" /\ result = "none" /\ ~Resolvable)
    PROVE  /\ SymbolsAreExports' /\ ExportsAreSymbols' /\ NoClashYet'
           /\ DiagIsTrue' /\ OutcomeFits'
<1>1. /\ source_files' = source_files /\ symbols' = symbols /\ result' = result
      /\ \A p : Exports(p)' = Exports(p) /\ ModuleName(p)' = ModuleName(p)
      /\ Resolvable' = Resolvable
      /\ diag' = "none" => diag = "none"
  BY SameProgram
<1>2. SymbolsAreExports' /\ ExportsAreSymbols' /\ NoClashYet'
  BY <1>1 DEF ResInv, SymbolsAreExports, ExportsAreSymbols, NoClashYet
<1>3. DiagIsTrue' /\ OutcomeFits'
  BY <1>1 DEF ResInv, DiagIsTrue, OutcomeFits, HasFile
<1> QED BY <1>2, <1>3

\* A file the main file leads to that cannot be opened or laid out makes the
\* program one that cannot be resolved; otherwise there is a frame for it.
LEMMA OpenKeeps ==
    ASSUME WalkInv, ResInv, NEW p \in Reached, Open(p), result = "none",
           frames # <<>> => AtUse /\ TheUse.valid /\ Target # NoPath
    PROVE  ResInv'
<1>1. disk[p].state # "ok" => ~Resolvable
  BY DEF Resolvable
<1>2. CASE disk[p].state = "ok" /\ frames' = Append(frames, Frame(p))
           /\ UNCHANGED <<disk, stdlib, source_files, symbols, diag, result>>
  <2>1. OnlyReached' /\ PassedAreKnown'
    BY <1>2, PushKnown DEF ResInv
  <2> QED BY <1>2, <2>1, QuietStep DEF ResInv
<1>3. CASE disk[p].state # "ok" /\ diag' # "none"
           /\ UNCHANGED <<disk, stdlib, frames, source_files, symbols, result>>
  <2>1. /\ disk' = disk /\ frames' = frames /\ source_files' = source_files
        /\ Reached' = Reached
        /\ \A q : Known(q)' = Known(q) /\ Uses(q)' = Uses(q)
        /\ \A q, j : KnownUse(q, j)' = KnownUse(q, j)
    BY <1>3, SameProgram, SameDisk
  <2>2. OnlyReached' /\ PassedAreKnown'
    BY <2>1 DEF ResInv, OnlyReached, PassedAreKnown
  <2> QED BY <1>1, <1>3, <2>2, QuietStep DEF ResInv
<1> QED BY <1>2, <1>3 DEF Open, Fail

\* Every step of the walk preserves the invariant.
LEMMA NextRes == WalkInv /\ ReportTypes /\ ResInv /\ [ResolveNext]_vars => ResInv'
<1> SUFFICES ASSUME WalkInv, ReportTypes, ResInv, [ResolveNext]_vars PROVE ResInv'
  OBVIOUS
<1>0. WalkTypes /\ OnlyReached /\ PassedAreKnown
  BY DEF WalkInv, ResInv
<1>1. AtUse => /\ frames # <<>> /\ result = "none"
               /\ Depth \in 1..Len(frames) /\ Top = frames[Depth]
               /\ Top.path \in Reached
               /\ Top.next \in 1..Len(Uses(Top.path))
  <2> SUFFICES ASSUME AtUse
               PROVE  /\ frames # <<>> /\ result = "none"
                      /\ Depth \in 1..Len(frames) /\ Top = frames[Depth]
                      /\ Top.path \in Reached
                      /\ Top.next \in 1..Len(Uses(Top.path))
    OBVIOUS
  <2>1. frames # <<>> /\ result = "none" /\ Top.next <= Len(Uses(Top.path))
    BY DEF AtUse, WalkInv, EndsEmpty
  <2>2. /\ Depth \in 1..Len(frames) /\ Top = frames[Depth]
        /\ Top.path \in Paths /\ Top.next \in Nat \ {0} /\ Len(Uses(Top.path)) \in Nat
    BY <1>0, <2>1, FrameFacts DEF Top, Depth
  <2>3. Top.path \in Reached
    BY <1>0, <2>2 DEF OnlyReached
  <2> QED BY <2>1, <2>2, <2>3
<1>2. ASSUME UNCHANGED <<disk, stdlib, frames, source_files>>
      PROVE  OnlyReached' /\ PassedAreKnown'
  <2>1. /\ disk' = disk /\ frames' = frames /\ source_files' = source_files
        /\ Reached' = Reached
        /\ \A q : Known(q)' = Known(q) /\ Uses(q)' = Uses(q)
        /\ \A q, j : KnownUse(q, j)' = KnownUse(q, j)
    BY <1>2, SameProgram, SameDisk
  <2> QED BY <1>0, <2>1 DEF OnlyReached, PassedAreKnown
<1>3. CASE OpenEntry
  <2>1. Entry \in Reached
    BY <1>0, ReachedIsLeast DEF Closed
  <2> QED BY <1>3, <2>1, OpenKeeps DEF OpenEntry
<1>4. CASE InvalidUse \/ UnknownImport
  <2>1. /\ AtUse /\ diag' # "none"
        /\ UNCHANGED <<disk, stdlib, frames, source_files, symbols, result>>
    BY <1>4 DEF InvalidUse, UnknownImport, Fail
  <2>2. ~Known(Top.path)
    BY <1>1, <1>4, <2>1 DEF InvalidUse, UnknownImport, Known, TheUse, Target
  <2>3. ~Resolvable
    BY <1>1, <2>1, <2>2 DEF Resolvable
  <2> QED BY <1>1, <1>2, <2>1, <2>3, QuietStep DEF ResInv
<1>5. CASE SkipStd \/ ImportAgain
  <2>1. /\ AtUse /\ TheUse.valid /\ NextUse
        /\ Target # NoPath \/ TheUse.name \in StdNames
        /\ UNCHANGED <<disk, stdlib, source_files, symbols, diag, result>>
    BY <1>5 DEF SkipStd, ImportAgain
  <2>2. OnlyReached' /\ PassedAreKnown'
    BY <1>0, <2>1, AdvanceKnown
  <2> QED BY <2>1, <2>2, QuietStep DEF ResInv
<1>6. CASE ImportCycle
  <2>1. /\ AtUse /\ Target # NoPath /\ OnStack(Target) /\ diag' # "none"
        /\ UNCHANGED <<disk, stdlib, frames, source_files, symbols, result>>
    BY <1>6 DEF ImportCycle, Fail
  <2>2. ~Resolvable
    BY <1>0, <2>1, CycleIsTrue DEF Resolvable
  <2> QED BY <1>1, <1>2, <2>1, <2>2, QuietStep DEF ResInv
<1>7. CASE ImportNew
  <2>1. AtUse /\ TheUse.valid /\ Target # NoPath /\ Open(Target)
    BY <1>7 DEF ImportNew
  <2>2. Target \in Reached
    <3>1. Target \in ImportsOf(Top.path)
      BY <1>1, <2>1, FramesImport DEF Depth
    <3> QED BY <1>0, <1>1, <2>1, <3>1, ReachedIsLeast DEF Closed
  <2> QED BY <1>1, <2>1, <2>2, OpenKeeps
<1>8. CASE Finish
  <2>1. OnlyReached' /\ PassedAreKnown'
    BY <1>0, <1>8, FinishKnown
  <2>2. SymbolsAreExports' /\ ExportsAreSymbols' /\ NoClashYet' /\ DiagIsTrue'
    BY <1>8, FinishRecords
  <2>3. OutcomeFits'
    <3>1. frames # <<>> /\ result' = result
      BY <1>8 DEF Finish
    <3>2. result = "none"
      BY <3>1 DEF WalkInv, EndsEmpty
    <3> QED BY <3>1, <3>2 DEF OutcomeFits
  <2> QED BY <2>1, <2>2, <2>3 DEF ResInv
<1>9. CASE Unwind
  <2>1. /\ frames # <<>> /\ frames' = SubSeq(frames, 1, Depth - 1)
        /\ UNCHANGED <<disk, stdlib, source_files, symbols, diag, result>>
    BY <1>9 DEF Unwind
  <2>2. OnlyReached' /\ PassedAreKnown'
    BY <1>0, <2>1, PopKnown
  <2> QED BY <2>1, <2>2, QuietStep DEF ResInv
<1>10. CASE Return
  <2>1. /\ UNCHANGED <<disk, stdlib, frames, source_files, symbols, diag>>
        /\ diag # "none" \/ HasFile(Entry)
        /\ result' = IF diag = "none" THEN "ok" ELSE "failed"
    BY <1>10 DEF Return
  <2>2. OnlyReached' /\ PassedAreKnown'
    BY <1>2, <2>1
  <2>3. OutcomeFits'
    BY <2>1 DEF OutcomeFits, HasFile
  <2>4. /\ source_files' = source_files /\ symbols' = symbols /\ diag' = diag
        /\ \A p : Exports(p)' = Exports(p) /\ ModuleName(p)' = ModuleName(p)
        /\ Resolvable' = Resolvable
    BY <2>1, SameProgram
  <2>5. SymbolsAreExports' /\ ExportsAreSymbols' /\ NoClashYet' /\ DiagIsTrue'
    BY SMTT(20), <2>4 DEF ResInv, SymbolsAreExports, ExportsAreSymbols, NoClashYet, DiagIsTrue
  <2> QED BY <2>2, <2>3, <2>5 DEF ResInv
<1>11. CASE UNCHANGED vars
  <2>1. UNCHANGED <<disk, stdlib, frames, source_files, symbols, diag, result>>
    BY <1>11 DEF vars
  <2> QED BY <1>2, <2>1, QuietStep DEF ResInv
<1> QED BY <1>3, <1>4, <1>5, <1>6, <1>7, <1>8, <1>9, <1>10, <1>11 DEF ResolveNext

\* The walk stops at the first error and still decides exactly whether the
\* program can be resolved: a success means that every file it leads to can
\* be read and is listed, all imports are known and free of cycles and
\* modules of different names export different names; a failure, that one of
\* these is not so (direct_row_resolve_file).
THEOREM WalkDecides == ResolveSpec => []ResolvesExactlyTheResolvable
<1>1. ResolveInit => ReportTypes /\ ResInv
  BY InitRes DEF ResolveInit, ReportTypes
<1>2. WalkInv /\ ReportTypes /\ ResInv /\ [ResolveNext]_vars => ReportTypes' /\ ResInv'
  BY NextReports, NextRes
<1>3. WalkInv /\ ResInv => ResolvesExactlyTheResolvable
  <2> SUFFICES ASSUME WalkInv, ResInv PROVE ResolvesExactlyTheResolvable
    OBVIOUS
  <2>1. result = "failed" => ~Resolvable
    BY DEF ResInv, OutcomeFits, DiagIsTrue
  <2> QED BY <2>1, SuccessIsResolvable DEF ResolvesExactlyTheResolvable
<1> QED BY <1>1, <1>2, <1>3, WalkIsInductive, PTL DEF ResolveSpec
=============================================================================
