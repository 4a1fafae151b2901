---------------------------- MODULE ModuleResolve ----------------------------
(***************************************************************************)
(* Import resolution (main.c, direct_row_resolve_file): the depth-first    *)
(* walk over `use` rows that builds the list of source files compiled      *)
(* together, each after the files it imports.                              *)
(*                                                                         *)
(* The C recursion is an explicit stack of frames; frame i + 1 resolves    *)
(* the import that frame i is at.  `disk` is what the walk finds on the    *)
(* file system, chosen freely at the start.  The report data (imports,     *)
(* import edges, source lines) is left out, and so is the combined source: *)
(* it is the text of source_files in order, and is dropped on an error.    *)
(***************************************************************************)
EXTENDS Naturals, Sequences, FiniteSets, SequencesExt

CONSTANTS
    Paths,       \* the path strings the walk can form
    Names,       \* the module names a `use` can name
    StdNames,    \* those that start with "std."
    Symbols,     \* the names of declarations
    Entry,       \* the path of the main source file
    RootOf,      \* the root a path is found under
    Candidates,  \* Candidates[r][n]: where name n may be under root r
    Dotted,      \* the module name of a path relative to its root
    Base,        \* the module name of a path when only its last part counts
    FileOf,      \* the file a path leads to: "main.0" is "./main.0"
    Disks        \* the contents of the file system considered

Roots == {"src", "std"}
NoPath == "none"

Use == [valid : BOOLEAN, name : Names]
Decl == [name : Symbols, public : BOOLEAN]

\* unreadable: it can be opened but not read; bad: the tokenizer or the
\* layout parser rejects it.
File == [state : {"absent", "unreadable", "bad", "ok"},
         uses : Seq(Use), decls : Seq(Decl)]

ASSUME ResolveAssumption ==
    /\ Entry \in Paths
    /\ NoPath \notin Paths
    /\ StdNames \subseteq Names
    /\ RootOf \in [Paths -> Roots]
    /\ \A r \in Roots, n \in Names :
          Candidates[r][n] \in Seq({p \in Paths : RootOf[p] = r})
    /\ Dotted \in [Paths -> STRING] /\ Base \in [Paths -> STRING]
    /\ Disks \subseteq [Paths -> File]

VARIABLES
    disk,          \* the file system; it does not change during the walk
    stdlib,        \* direct_find_stdlib_root found a standard library
    frames,        \* the stack, each with the index of its next `use`
    source_files,  \* the files resolved, in order
    symbols,       \* the declarations seen: module, name, public
    diag,          \* the diagnostic, "none" if there is none
    chain,         \* the cycle chain of the import-cycle diagnostic
    result         \* what resolve_direct_row_source_at_root returned

vars == <<disk, stdlib, frames, source_files, symbols, diag, chain, result>>

-----------------------------------------------------------------------------
\* Where a `use` in a file at path p is looked for.
ResolveRoot(p, n) == IF stdlib /\ n \in StdNames THEN "std" ELSE RootOf[p]

\* direct_row_module_path: the first candidate that exists: x.0, x/mod.0,
\* x.row, x/mod.row.
Locate(p, n) ==
    LET c == Candidates[ResolveRoot(p, n)][n]
        Exists(q) == disk[q].state # "absent"
        k == SelectInSeq(c, Exists)
    IN  IF k = 0 THEN NoPath ELSE c[k]

\* direct_row_module_name_from_path.  With a standard library around, the
\* name of every other file is taken relative to that library, where it is
\* not: only the last part of the path is left.
ModuleName(p) == IF stdlib /\ RootOf[p] = "src" THEN Base[p] ELSE Dotted[p]

Depth == Len(frames)
Top == frames[Depth]
Uses(p) == disk[p].uses

\* Mutant of Frame: the index counts from zero.
FrameFromZero(p) == [path |-> p, next |-> 0]

Frame(p) == [path |-> p, next |-> 1]
OnStack(p) == \E i \in 1..Depth : frames[i].path = p

\* Mutant of HasFile: a file is read once for each import of it.
NeverHasFile(p) == FALSE

HasFile(p) == \E i \in 1..Len(source_files) : source_files[i] = p

ResolveInit ==
    /\ disk \in Disks /\ stdlib \in BOOLEAN
    /\ frames = <<>> /\ source_files = <<>> /\ symbols = <<>>
    /\ diag = "none" /\ chain = <<>> /\ result = "none"

Fail(code) == /\ diag' = code
              /\ UNCHANGED <<disk, stdlib, frames, source_files, symbols, result>>

\* The start of direct_row_resolve_file for a file that was not resolved
\* yet: read it, push it, tokenize it and lay it out.
Open(p) ==
    /\ UNCHANGED chain
    /\ \/ disk[p].state \in {"absent", "unreadable"} /\ Fail("read")
       \/ disk[p].state = "bad" /\ Fail("syntax")
       \/ /\ disk[p].state = "ok"
          /\ frames' = Append(frames, Frame(p))
          /\ UNCHANGED <<disk, stdlib, source_files, symbols, diag, result>>

OpenEntry == /\ result = "none" /\ diag = "none"
             /\ frames = <<>> /\ ~HasFile(Entry)
             /\ Open(Entry)

\* Mutant of AtUse: the last `use` is left out.
AtUseOffByOne == diag = "none" /\ frames # <<>> /\ Top.next < Len(Uses(Top.path))

\* The loop over the rows of the top frame's file has come to a `use`.
AtUse == diag = "none" /\ frames # <<>> /\ Top.next <= Len(Uses(Top.path))
TheUse == Uses(Top.path)[Top.next]
Target == Locate(Top.path, TheUse.name)

NextUse == frames' = [frames EXCEPT ![Depth].next = @ + 1]

\* direct_row_validate_use
InvalidUse == /\ AtUse /\ ~TheUse.valid
              /\ Fail("use") /\ UNCHANGED chain

\* Mutant of SkipStd: the loop does not move on.
SkipStdStuck == /\ AtUse /\ TheUse.valid /\ Target = NoPath
                /\ TheUse.name \in StdNames
                /\ UNCHANGED vars

\* A std module without a source file is built in.
SkipStd == /\ AtUse /\ TheUse.valid /\ Target = NoPath
           /\ TheUse.name \in StdNames
           /\ NextUse
           /\ UNCHANGED <<disk, stdlib, source_files, symbols, diag, chain, result>>

\* Mutant of UnknownImport: any unknown import is passed over.
IgnoreUnknown == /\ AtUse /\ TheUse.valid /\ Target = NoPath
                 /\ NextUse
                 /\ UNCHANGED <<disk, stdlib, source_files, symbols, diag, chain, result>>

UnknownImport == /\ AtUse /\ TheUse.valid /\ Target = NoPath
                 /\ TheUse.name \notin StdNames
                 /\ Fail("IMP001") /\ UNCHANGED chain

\* Mutant of CycleChain: the chain starts at the bottom of the stack.
WholeChain(p) == [i \in 1..(Depth + 1) |-> IF i > Depth THEN p ELSE frames[i].path]

\* direct_row_format_cycle_chain: the stack from the first occurrence of p,
\* then p again.
CycleChain(p) ==
    LET At(f) == f.path = p
        k == SelectInSeq(frames, At)
    IN  [i \in 1..(Depth - k + 2) |->
            IF k + i - 1 > Depth THEN p ELSE frames[k + i - 1].path]

ImportCycle == /\ AtUse /\ TheUse.valid /\ Target # NoPath /\ OnStack(Target)
               /\ chain' = CycleChain(Target)
               /\ Fail("IMP002")

\* The import was resolved before: direct_row_resolve_file returns at once.
ImportAgain == /\ AtUse /\ TheUse.valid /\ Target # NoPath
               /\ ~OnStack(Target) /\ HasFile(Target)
               /\ NextUse
               /\ UNCHANGED <<disk, stdlib, source_files, symbols, diag, chain, result>>

ImportNew == /\ AtUse /\ TheUse.valid /\ Target # NoPath
             /\ ~OnStack(Target) /\ ~HasFile(Target)
             /\ Open(Target)

\* direct_input_push_symbol: a public declaration clashes with a public one
\* of the same name that came from a module of another name.
Clashes(d, mod) ==
    /\ d.public
    /\ \E i \in 1..Len(symbols) : /\ symbols[i].public
                                  /\ symbols[i].name = d.name
                                  /\ symbols[i].module # mod

\* direct_input_add_row_symbols, up to the first clash.
Declared(ds, mod) == [i \in 1..Len(ds) |-> [module |-> mod, name |-> ds[i].name,
                                            public |-> ds[i].public]]

\* All imports of the top frame are resolved: its file joins the list, its
\* declarations are recorded, and the frame returns to its importer.
Finish ==
    /\ diag = "none" /\ frames # <<>> /\ ~AtUse
    /\ LET p == Top.path
           ds == disk[p].decls
           Bad(d) == Clashes(d, ModuleName(p))
           k == SelectInSeq(ds, Bad)
           rest == SubSeq(frames, 1, Depth - 1)
       IN  /\ source_files' = Append(source_files, p)
           /\ symbols' = symbols \o Declared(IF k = 0 THEN ds ELSE SubSeq(ds, 1, k - 1),
                                             ModuleName(p))
           /\ diag' = IF k = 0 THEN "none" ELSE "IMP003"
           /\ frames' = IF k = 0 /\ rest # <<>>
                        THEN [rest EXCEPT ![Depth - 1].next = @ + 1] ELSE rest
    /\ UNCHANGED <<disk, stdlib, chain, result>>

\* An error leaves the frames one by one.
Unwind == /\ diag # "none" /\ frames # <<>>
          /\ frames' = SubSeq(frames, 1, Depth - 1)
          /\ UNCHANGED <<disk, stdlib, source_files, symbols, diag, chain, result>>

Return == /\ result = "none" /\ frames = <<>>
          /\ diag # "none" \/ HasFile(Entry)
          /\ result' = IF diag = "none" THEN "ok" ELSE "failed"
          /\ UNCHANGED <<disk, stdlib, frames, source_files, symbols, diag, chain>>

ResolveNext ==
    \/ OpenEntry \/ InvalidUse \/ SkipStd \/ UnknownImport
    \/ ImportCycle \/ ImportAgain \/ ImportNew
    \/ Finish \/ Unwind \/ Return

\* A sequential program: it takes its next step as long as there is one.
ResolveSpec == ResolveInit /\ [][ResolveNext]_vars /\ WF_vars(ResolveNext)

-----------------------------------------------------------------------------
\* The type invariant of the walk.
ResolveTypeOK ==
    /\ disk \in [Paths -> File] /\ stdlib \in BOOLEAN
    /\ frames \in Seq([path : Paths, next : Nat \ {0}])
    /\ source_files \in Seq(Paths)
    /\ symbols \in Seq([module : STRING, name : Symbols, public : BOOLEAN])
    /\ diag \in {"none", "read", "syntax", "use", "IMP001", "IMP002", "IMP003"}
    /\ chain \in Seq(Paths)
    /\ result \in {"none", "ok", "failed"}

\* What the imports of p lead to, under the contents of the disk.
ImportsOf(p) ==
    {Locate(p, Uses(p)[i].name) : i \in 1..Len(Uses(p))} \ {NoPath}

\* Every file in source_files comes after all the files it imports, so the
\* combined source never uses a declaration of a file that is still to come
\* and no import of a listed file is missing.
DependenciesFirst ==
    \A i \in 1..Len(source_files) :
        \A q \in ImportsOf(source_files[i]) :
            \E j \in 1..(i - 1) : source_files[j] = q

\* The walk implements the promise of ImportOrder.
Order == INSTANCE ImportOrder WITH
    deps <- [p \in Paths |-> ImportsOf(p)],
    listed <- ToSet(source_files),
    outcome <- result

ImplementsImportOrder == Order!OrderSpec

\* No file is listed twice, however many files import it, and no path is on
\* the stack twice or still on the stack once it is listed.
EachFileOnce ==
    LET all == source_files \o [i \in 1..Depth |-> frames[i].path]
    IN  \A i, j \in 1..Len(all) : i # j => all[i] # all[j]

\* An import-cycle diagnostic names a real cycle: each path of the chain
\* imports the next and the last is the first.
CycleDiagNamesACycle ==
    diag = "IMP002" =>
        /\ Len(chain) >= 2 /\ chain[1] = chain[Len(chain)]
        /\ \A i \in 1..(Len(chain) - 1) : chain[i + 1] \in ImportsOf(chain[i])

\* The files the main file leads to: the least set that has it and all that
\* the files of the set import.
Closed(files) == Entry \in files /\ \A p \in files : ImportsOf(p) \subseteq files
Reached == {p \in Paths : \A files \in SUBSET Paths : Closed(files) => p \in files}

\* The imports among some files have no cycle: of any of the files, one
\* imports none of them.
Acyclic(files) ==
    \A some \in SUBSET files : some # {} => \E p \in some : ImportsOf(p) \cap some = {}

Known(p) == \A i \in 1..Len(Uses(p)) :
               /\ Uses(p)[i].valid
               /\ \/ Locate(p, Uses(p)[i].name) # NoPath
                  \/ Uses(p)[i].name \in StdNames
Exports(p) == {disk[p].decls[i].name :
                  i \in {k \in 1..Len(disk[p].decls) : disk[p].decls[k].public}}

\* What it takes for a program to be resolvable.
Resolvable ==
    /\ \A p \in Reached : disk[p].state = "ok" /\ Known(p)
    /\ Acyclic(Reached)
    /\ \A p, q \in Reached : ModuleName(p) # ModuleName(q) => Exports(p) \cap Exports(q) = {}

\* The walk, which stops at the first error, succeeds exactly for the
\* programs where every reachable file can be read and laid out, every
\* import is known, the imports are acyclic and the public names of modules
\* with different names are distinct.
ResolvesExactlyTheResolvable ==
    /\ result = "ok" => Resolvable /\ ToSet(source_files) = Reached
    /\ result = "failed" => ~Resolvable

\* The walk ends, whatever the files import.
ResolveEnds == <>(result # "none")

\* docs/articles/language-reference.md: "Unknown imports, direct import
\* cycles, bad manifests, and duplicate public exports are reported before
\* parsing the combined package source."  A program that was resolved has
\* no public name exported by two files.
NoDuplicateExports ==
    result = "ok" =>
        \A i, j \in 1..Len(source_files) :
            \A d \in ToSet(disk[source_files[i]].decls), e \in ToSet(disk[source_files[j]].decls) :
                i # j /\ d.public /\ e.public => d.name # e.name
=============================================================================
