# A TLA+ model of the Zerox compiler

This directory specifies the native Zerox compiler, `src/native/zerox-c`, in TLA+. It holds
the modules, the TLC configurations that check them on small instances, and proofs that TLAPS
checks for every value of the constants. `PROJECT.json` maps each definition to the lines it
models and lists the runs, theorems, hazards and findings.

    tlc -workers 2 -config MCDriver.cfg MCCompilerDriver      # one run
    tlapm PackageDepsProofs.tla                               # one proof module

## 1. The system

`zerox` is a batch compiler. `main()` parses the command line, resolves the input file and all
it imports into one combined source, parses and checks it, and then reports, or lowers it to
an IR and writes an object, a direct executable, or an executable linked with runtime objects
that the host's C compiler builds. Optionally an external process, "the AI", steers the
compilation through a control file that is read at hooks between the phases.

| Component | State it keeps | Operations | Talks to | Hard behaviour |
|---|---|---|---|---|
| AI control channel (`ai_control.c`) | `ZAIControlState`: whitelist, override strings, flags; control and status files | init, destroy, parse, apply, feedback, hook loop | the AI through two files; called by `main()` | the AI writes at any moment; ownership of strings over command sequences; limits |
| Driver (`main()` in `main.c`) | command, target, profile, IR, output and temporary files | phases, hooks, selection of the artifact path, exits | every other component | overrides used after they change; partial failure; exit code against files on disk |
| Import resolution (`main.c`) | file list, stack of paths, symbol table, diagnostic | `direct_row_resolve_file` and helpers | file system, lexer, layout parser | recursion over an arbitrary graph; cycles; order; first error stops all |
| Targets and backends (`target.c`, `target_backend.c`) | target table | lookup by name or alias, backend rules | driver | an override naming another target |
| Runtime link (`main.c`, `fs.c`) | temporary sources, headers, directories and objects | compile runtime, crypto, http; link; remove | C compiler, file system, other compilations of the same output | any step may fail or be the last; temporary names derive from the output |
| File writing (`fs.c`) | files | write in place | all writers | short writes, unnoticed loss in `fclose` |
| Package dependencies (`fs.c`) | dependency list, manifest stack | recursive walk of manifests, lockfile | file system | version conflicts, cycles, order dependence |
| Cache markers (`main.c`) | marker files | touch | reports only | none: nothing is reused because of a marker |
| Lexer and layout (`row_syntax.c`) | tokens, indentation stack | tokenize, lay out, format | | indentation edges |
| Checker (`checker.c`), type core, unify | scopes, types, provenance of references | check | | borrows over branches, loops and block ends; recursion of generic calls |
| Specialization (`specialize.c`, `ir.c`) | plan, function table | collect, push, look up | checker, lowering | a worklist that grows while it is walked; mangled names that meet |
| IR lowering, MIR verifier (`ir.c`, `mir_verify.c`) | functions, locals, frames; dataflow state | lower, lay out, verify | emitters | sizes that wrap; state over nested branches and loops |
| Emitters (`emit_*.c`, `*_format.c`) | code and data buffers, patch lists | emit | | patches applied after layout, overflow of displacements |
| Runtime (`runtime/`) | of the compiled program | I/O, HTTP, crypto | | short writes, limits |

The program is sequential: there are no threads. Concurrency comes from the AI process, from
other compilers that use the same files, and from the file system failing at any step.

What makes each component correct:

* **AI control.** Every override string is owned by exactly one pointer or was freed exactly
  once. A hook answers lines in the order they were written, and once a hook has emptied the
  control file, nothing answered before is answered again. A hook ends whatever the AI does.
* **Driver.** Code is emitted only from a valid program. Success means that the artifact was
  written by this compilation. No pointer to an override string in `ZAIControlState` dangles; the
  alias `command.profile` may (section 3). A compilation ends.
* **Runtime link.** What is linked was compiled from this compiler's own sources, whatever a
  compilation that was killed has left. What was left does not make a compilation fail, and is
  gone after one that succeeds.
* **Import resolution.** Each file once, after all it imports; a cycle is reported and the
  report names a cycle; the walk succeeds for exactly the programs that can be resolved.
* **Package dependencies.** The list of dependencies is the dependency graph: everything a
  manifest on a path from the package declares, and nothing else. Names have one version. A
  diagnostic has its cause in the graph, and a shared package is not a cycle.
* **Borrow tracking.** However an accepted body runs, as far as it leaves no loop by a jump, no
  live reference refers to a binding that is gone; a mutable reference overlaps no other, unless
  one of the two was made from a reference; and a value is neither assigned directly while a
  reference refers to it nor, if that is mutable, read. Refusals have a cause.
* **Specialization.** Every generic call of an accepted program is compiled to the instance of
  its own callee and type arguments, although names of instances may meet; a program is refused
  for a reason of its own; a program whose types grow without end is refused.
* **Frames and MIR.** In an accepted frame every array has room for its elements and no local
  shares a byte with another. A store stays in its local, and a `Maybe` buffer that is written
  may be written.
* **Backends.** A target that is found is one of the table, whatever name it was found by.

## 2. Modules

| Module | Models | Content |
|---|---|---|
| `AIControl` | `ai_control.c` with the AI writing the control file | state machine and properties |
| `Backends` | `z_find_target`, the direct backend rules | pure operators |
| `CompilerDriver` | `main()`; extends `AIControl` and `Backends` | state machine composed with the channel |
| `CompilerDriverProofs` | | proofs about the channel alone, and about the driver with it |
| `ModuleResolve` | `direct_row_resolve_file` and helpers | state machine and properties |
| `ImportOrder` | the promise of import resolution | abstract specification |
| `ModuleResolveProofs` | | proofs about `ModuleResolve`, the refinement included |
| `PackageDeps` | `resolve_manifest_dependencies`, the lockfile, the target check | state machine and properties |
| `PackageDepsProofs` | | proofs about `PackageDeps` |
| `Borrows` | the borrow and move tracking of `checker.c`, beside an execution of the checked body | state machine and properties |
| `BorrowsProofs` | | proofs about `Borrows` |
| `Specialize` | the recursion check of generic calls, `specialize.c`, the worklist and lookup in `ir.c` | state machine and properties |
| `SpecializeProofs` | | proofs about `Specialize` |
| `MirVerify` | the layout of a frame (`ir.c`), `mir_verify.c`, and the accepted function running | state machine and properties |
| `MirVerifyProofs` | | proofs about `MirVerify` |
| `RuntimeLink` | the files of the runtime link, several compilations of one output | state machine and properties |
| `RuntimeLinkProofs` | | proofs about `RuntimeLink` |
| `SeqLemmas` | | lemmas about the least number of a set, finite ranges and concatenation, for the proof modules |
| `MC*` | | constants and inputs of the runs |

Definitions marked "Mutant of" are altered forms of the definition after them, kept so that
each property can be shown to depend on the code it is about; nothing uses them.

### AIControl

`controlFile` is the file, as a sequence of lines each numbered by its position in the history
of writes; `hook` is the place in `z_ai_process_commands`; `buf`, `pos` and `processed` are the
locals of its loop; `ctl` is `ZAIControlState`; `status` is the status file. The steps are those
the AI can interleave with: `StartHook`, `ReadControl` (open, read, close), `ClearControl` (the
second open, which truncates, or fails without notice), one `ProcessLine` per turn of the loop,
`EndHook`. `AIWrite` appends a line at any time, also while a hook runs.

A line is what the parser can tell apart: the form of its key, the command, the arguments.
`ai_json_string_value` looks for the bare word followed by a colon, and both of its searches run
to the end of the buffer; `ParseCommand` says just that. The last line of a full buffer is cut
anywhere: in its command, before its arguments, between two of them or inside one (`CutArgs`,
with `CutText` for what is left of that one). The override strings are cells of a heap that counts
the calls of `free()` on each; a pointer is a cell number. `written`, `emptied`, `failures`,
`lost` and the `line` of an event are history: the last two are read by properties only, the
first and third bound the behaviours.

### CompilerDriver

`pc` is the place in `main()`. The hooks are those of `AIControl`: `EnterHook` starts one,
`InHook` takes its steps, `LeaveHook` goes on or leaves with `AI_RETURN`. The compiled program
is a record of the facts `main()` branches on. Every phase that may fail does so by choice.
Exits distinguish `return` from `AI_RETURN`, which frees the overrides. `artifact` is the output
file: it may exist before, and a write leaves it as it was, partial, truncated by an unnoticed
`fclose`, or complete. `emitted` is history. The temporary files of a runtime link are in `RuntimeLink`; here each of its steps succeeds or fails.

### ModuleResolve and ImportOrder

The recursion of `direct_row_resolve_file` is a stack of frames, a path and the index of the
`use` the loop is at; the path stack of the code is the paths of the frames. Each way through
the loop body is an action: `InvalidUse`, `SkipStd`, `UnknownImport`, `ImportCycle`,
`ImportAgain`, `ImportNew`; `Finish` is the end of the function with the symbol check and the
return to the importer; `Unwind` is an error leaving a frame. The file system is a constant of
a behaviour, chosen from `Disks` at the start. The order in which candidates are tried, which
root an import is looked for under and how a module name is computed are as in the code.

`ImportOrder` knows nothing of stacks: files are listed one at a time, once each, only when all
files they import are listed, and the walk succeeds only with the main file listed. `listed` is
refined by the members of `source_files`, `outcome` by the result.

### PackageDeps

The same shape as `ModuleResolve`, on manifests: a frame is a manifest, the index of the
dependency the loop is at and, as history, the entry it was pushed for. The actions are the ways
through the loop body of `resolve_manifest_dependencies`: `RegistryReference`, `ManifestMissing`
(PKG001), `DependencyCycle` (PKG002), `ManifestUnusable`, `VersionsClash` (PKG003), `Descend`;
`Leave` is the end of a call and `Unwind` an error leaving it. `Load` and `FindSource` are what
`resolve_direct_row_package_source` does before and after the walk, `WriteLock` the lockfile,
`CheckTargets` the check `main()` makes of the list (PKG004). Unlike a source file, a manifest
that several others depend on is walked once for each of them, so `entries` may have it more
than once.

Two edges of the code are kept. The package's own manifest is on the stack under the path as it
was given, while dependencies are normalized: a cycle through the package may go round once more
before it is found. And a manifest may give the empty name, which no version check looks at.

### Borrows

The checker walks a function body once. Here the body is chosen while it is walked: each
statement is an action (`LetShape`, `LetRef`, `SetValue`, `SetRef`, `Read`, `MoveAway`,
`ReturnRef`, ...) that the checker accepts with its changes to `scopes`, or refuses. `scopes` is
the chain of `Scope`s, each with its bindings and the provenance entries of its references;
`blocks` are the `if`, `match` and `while` statements being checked with their snapshots.
`Open`, `NextArm` and `EndBlock` capture, restore and join these as `check_stmt` does; the
flags of moved bindings are no part of them, as in the code.

A name may be bound again in an inner scope, to a thing of any kind, as the checker lets it:
only a second binding in one scope is refused (`Fresh`). A reference that shadows the very value
it is made from is registered as borrowing itself (`LetProvenance`), since the initializer is
looked up after the binding is there. No statement can then name the outer value until the inner
scope ends, and `ReferencesCovered` speaks of such hidden places separately (`Hidden`). The
checker refuses more of such a reference than of another, so `RefusalsHaveCause` is about
assignments to values.

Beside the walk goes an execution of what was accepted (`held`, `returned`): at a branch
it takes one arm and waits while the checker is at the others, a loop body it enters at most
once. The properties relate what the checker believes with what the execution holds. A `for`
statement is, to the tracking, a loop with an unknown condition.

### Specialize

First `Check`: the walk of recursive generic calls from each generic function as origin. Then
`ClonePlain` copies the plain functions into the table, `CollectCall` and `NextFunction` are the
worklist loop of `ir_lower_direct_backend_subset` over a table that `Push` makes longer, and
`Lower` looks each generic call up by its name. That name is a flat sequence of characters, the
generic's name, two underscores and the mangled type (`SpecializedName`), so two types of one
generic may share it (`f<W<A>>` and `f<W_A_>`), two generics (`g<A__A>` and `g__A<A>`), or an
instance and a plain function. `Mangled` is a constant: what a type's text becomes when all but
letters, digits and underscores turn into underscores is left open. A generic has one type
parameter. Calls in the default expressions of shape fields, which are lowered but not collected,
are not modelled.
`moved` and `StaleRead` are about the pointer into the table that the loop holds while the
vector grows: what is read through it afterwards is undefined, and the outcomes taken are the old
body, a body that ends early, and a crash.

### MirVerify

`LayLocal` gives a local its size and its end in the frame, with the width of `unsigned` (`Word`
values); `CheckLocal` is a round of the loop of `mir_verify_direct_function_contract`. The code of
a function is flat, a tree in the source: `CheckInstr`, `CheckElse`, `CheckEndIf` and
`CheckEndLoop` are the recursion of `mir_verify_direct_instrs` with its clones of the state on
the stack `nest`. The state is the set of locals known to hold bytes that may be written. When
the function is accepted it runs (`Run*`), each condition either way. `again` notes that a
loop's condition is evaluated after its body: the verifier looks at it only in the state before
the loop, so a buffer that the body replaced may be used there, and `UsesAreWritable` leaves
that one evaluation out. The buffers are `Maybe` locals, the ones whose state the verifier
tracks; byte views and `u8` arrays (mir_verify.c:404-421), which are judged by their type alone,
are not in it. The size of a record is an input of the frame, so `FrameSound` says of a record
only that it overlaps nothing; that a local has room for what it holds is said of arrays.

### RuntimeLink

A compilation writes the program's object, then for each runtime object makes the include
directory, writes the header and the source (and `zerox_crypto.h`), runs the C compiler and
removes its inputs; then it links and removes the objects. Each of these is a step, each may
fail, and `Kill` may end a compilation in any of them and leave the file it was writing in part.
`disk` says of each file who wrote it and whether it is whole. `course` is history: whether a
step of the compilation failed, a write failed unnoticed, or another compilation ran at the same
time. Compilations of different outputs share no file, so one output is modelled. That
`remove()` of a compilation's own file works and that the C compiler ends with the compiler
that waits for it are assumed. A C compiler given the texts of the same version of the compiler
makes a sound object or fails; given others it may do anything its exit status allows.

## 3. Runs

| Run | Result | Question |
|---|---|---|
| `MCAIAtomic` | violated | "read and cleared atomically" |
| `MCDriver` | passes, 698k states | ownership and order of answers at the hooks of `main()`, also when the control file cannot be emptied; its safety on every command and artifact path; a compilation ends |
| `MCResolve` | passes, 145k states | the walk over all small import graphs and faulty files; it ends; refinement of `ImportOrder` |
| `MCResolveTwins` | violated | duplicate public exports are reported |
| `MCPackages` | passes, 379k states | the list is the graph, versions, true diagnostics; the walk ends |
| `MCBorrows` | passes, 747k states | accepted bodies have no dangling, overlapping or ignored reference; refusals have a cause |
| `MCBorrowsFlow` | violated | references "merged through control flow" are tracked, around a loop |
| `MCBorrowsJump` | violated | "borrows cannot outlive their source", after `break` |
| `MCSpecialize` | passes, 174k states | each call finds its own instance, none is missed, refusals are true, recursion is bounded |
| `MCSpecializeStale` | violated | what is called is emitted |
| `MCMirVerify` | passes, 256k states | accepted frames and stores are sound, laid out frames accepted, writes go to writable bytes; the verifier ends |
| `MCRuntimeLink` | passes, 3.0M states | leftovers of killed compilations are neither linked nor in the way, and go |

### Bounds

* `MaxWrites` (AI lines per behaviour): 2 in `MCDriver`, among lines of every kind. Two lines set
  and reset or replace an override, and `main()` then uses or releases what they leave; the
  ownership and order properties relate at most two lines and the state before them.
* `MaxFailures` (how often the control file cannot be emptied): 1 in `MCDriver`. Its lines then
  meet a second hook, which empties the file or finds new lines behind the old.
* `MaxPerHook` is 16 in the code and 1 in `MCDriver`, so that a hook meets the limit and leaves a
  line in its buffer. The buffer has 4095 bytes; it holds no or one whole line here (`BufLines`),
  and the next one is cut. `CutText` is the beginning of a target's name and names no target. `MaxFeedback` is 4 for 64. The proofs are for all values.
* Jobs: every command, and for build, run and ship every path through the selection, with
  and without each runtime object, on hosts and targets with and without a backend.
* Import graphs: the main file and one module with up to two imports among all names (the main
  file itself included), another module with one, a std module present or absent. This has self
  imports, two- and three-file cycles, diamonds, repeated imports and the main file under both
  of its names. `FaultDisks` adds files that cannot be read or laid out, malformed `use` rows,
  `mod.0` files and std modules that import.
* Dependency graphs (`GraphDisks`): the package with up to two dependencies, two others with up
  to one, each on a package, the package itself or the registry, with and without a version;
  two packages may go by one name. This has self dependencies, two- and three-package cycles,
  shared packages, and the package under both of its paths. `FaultDisks` adds missing,
  unreadable and malformed manifests, a package with two dependencies below the top, targets;
  `NamelessDisks` absent and empty names.

* Bodies (`MCBorrows`): all of up to five to seven statements over five alphabets, each small
  enough to be exhausted: branches and loops over a shape and two references; fields, and
  references made from references; matches, known conditions and returned references; owned
  values in branches and loops; two names that are values and references in turn and shadow
  each other in branches. Blocks nest two deep (`MaxDepth`), a match has two arms
  (`MaxArms`); a join relates two snapshots, an inner block one outer scope.
* Programs (`MCSpecialize`): a plain function and up to three generic ones with up to two calls
  each, types wrapped up to twice, two types that mangle alike, two generics of which one instance
  each has the same name, and a plain function with the name of an instance; limits of 3 and 12
  and a vector that grows at 4, so that the limit, the growth and each of these collisions are
  met. The code's limits are larger; the proofs are for all.
* Frames (`MCMirVerify`): an unsigned integer has 16 values and a plain local two bytes, so that
  the product of an array and the sum of a frame both wrap with three locals; all codes of up to
  seven instructions over one byte buffer, six with conditions that use it, four over two: a
  loop in a loop, in a branch, and a branch in a loop, each with an instruction before and after.
* Compilations (`MCRuntimeLink`): two of different versions that may overlap, one after them that
  needs all runtime objects. What an earlier one leaves is met by a later one, and by one that
  overlapped it.

No run checks deadlock: a compilation ends, and so does each behaviour here. That it does not
end early is what `Terminates`, `ResolveEnds` and `PackagesEnd` show.

### Fairness

The compiler is a sequential process that keeps running, so its own steps (`HookStep`,
`DriverStep`, `ResolveNext`, `PkgNext`, `Next` of `Specialize`, `Lowering \/ Verifier` of
`MirVerify`) are weakly fair. A compiled function may run for ever, so `Run` is not; nor are the
compilations of `RuntimeLink`, which may be killed. The AI is under no obligation: `AIWrite` has no
fairness, and the liveness properties hold for every way it may write. A C compiler or a started
program that never returns is out of scope: each is one step that ends.

### What the violated runs show

1. `MCAIAtomic`: a line written between the read and the truncation is lost unread, although
   docs/ai-control.md calls the two atomic.
2. `MCResolveTwins`: with a standard library in the tree, module names of user files shrink to
   their base names and the duplicate-export check misses clashes between equal base names.
3. `MCBorrowsFlow`: the body of a loop is checked once, from the state before the loop. With `r`
   referring to `x` before it, a body that assigns `y` and then lets `r` refer to `y` is
   accepted, and in the second round assigns `y` under the reference.
4. `MCBorrowsJump`: `break` and `continue` change nothing the checker knows, and the state in which
   a loop is left is not among those joined at its end. With `r` referring to `x`, a loop that
   lets `r` refer to `y` of an inner block, breaks, and would then let `r` refer to `x` again leaves
   `r` recorded as a reference to `x` only. It may then be stored in a reference that outlives `y`.
5. `MCSpecializeStale`: the worklist reads a body through a pointer into a vector that grows
   meanwhile. Of the undefined outcomes one is that the rest of the body is passed over, and its
   generic calls then have no specialization.

The models show further divergences for which no run is kept. `set-param` with the key `target`
or `emit` (ai_control.c:411-419) has the effect of `set-target` and `set-emit-kind`, which
ai-control.md counts among the commands that need an opt-in; of these commands the whitelist
stops the name only, and nothing in the compiler can extend it (`Setter`, `DefaultAllowed`). If the
control file cannot be emptied, its lines are applied and answered again by each later hook until
one empties it (`ClearControl`). A `reset`, or another profile, at a hook after the first frees
the string that `command.profile` still refers to, and the reports of the build and the cache key
read it (`ApplyOverrides`, `Reset`). Whether a value was moved is not in the snapshots of the
borrow tracking, so a value that one arm of a branch moves and the next one assigns counts as
live after both, and one that is moved in a loop body is moved again in the next round; the
single ownership of memory.md:129 does not hold there (`WithMoved`, `Restored`). The key parser of the control
file only matches an unquoted key, so the documented JSON form is never accepted (`HasKey`). A
line without a command takes the command of a later line (`ParseCommand`). A profile set after
the resolve hook is reported as applied and has no effect (`ApplyOverrides`); a target set there
comes after the check that `run` is for the host (main.c:9406), so `run` may start a program
for another target (`Admitted`, `ApplyOverrides`). A registry reference is listed without any
comparison, so one name may be listed in two versions, which package-manifest.md gives as
PKG003 (`RegistryReference`); in the other order it is reported. A dependency that lists only the
host passes for any selected target (`TargetCompatible`).

## 4. Proofs

All theorems are for arbitrary constants under the named assumptions `AIControlAssumption`,
`DriverAssumption`, `ResolveAssumption`, `PackageAssumption`, `BorrowsAssumption`,
`SpecializeAssumption`, `MirAssumption` and `RuntimeLinkAssumption`, which TLC evaluates in the
runs of their modules. They say of what type the inputs are, that limits are positive and that
names of functions are distinct and finitely many. `MirAssumption` asks one thing more, that codes
are `WellNested`: branches and loops end, a branch has one `else`. The source keeps a code as a
tree, which is flat here.

Every invariant a passing run checks has a theorem. What follows is, for each module, the
argument: what has to be added to the property before it is inductive.

* `CompilerDriverProofs`, the channel: `TypeCorrect`, `OverridesAreOwned`, `AnswersAreInOrder`.
  `OverridesOwned` is not inductive without the types of the pointers; the conjunction `Good(ctl)`
  is, and the lemmas about `SetOverride`, `Reset` and `Count` show that each update keeps it.
  Together with the types of the queue and of the status file this is `IInv`. Order needs more
  (`OrderInv`): lines are in the file and in the buffer in the order of their numbers (`Numbered`);
  answers and emptyings were made by hooks up to the present one (`Ranked`); a line that is in the
  file, or still in the buffer, although it or a newer one was answered, was not there when a hook
  since then emptied the file, because none did (`FileFresh`, `BufferFresh`); and what is in the
  file this hook has emptied was written after all it has in its buffer (`EmptiedByThis`). A hook
  that fails to empty the file keeps all of it.
* `CompilerDriverProofs`, the driver: `MainDrivesChannel` shows that until `main()` returns,
  each of its steps is a step of the channel or leaves the channel alone: hooks are entered at
  most once, in the order of the phases (`HookOrder`), and never while another runs.
  `OwnedInDriver` and `AnswersInOrderInDriver` state the channel's properties of the composed
  system, after its exits too. `EmitsValidMirOnly` and `SuccessIsWritten` rest on `DriverInv`. A
  hook may return to several places, so the place in `main()` is taken to be the one the hook was
  entered at (`Place`); which places a command gets to is `PlaceOK`, what was emitted by each place
  and from what `EmissionOK`, and what a finished compilation left `SuccessMeansArtifact`.
* `ModuleResolveProofs`: `ImportsComeFirst`, `FilesAreReadOnce`, `WalkImplementsOrder`,
  `WalkTypeCorrect`. `WalkInv` adds to `DependenciesFirst` that each frame resolves the import
  the frame below is at (`StackIsAPath`) and that the imports a frame has passed are listed or
  have no source (`PassedAreListed`). The first is needed when a frame returns, to know which
  import of its importer has just been listed; the second, when a file is listed, to know that
  all its imports are. `NothingTwice` says that no path is listed or on the stack twice or both.
  The refinement maps `Finish` to `List`, `Return` to `Succeed` or `GiveUp`, and all else to a
  stutter. `CyclesAreReal` and `WalkDecides` are about the outcome: the walk succeeds on exactly
  the trees that are resolvable, and each diagnosis names something that is there. `Reached` is
  the least set of files closed under imports, so what the walk meets is in it (`OnlyReached`)
  and, when all is listed, it is closed and hence the whole of it; that no clash was found so far
  (`NoClashYet`) needs that the symbols seen are the exports of the files listed, both ways.
* `PackageDepsProofs`: `PkgTypeCorrect`, `VersionsOfPathsAgree`, `EntriesComeFromManifests`,
  `WholeGraphIsListed`. `WholeGraphListed` speaks of the end of the walk only; the invariant
  behind it says that each frame was pushed for an entry that is the dependency the frame below
  is at, and that these entries grow (`StackIsAPath`), that what a frame has passed is listed
  after the frame's own entry (`PassedAreListed`), and that every entry has all its dependencies
  listed or is still on the stack (`ListedOrOpen`). `VersionsOfPathsAgree` needs
  `FirstAgrees`, agreement with the first entry of the name, which appending keeps because it
  never changes which entry is first. `DiagnosticsHaveCauses` adds that all frames and entries
  are of manifests in the graph (`StackInGraph`, `EntriesInGraph`), the graph again the least
  closed set; a cycle that is diagnosed is then the part of the stack above the manifest that is
  met again.
* `BorrowsProofs`: `ReferencesAreCovered`, `NothingDangles`, `MutableIsExclusive`,
  `ReturnedOutlives`, `AccessIsExclusive`, `RefusalsAreCaused`, on `BorrowsInvariant`. `Layout` says how the scopes lie: their identities grow, and every snapshot
  an open block keeps is a view of the scopes that were there when it opened. The core is
  `HeldInv`. While the checker walks an arm that the execution does not take, what it knows now
  says nothing about the execution; each open block therefore says from which of its states, the
  one before it, that of one of its arms or the current one, the walk will go on where the
  execution does (`BlockCover`, `CoverIn`), and that state covers what is held: each reference
  that is held has an entry for what it refers to, or was made from a name that an inner binding
  hides, and then what it refers to is hidden, or recorded by a binding that is (`CoveredIn`,
  `HiddenIn`). A join unites states and keeps cover; a restore goes back to a state that is kept. The other theorems are consequences of cover and of what the checker asks before
  it accepts a statement: a statement names a place that is not hidden (`Unnamed`), so its entry is
  found. The causes of refusals need `ExactOK`: until a block is closed, entries are exact, those
  for references apart.
* `SpecializeProofs`: `SpecTypeCorrect`, `CallsFindTheirOwn`, `NoCallIsMissed`. `SpecInv` adds to
  the types that the table after the plain functions is the plan, entry by entry
  (`TableFollowsPlan`), that no two functions have one name (`NamesDistinct`), and that each call
  the worklist has passed is planned (`PassedArePlanned`). The last two give the lookup its
  answer: the call is planned, so its instance is in the table under its name, and no other
  function is. Nothing is assumed of `Mangled`. `RefusalsHaveReasons` compares the plan with what
  a program needs: entry `k` of the plan is needed after at most `k` calls (`PlanReached`), so a
  full plan and one more call are more instances than the limit. `RecursionIsBounded` is an
  argument about paths: every call that is reached ends a chain of calls through functions that
  are all different (`Chain`), and what they wrap are different shapes of the program (`W`). A
  call that comes back to a function of its chain is within the depth to which the checker walks
  from that function (`ChainIsShort`, `ChainIsWalked`), so it wraps nothing and is the call the
  chain came through there with (`ChainReturns`): the chain is cut, not made longer.
* `MirVerifyProofs`: `FramesAreSound`, `StoresAreInside`. `WalkedFrame` says that the locals before
  the one being checked passed each check and that any two of them are apart; the step from
  neighbours to all pairs is by the order of the ends, each at least the one before. That
  `element * len` fits the size needs the division the verifier makes before it multiplies.
  `WalkedCode` says that every store before `pc` was allowed. A loop goes back to an earlier
  `pc`, so it also needs that the openers on `nest` come before `pc`, in order.
  `LaidFramesAreAccepted` needs the same of the lowering: the frame laid so far passes each check
  unless a local is too large (`LaidWell`). `UsesAreOfWritable` needs the state each instruction
  was last checked in, which the verifier does not keep: `FlowInv` says that there is a function
  `K` from instructions to states that agrees with all checks made so far (`Flow`) and with what
  `nest` keeps (`Tracks`). A loop that is checked again changes `K` inside its body only, because
  `nest` and the levels of nesting agree (`NestedAt`); when it is left, `K` at its body is within
  `K` at its end, which is what a later round of the running loop needs.
* `RuntimeLinkProofs`: `OwnObjectsLinked`, `FailuresHaveCause`, `TemporariesAreGone`, for any number
  of compilations and runtime objects. `LinkInv` says that a compilation that never overlapped
  another and had no failed step has, at each point of its course, its own whole files on the
  disk where that point needs them, and nothing of what it has removed (`Holds`).
* `SeqLemmas`: the least element of a set of naturals, which is what the proofs use in place of
  induction, and facts about sequences.

Only model-checked: liveness (`Terminates`, `ResolveEnds`, `PackagesEnd`, `VerifierEnds`), which
depends on fairness and on `ENABLED`; and the runs in which the code does not do what it says.

## 5. Plan

Done: `AIControl`, `Backends`, `CompilerDriver`, `ModuleResolve` with `ImportOrder`, `PackageDeps`,
`Borrows`, `Specialize`, `MirVerify`, `RuntimeLink`, and proofs about each but `Backends`, which
has no state. Left:

1. `Compilation`: what a compilation promises (started, then an artifact and success, or
   failure with a reason), with `CompilerDriver` and `RuntimeLink` shown to implement it.
2. Pure algorithms against references: the layout stack of `row_syntax.c`, `unify.c`, the patch
   lists of the emitters, the write loop of the runtime.
3. The value and helper contracts of `mir_verify.c`.

## 6. Not modelled, and why

* Lexing, type rules, lowering of statements and byte-level emission: data transformations with no
  state that interacts with the rest. The driver sees only their outcome, and the model leaves it
  open.
* Of the MIR verifier: parameters, return types, the types of values and operands, and the counts
  of helpers, which are compared one by one.
* Of the borrow tracking: what an accepted body does after `break` and `continue`, whose state the
  checker merges nowhere (`MCBorrowsJump` shows what that admits; the other properties are about
  executions that do not jump); a second round of a loop, except in `MCBorrowsFlow`; calls,
  closures and the shapes of patterns.
* Cache markers, which only feed a report.
* The text of diagnostics, JSON reports and timings.
* Option parsing before `z_ai_init`; what it rejects (`run` for another target or as an object)
  is the assumption on `Jobs`.
* `clean`, `new`, `doctor`, `skills`, `targets`, `tokens`, `parse` and formatting: commands that
  return before the AI state exists.
* `native/zero-c`, an older copy of the same compiler; the vendored Botan tree; the standard
  library, examples, conformance programs, documentation site and scripts.
