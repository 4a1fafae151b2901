---------------------------- MODULE CompilerDriver ---------------------------
(***************************************************************************)
(* main() of the compiler, from z_ai_init to the exit code, for the        *)
(* commands that take an input file: the phases, the AI hooks between      *)
(* them, and the output file.  It runs the hooks of AIControl, so the AI   *)
(* may write to the control file between any two steps.                    *)
(*                                                                         *)
(* The program being compiled is abstracted to the facts main() branches   *)
(* on (job), and the outcome of a phase is a choice: resolution and        *)
(* checking, the validations, lowering, the emitters, the C compiler and   *)
(* every write may fail.  Timing, JSON reports and messages are left out.  *)
(***************************************************************************)
EXTENDS AIControl, Backends

CONSTANTS
    Jobs,   \* the command lines and programs considered
    Host    \* z_host_target()

Artifact == {"build", "run", "ship"}
Reports == {"fix", "check", "doc", "dev", "time", "abi", "test", "graph"}
Commands == Artifact \cup Reports \cup {"mem", "size"}

\* backend: the --backend option, "" if none; out: -o was given; runtime,
\* crypto, http: runtime objects the program needs; subset:
\* self_host_subset_compatible of its capabilities.
Job == [command : Commands, emit : {"exe", "obj"}, target : TargetNames,
        backend : RequestNames \cup {""}, out : BOOLEAN,
        runtime : BOOLEAN, crypto : BOOLEAN, http : BOOLEAN, subset : BOOLEAN]

\* What main() has already rejected before z_ai_init.
Admitted(j) == /\ j.command = "run" => j.emit = "exe" /\ j.target = Host
               /\ j.crypto \/ j.http => j.runtime

ASSUME DriverAssumption ==
    /\ Jobs \subseteq {j \in Job : Admitted(j)}
    /\ Host \in TargetNames

VARIABLES
    pc,        \* where main() is
    job,       \* the command line and the program; never changes
    target,    \* the target, after the AI override
    profile,   \* command.profile: 0 is the argv string, else a heap cell
    ir,        \* the lowered program: none, empty ({0}), invalid, valid
    artifact,  \* the output file: before (what was there when main() started,
               \* if anything), partial, truncated, complete, absent
    emitted,   \* history: machine code was emitted
    rc         \* exit code, once pc = "done"

driverVars == <<pc, job, target, profile, ir, artifact, emitted, rc>>
vars == <<aiVars, driverVars>>

ai == ctl.enabled

DriverInit ==
    /\ AIInit
    /\ job \in Jobs
    /\ pc = "resolve" /\ target = job.target /\ profile = 0
    /\ ir = "none" /\ artifact = "before"
    /\ emitted = FALSE /\ rc = 0

-----------------------------------------------------------------------------
\* return code, without z_ai_destroy.
Exit(code) == pc' = "done" /\ rc' = code /\ UNCHANGED aiVars

\* AI_RETURN(code): z_ai_destroy frees the overrides and clears the state.
AIReturn(code) ==
    /\ pc' = "done" /\ rc' = code
    /\ ctl' = [InitCtl(FALSE) EXCEPT !.heap = FreeOverrides(ctl)]
    /\ UNCHANGED <<controlFile, written, hook, phase, buf, pos, processed, status,
                   emptied, failures, lost>>

Goto(next) == pc' = next /\ UNCHANGED <<aiVars, rc>>

\* Where main() goes on after the hook of phase p.
AfterHook(p) == CASE p = "resolve" -> "override" [] p = "check" -> "validate"
                  [] p = "lower" -> "lowering"
                  [] p = "codegen" -> IF job.emit = "obj" THEN "emitObject"
                                      ELSE "emitRuntime"
                  [] p = "link" -> "linking"

\* "if (command.ai_control)": the phase's event, then the hook.
EnterHook(p) ==
    /\ pc = p
    /\ IF ai THEN /\ StartHook(p)
                  /\ pc' = "hook"
             ELSE pc' = AfterHook(p) /\ UNCHANGED aiVars
    /\ UNCHANGED <<job, target, profile, ir, artifact, emitted, rc>>

\* z_ai_process_commands returned; FALSE means an abort.
LeaveHook ==
    /\ pc = "hook" /\ hook = "idle"
    /\ IF ctl.abort_requested THEN AIReturn(1) ELSE Goto(AfterHook(phase))
    /\ UNCHANGED <<job, target, profile, ir, artifact, emitted>>

\* The overrides of the resolve hook: command.profile becomes an alias of
\* the override string, the target is looked up again.
ApplyOverrides ==
    /\ pc = "override"
    /\ profile' = IF ctl.override["profile"] # 0 THEN ctl.override["profile"]
                  ELSE profile
    /\ LET t == ctl.override["target"]
           found == IF t = 0 THEN {target} ELSE FindTarget(ctl.heap[t].val, Host)
       IN  IF found = {}
           THEN AIReturn(1) /\ UNCHANGED target
           ELSE target' \in found /\ Goto("compile")
    /\ UNCHANGED <<job, ir, artifact, emitted>>

\* compile_input: resolve, parse, check.  A failed fix still prints a plan.
CompileInput ==
    /\ pc = "compile"
    /\ \/ Goto("check")
       \/ Exit(1)
       \/ job.command = "fix" /\ Exit(0)
    /\ UNCHANGED <<job, target, profile, ir, artifact, emitted>>

\* Target capabilities, package dependencies and C libraries: graph skips
\* the first two, only artifact commands check the third.
Validate ==
    /\ pc = "validate"
    /\ \/ Goto(IF job.command \in Reports THEN "report" ELSE "lower")
       \/ job.command # "graph" /\ Exit(1)
       \/ job.command = "fix" /\ Exit(0)
    /\ UNCHANGED <<job, target, profile, ir, artifact, emitted>>

\* The commands that only report; abi rejects an unknown mode, and a test
\* run fails with its tests.
Report ==
    /\ pc = "report"
    /\ \/ Exit(0)
       \/ job.command \in {"abi", "test"} /\ Exit(1)
    /\ UNCHANGED <<job, target, profile, ir, artifact, emitted>>

\* z_lower_program_with_source, or an all-zero IrProgram after skip-phase.
Lower ==
    /\ pc = "lowering"
    /\ ir' \in IF ctl.skip_remaining THEN {"empty"} ELSE {"valid", "invalid"}
    /\ \/ job.command = "mem" /\ Exit(0)
       \/ job.command # "mem" /\ job.emit = "obj" /\ job.command # "build" /\ Exit(1)
       \/ job.command = "build" /\ job.emit = "obj" /\ Goto("selectObject")
       \/ job.command # "mem" /\ job.emit = "exe" /\ Goto("selectExe")
    /\ UNCHANGED <<job, target, profile, artifact, emitted>>

\* Mutant of Preflight: no check of the MIR.
NoPreflight == TRUE

\* direct_buildability_preflight: a valid MIR, and a program the backend
\* supports (a choice).
Preflight == ir = "valid"

\* --emit obj: the backend, then the preflight.
SelectObject ==
    /\ pc = "selectObject"
    /\ \/ DirectBackend(target) = NoBackend /\ Exit(1)
       \/ DirectBackend(target) # NoBackend /\ AIReturn(1)
       \/ DirectBackend(target) # NoBackend /\ Preflight /\ Goto("codegen")
    /\ UNCHANGED <<job, target, profile, ir, artifact, emitted>>

NeedsRuntime == job.command \in Artifact /\ job.runtime /\ ir # "empty"

\* A direct executable, by default or because --backend asks for it.
WantsDirectExe ==
    /\ job.command \in Artifact
    /\ IF job.backend = "" THEN DirectBackend(target) # NoBackend /\ job.subset
                           ELSE job.backend \in RequestNames

SupportedExe == /\ DirectBackend(target) # NoBackend
                /\ RequestMatches(job.backend, DirectBackend(target))

\* The choice between a runtime link, a direct executable, size, and the
\* error that no backend fits.
SelectExe ==
    /\ pc = "selectExe"
    /\ \/ /\ NeedsRuntime
          /\ \/ AIReturn(1)
             \/ /\ job.command # "ship"
                /\ SupportsRuntimeObject(DirectBackend(target))
                /\ job.http => target = Host
                /\ Preflight /\ Goto("codegen")
       \/ /\ ~NeedsRuntime /\ WantsDirectExe
          /\ Exit(1) \/ (SupportedExe /\ Preflight /\ Goto("emitExe"))
       \/ ~NeedsRuntime /\ ~WantsDirectExe /\ job.command = "size" /\ Goto("size")
       \/ ~NeedsRuntime /\ ~WantsDirectExe /\ job.command # "size" /\ AIReturn(1)
    /\ UNCHANGED <<job, target, profile, ir, artifact, emitted>>

\* z_write_binary_file truncates the file in place.  fopen may fail, fwrite
\* may be short, and what is lost in fclose is not noticed.
WriteFails(old) == {old, "partial"}
WriteSucceeds == {"complete", "truncated"}

\* z_emit_*_object_from_ir, then the object file is written.
EmitObject ==
    /\ pc = "emitObject"
    /\ \/ AIReturn(1) /\ UNCHANGED <<artifact, emitted>>
       \/ emitted' = TRUE /\ artifact' \in WriteFails(artifact) /\ AIReturn(1)
       \/ emitted' = TRUE /\ artifact' \in WriteSucceeds /\ Exit(0)
    /\ UNCHANGED <<job, target, profile, ir>>

\* A runtime link: the program's object is emitted and written.  What it
\* does with files is in RuntimeLink.
EmitRuntime ==
    /\ pc = "emitRuntime"
    /\ \/ AIReturn(1) /\ UNCHANGED emitted
       \/ emitted' = TRUE /\ (AIReturn(1) \/ Goto("compileRuntime"))
    /\ UNCHANGED <<job, target, profile, ir, artifact>>

\* The runtime objects, in order, each only if the one before was built.
NextObject(stage) ==
    IF stage = "compileRuntime" /\ job.crypto THEN "compileCrypto"
    ELSE IF stage # "compileHttp" /\ job.http THEN "compileHttp" ELSE "link"

\* compile_zerox_{runtime,crypto,http_curl}_object
CompileObject(stage) ==
    /\ pc = stage
    /\ AIReturn(1) \/ Goto(NextObject(stage))
    /\ UNCHANGED <<job, target, profile, ir, artifact, emitted>>

\* The host linker.
Link ==
    /\ pc = "linking"
    /\ \/ artifact' \in {artifact, "partial", "absent"} /\ AIReturn(1)
       \/ /\ artifact' = "complete"
          /\ IF job.command = "run" THEN Goto("execute") ELSE Exit(0)
    /\ UNCHANGED <<job, target, profile, ir, emitted>>

\* Mutant of EmitExe: the result of the write is not looked at.
EmitExeUnchecked ==
    /\ pc = "emitExe"
    /\ emitted' = TRUE
    /\ artifact' \in WriteFails(artifact) \cup WriteSucceeds
    /\ IF job.command = "run" THEN Goto("execute") ELSE Exit(0)
    /\ UNCHANGED <<job, target, profile, ir>>

\* A direct executable: no codegen hook on this path.  ship writes six
\* more files, any of which may fail.
EmitExe ==
    /\ pc = "emitExe"
    /\ \/ Exit(1) /\ UNCHANGED <<artifact, emitted>>
       \/ /\ emitted' = TRUE
          /\ \/ artifact' \in WriteFails(artifact) /\ Exit(1)
             \/ /\ artifact' \in WriteSucceeds
                /\ CASE job.command = "run" -> Goto("execute")
                     [] job.command = "ship" -> Exit(1) \/ AIReturn(0)
                     [] job.command = "build" -> AIReturn(0)
    /\ UNCHANGED <<job, target, profile, ir>>

\* run_executable_artifact: the exit code is the program's.
Execute ==
    /\ pc = "execute"
    /\ Exit(0) \/ Exit(1)
    /\ UNCHANGED <<job, target, profile, ir, artifact, emitted>>

\* size writes a metadata file if -o was given.
Size ==
    /\ pc = "size"
    /\ \/ job.out /\ Exit(1) /\ UNCHANGED artifact
       \/ /\ artifact' \in IF job.out THEN WriteSucceeds ELSE {artifact}
          /\ AIReturn(0)
    /\ UNCHANGED <<job, target, profile, ir, emitted>>

InHook == pc = "hook" /\ HookStep /\ UNCHANGED driverVars

DriverStep ==
    \/ \E p \in Phases : EnterHook(p)
    \/ InHook \/ LeaveHook
    \/ ApplyOverrides \/ CompileInput \/ Validate \/ Report \/ Lower
    \/ SelectObject \/ SelectExe \/ EmitObject \/ EmitRuntime
    \/ \E s \in {"compileRuntime", "compileCrypto", "compileHttp"} : CompileObject(s)
    \/ Link \/ EmitExe \/ Execute \/ Size

\* What the AI writes after main() returned is read by nobody.
DriverNext == DriverStep \/ (pc # "done" /\ AIWrite /\ UNCHANGED driverVars)

\* main() is a sequential process that keeps running; the AI need not.
DriverSpec == DriverInit /\ [][DriverNext]_vars /\ WF_vars(DriverStep)

-----------------------------------------------------------------------------
\* Machine code is emitted only from a program that was lowered and whose
\* MIR is valid: after a skip-phase the all-zero program is stopped by the
\* preflight, whatever path main() takes.
OnlyValidMirEmitted == emitted => ir = "valid"

\* Exit code 0 of build and ship, and starting the program in run, mean
\* that this compilation wrote the output file (a loss in fclose apart,
\* which z_write_binary_file cannot see): never an old or partial file.
SuccessMeansArtifact ==
    \/ pc = "execute"
    \/ pc = "done" /\ rc = 0 /\ job.command \in {"build", "ship"}
    => artifact \in WriteSucceeds

\* Every compilation ends, however the AI behaves.
Terminates == <>(pc = "done")
=============================================================================
