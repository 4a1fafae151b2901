-------------------------- MODULE MCCompilerDriver --------------------------
(***************************************************************************)
(* Model checking CompilerDriver: command lines, programs and AI lines.    *)
(***************************************************************************)
EXTENDS CompilerDriver

Cmd(key, cmd, args) == [key |-> key, cmd |-> cmd, hasArgs |-> TRUE, args |-> args]

MkJob(command, emit, t, backend, out, rt, subset) ==
    [command |-> command, emit |-> emit, target |-> t, backend |-> backend,
     out |-> out, runtime |-> rt # {}, crypto |-> "crypto" \in rt,
     http |-> "http" \in rt, subset |-> subset]

\* Commands that only report, and for those that write every path: an object,
\* a direct executable by default and by request, a runtime link with and
\* without the optional objects, and targets without a backend.
AllJobs ==
    {MkJob(c, "exe", "linux-x64", "", FALSE, {}, TRUE) : c \in {"fix", "graph", "test", "mem"}}
    \cup {MkJob("size", "exe", "linux-x64", "", TRUE, {}, TRUE),
          MkJob("ship", "obj", "linux-x64", "", FALSE, {}, TRUE),
          MkJob("build", "obj", "linux-x64", "", TRUE, {}, TRUE),
          MkJob("build", "obj", "darwin-x64", "", TRUE, {}, TRUE),
          MkJob("build", "exe", "darwin-x64", "", TRUE, {}, TRUE),
          MkJob("build", "exe", "linux-x64", "", TRUE, {"crypto", "http"}, FALSE),
          MkJob("build", "exe", "win32-x64.exe", "coff-x64", TRUE, {}, FALSE),
          MkJob("run", "exe", "linux-x64", "", FALSE, {}, TRUE),
          MkJob("run", "exe", "linux-x64", "", FALSE, {"plain"}, FALSE),
          MkJob("ship", "exe", "linux-x64", "", FALSE, {}, TRUE)}

\* One line for each way the switch can go: a setter, a parameter that sets
\* another override, reset, skipping, a denied command.  Cut by the buffer,
\* they are also lines without arguments, or without a command.
AllLines ==
    {Cmd("bare", "set-profile", <<"debug">>),
     Cmd("bare", "skip-phase", <<"lower">>),
     Cmd("bare", "set-param", <<"target", "win32-x64.exe">>),
     Cmd("bare", "reset", <<>>),
     Cmd("bare", "abort", <<>>)}
=============================================================================
