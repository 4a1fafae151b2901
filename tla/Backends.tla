------------------------------- MODULE Backends ------------------------------
(***************************************************************************)
(* The target table (target.c) and the selection of a direct backend for a *)
(* target (target_backend.c).  Pure operators; CompilerDriver uses them.   *)
(***************************************************************************)
EXTENDS Naturals, Sequences

NoBackend == "none"

\* name, aliases, os, arch, abi, object format of each target, in the order of
\* builtin_targets.
TargetTable ==
    <<[name |-> "darwin-arm64", alias |-> "aarch64-macos", os |-> "macos",
       arch |-> "aarch64", abi |-> "darwin", format |-> "macho"],
      [name |-> "darwin-x64", alias |-> "x86_64-macos", os |-> "macos",
       arch |-> "x86_64", abi |-> "darwin", format |-> "macho"],
      [name |-> "linux-musl-x64", alias |-> "x86_64-linux-musl", os |-> "linux",
       arch |-> "x86_64", abi |-> "musl", format |-> "elf"],
      [name |-> "linux-musl-arm64", alias |-> "aarch64-linux-musl", os |-> "linux",
       arch |-> "aarch64", abi |-> "musl", format |-> "elf"],
      [name |-> "linux-x64", alias |-> "x86_64-linux-gnu", os |-> "linux",
       arch |-> "x86_64", abi |-> "gnu", format |-> "elf"],
      [name |-> "linux-arm64", alias |-> "aarch64-linux-gnu", os |-> "linux",
       arch |-> "aarch64", abi |-> "gnu", format |-> "elf"],
      [name |-> "win32-x64.exe", alias |-> "x86_64-windows-msvc", os |-> "windows",
       arch |-> "x86_64", abi |-> "msvc", format |-> "coff"],
      [name |-> "win32-arm64.exe", alias |-> "aarch64-windows-msvc", os |-> "windows",
       arch |-> "aarch64", abi |-> "msvc", format |-> "coff"]>>

TargetNames == {TargetTable[i].name : i \in DOMAIN TargetTable}

PartOf(s, text) == \E i, j \in 1..Len(text) : s = SubSeq(text, i, j)

\* z_find_target: "host" stands for the host; otherwise the first target that
\* has the name, or the name for a part of its aliases.
FindTarget(name, host) ==
    LET wanted == IF name = "host" THEN host ELSE name
        found == {i \in DOMAIN TargetTable :
                    TargetTable[i].name = wanted \/ PartOf(wanted, TargetTable[i].alias)}
    IN  {TargetTable[i].name : i \in {j \in found : \A k \in found : j <= k}}

Info(name) ==
    TargetTable[CHOOSE i \in DOMAIN TargetTable : TargetTable[i].name = name]

\* direct_backend_rules: every rule supports objects and executables.
BackendRules ==
    {[format |-> "elf", os |-> "linux", arch |-> "x86_64", abi |-> "gnu", backend |-> "elf64"],
     [format |-> "elf", os |-> "linux", arch |-> "x86_64", abi |-> "musl", backend |-> "elf64"],
     [format |-> "elf", os |-> "linux", arch |-> "aarch64", abi |-> "gnu", backend |-> "elf-aarch64"],
     [format |-> "elf", os |-> "linux", arch |-> "aarch64", abi |-> "musl", backend |-> "elf-aarch64"],
     [format |-> "macho", os |-> "macos", arch |-> "aarch64", abi |-> "darwin", backend |-> "void64"],
     [format |-> "coff", os |-> "windows", arch |-> "x86_64", abi |-> "msvc", backend |-> "coff-x64"]}

\* direct_backend_for_target.  No two rules match the same target.
DirectBackend(name) ==
    LET t == Info(name)
        m == {r \in BackendRules : /\ r.format = t.format /\ r.os = t.os
                                   /\ r.arch = t.arch /\ r.abi = t.abi}
    IN  IF m = {} THEN NoBackend ELSE (CHOOSE r \in m : TRUE).backend

\* z_direct_backend_supports_runtime_object.
SupportsRuntimeObject(b) == b \in {"elf64", "void64"}

\* z_direct_backend_is_request_name: --backend names an object emitter.
RequestNames == {"elf64", "elf-aarch64", "void64", "coff-x64"}

\* z_direct_requested_backend_matches; "" is no --backend option.
RequestMatches(requested, b) == requested \in {"", b}
=============================================================================
