----------------------------- MODULE RuntimeLink -----------------------------
(***************************************************************************)
(* The runtime link of build and run: the program's object is written, the *)
(* runtime objects are compiled from sources the compiler embeds, all are  *)
(* linked, and the temporary files removed.  The names of all files derive *)
(* from the output, so compilations of one output share them with those    *)
(* that were killed before and those that run at the same time; those of   *)
(* different outputs share none, and one output is modelled.               *)
(*                                                                         *)
(* A compilation may be killed in any step, and with it the C compiler it  *)
(* waits for.  The C compiler and the linker are external: as main.c       *)
(* relies on them, they work if their inputs are sound and may fail in any *)
(* case.  Removing an own file does not fail.                              *)
(***************************************************************************)
EXTENDS Naturals, Sequences

CONSTANTS
    Compilations,  \* each runs once
    Needs,         \* optional runtime objects of a compilation
    Version,       \* version of the compiler, and so of the embedded sources
    After,         \* bound: the compilations that end before one starts
    NoOne          \* writer of a file that does not exist

StageNames == {"program", "runtime", "crypto", "http"}
Parts == {"object", "dir", "header", "source", "crypto.h", "exe"}

RuntimeLinkAssumption ==
    /\ Needs \in [Compilations -> SUBSET {"crypto", "http"}]
    /\ After \in [Compilations -> SUBSET Compilations]
    /\ NoOne \notin Compilations
ASSUME RuntimeLinkAssumption

VARIABLES
    step,     \* where a compilation is
    stage,    \* the object it is building
    doomed,   \* it is only cleaning up: wrote_object or linked is false
    pending,  \* files it has still to remove
    disk,     \* the files
    course    \* history: "smooth", "faulty" once one of its steps failed,
              \* "lossy" once a write failed unnoticed, "shared" if another
              \* ran meanwhile or has started since

vars == <<step, stage, doomed, pending, disk, course>>

Absent == [by |-> NoOne, sound |-> FALSE]
Broken(c) == [by |-> c, sound |-> FALSE]
Sound(c) == [by |-> c, sound |-> TRUE]
Exists(path) == disk[path] # Absent

Exe == <<"program", "exe">>
Paths == StageNames \X Parts

Needed(c) == {"program", "runtime"} \cup Needs[c]
ObjectOf(s) == <<s, "object">>
Optional(c, s) == IF s \in Needs[c] THEN <<ObjectOf(s)>> ELSE <<>>
Objects(c) == <<ObjectOf("program"), ObjectOf("runtime")>>
                \o Optional(c, "crypto") \o Optional(c, "http")
(* The runtime object after s: crypto, then http, each if it is needed. *)
NextStage(c, s) ==
    IF s = "runtime" /\ "crypto" \in Needs[c] THEN "crypto"
    ELSE IF s # "http" /\ "http" \in Needs[c] THEN "http" ELSE "none"

Ended == {"success", "failure", "killed"}
Active(c) == step[c] \notin Ended \cup {"idle"}

----------------------------------------------------------------------------
Init ==
    /\ step = [c \in Compilations |-> "idle"]
    /\ stage = [c \in Compilations |-> "program"]
    /\ doomed = [c \in Compilations |-> FALSE]
    /\ pending = [c \in Compilations |-> <<>>]
    /\ disk = [path \in Paths |-> Absent]
    /\ course = [c \in Compilations |-> "smooth"]

At(c, name) == step[c] = name
Go(c, name) == step' = [step EXCEPT ![c] = name]
(* The memory of a process is gone with it. *)
End(c, how) ==
    /\ Go(c, how) /\ stage' = [stage EXCEPT ![c] = "none"]
    /\ doomed' = [doomed EXCEPT ![c] = FALSE] /\ pending' = [pending EXCEPT ![c] = <<>>]
Mark(c, how) == course' = [course EXCEPT ![c] = IF @ \in {"shared", "lossy"} THEN @ ELSE how]
Fault(c) == Mark(c, "faulty")
Unnoticed(c) == Mark(c, "lossy")
Put(path, content) == disk' = [disk EXCEPT ![path] = content]

Start(c) ==
    /\ step[c] = "idle" /\ Go(c, "object")
    /\ \A d \in After[c] : step[d] \in Ended
    /\ course' = [d \in Compilations |->
                    IF step[d] # "idle" \/ (d = c /\ \E e \in Compilations : Active(e))
                    THEN "shared" ELSE course[d]]
    /\ UNCHANGED <<stage, doomed, pending, disk>>

Here(c, part) == <<stage[c], part>>
InDir(part) == part \in {"header", "crypto.h"}
(* z_write_file and z_write_binary_file make the directory a file is in,   *)
(* truncate the file and write it; that it cannot be opened is noticed,    *)
(* what fputs or fclose lose is not.                                       *)
Fill(c, part, content) ==
    disk' = [path \in Paths |->
               CASE path = Here(c, part) -> content
                 [] path = Here(c, "dir") /\ InDir(part) /\ ~ Exists(path) -> Sound(c)
                 [] OTHER -> disk[path]]
Written(c, part) == Fill(c, part, Sound(c)) /\ UNCHANGED course
Lost(c, part) == Fill(c, part, Broken(c)) /\ Unnoticed(c)
Short(c, part) == Fill(c, part, Broken(c)) /\ Fault(c)

(* The program's own object; its fwrite is checked. *)
WriteObject(c) ==
    /\ At(c, "object")
    /\ \/ /\ Written(c, "object") \/ Lost(c, "object")
          /\ Go(c, "dir") /\ stage' = [stage EXCEPT ![c] = "runtime"]
          /\ UNCHANGED <<doomed, pending>>
       \/ /\ (Fault(c) /\ UNCHANGED disk) \/ Short(c, "object")
          /\ End(c, "failure")

(* runtime_compile_inputs_free, with or without a failure to report. *)
FreeInputs(c, failed) ==
    /\ Go(c, "removing")
    /\ doomed' = [doomed EXCEPT ![c] = failed]
    /\ pending' = [pending EXCEPT ![c] =
                     <<Here(c, "source"), Here(c, "header"), Here(c, "dir")>>]

(* Mutant of MakeDir: a directory that exists is refused. *)
MakeNewDir(c) ==
    /\ At(c, "dir")
    /\ \/ /\ ~ Exists(Here(c, "dir"))
          /\ Put(Here(c, "dir"), Sound(c)) /\ Go(c, "header")
          /\ UNCHANGED <<doomed, pending, course>>
       \/ Exists(Here(c, "dir")) /\ UNCHANGED <<disk, course>> /\ FreeInputs(c, TRUE)
    /\ UNCHANGED stage
(* runtime_make_dir *)
MakeDir(c) ==
    /\ At(c, "dir")
    /\ \/ /\ Put(Here(c, "dir"), IF Exists(Here(c, "dir")) THEN disk[Here(c, "dir")] ELSE Sound(c))
          /\ Go(c, "header") /\ UNCHANGED <<doomed, pending, course>>
       \/ ~ Exists(Here(c, "dir")) /\ Fault(c) /\ UNCHANGED disk /\ FreeInputs(c, TRUE)
    /\ UNCHANGED stage

(* The texts a runtime object is compiled from, in order; the result of    *)
(* writing zerox_crypto.h is not looked at.                                *)
AfterText(c) ==
    CASE step[c] = "header" -> "source"
      [] step[c] = "source" -> IF stage[c] = "crypto" THEN "crypto.h" ELSE "cc"
      [] step[c] = "crypto.h" -> "cc"
WriteText(c, part) ==
    /\ At(c, part)
    /\ \/ /\ Written(c, part) \/ Lost(c, part)
          /\ Go(c, AfterText(c)) /\ UNCHANGED <<doomed, pending>>
       \/ /\ IF part = "crypto.h"
             THEN Unnoticed(c) /\ Go(c, "cc") /\ UNCHANGED <<doomed, pending>>
             ELSE Fault(c) /\ FreeInputs(c, TRUE)
          /\ UNCHANGED disk
    /\ UNCHANGED stage

Texts(c) == {Here(c, "source"), Here(c, "header")}
              \cup (IF stage[c] = "crypto" THEN {Here(c, "crypto.h")} ELSE {})
(* A text is as good as an own one if the same version wrote it. *)
Usable(c, path) ==
    Exists(path) /\ disk[path].sound /\ Version[disk[path].by] = Version[c]
Compiled(c) ==
    \/ (\A t \in Texts(c) : Usable(c, t)) /\ Put(Here(c, "object"), Sound(c))
    \/ /\ \A t \in Texts(c) : Exists(t)
       /\ \E t \in Texts(c) : ~ Usable(c, t)
       /\ Put(Here(c, "object"), Broken(c))
CompileFails(c) ==
    /\ IF \A t \in Texts(c) : Usable(c, t) THEN Fault(c) ELSE UNCHANGED course
    /\ \E left \in {Absent, disk[Here(c, "object")]} : Put(Here(c, "object"), left)

(* Mutant of Compile: the status of the command is not looked at. *)
CompileUnchecked(c) ==
    /\ At(c, "cc")
    /\ (Compiled(c) /\ UNCHANGED course) \/ CompileFails(c)
    /\ FreeInputs(c, FALSE) /\ UNCHANGED stage
(* z_toolchain_compile_c_object *)
Compile(c) ==
    /\ At(c, "cc")
    /\ \/ Compiled(c) /\ FreeInputs(c, FALSE) /\ UNCHANGED course
       \/ CompileFails(c) /\ FreeInputs(c, TRUE)
    /\ UNCHANGED stage

Inside(path) == {p \in Paths : p[1] = path[1] /\ InDir(p[2])}
(* remove() and rmdir(), which leaves a directory that is not empty. *)
Remove(c) ==
    /\ At(c, "removing") /\ pending[c] # <<>>
    /\ LET path == Head(pending[c])
       IN IF path[2] = "dir" /\ \E p \in Inside(path) : Exists(p)
          THEN UNCHANGED disk ELSE Put(path, Absent)
    /\ pending' = [pending EXCEPT ![c] = Tail(@)]
    /\ UNCHANGED <<step, stage, doomed, course>>
Removed(c) ==
    /\ At(c, "removing") /\ pending[c] = <<>>
    /\ IF doomed[c] THEN End(c, "failure")
       ELSE IF stage[c] = "none" THEN End(c, "success")
       ELSE /\ stage' = [stage EXCEPT ![c] = NextStage(c, @)]
            /\ Go(c, IF stage'[c] = "none" THEN "link" ELSE "dir")
            /\ UNCHANGED <<doomed, pending>>
    /\ UNCHANGED <<disk, course>>

(* The link hook of the AI may abort: the objects stay. *)
AbortLink(c) ==
    /\ At(c, "link") /\ End(c, "failure") /\ Fault(c)
    /\ UNCHANGED disk

Elements(s) == {s[i] : i \in 1 .. Len(s)}
(* Mutant of LinkedObjects: an object is not removed. *)
LinkedObjectsButLast(c) == SubSeq(Objects(c), 1, Len(Objects(c)) - 1)
LinkedObjects(c) == Objects(c)
OwnObjects(c) == \A o \in Elements(Objects(c)) : disk[o] = Sound(c)
FreeObjects(c, failed) ==
    /\ Go(c, "removing")
    /\ doomed' = [doomed EXCEPT ![c] = failed]
    /\ pending' = [pending EXCEPT ![c] = LinkedObjects(c)]
(* z_toolchain_link_objects; the objects are removed in both cases. *)
Link(c) ==
    /\ At(c, "link")
    /\ \/ /\ \A o \in Elements(Objects(c)) : Exists(o)
          /\ Put(Exe, IF OwnObjects(c) THEN Sound(c) ELSE Broken(c))
          /\ FreeObjects(c, FALSE) /\ UNCHANGED course
       \/ /\ \E left \in {Absent, Broken(c), disk[Exe]} : Put(Exe, left)
          /\ IF OwnObjects(c) THEN Fault(c) ELSE UNCHANGED course
          /\ FreeObjects(c, TRUE)
    /\ UNCHANGED stage

(* The file that was being written may be left in part. *)
Kill(c) ==
    /\ Active(c) /\ End(c, "killed")
    /\ \/ UNCHANGED disk
       \/ step[c] \in Parts \ {"dir"} /\ Fill(c, step[c], Broken(c))
       \/ step[c] = "cc" /\ Put(Here(c, "object"), Broken(c))
       \/ step[c] = "link" /\ Put(Exe, Broken(c))
    /\ UNCHANGED course

Step(c) ==
    \/ WriteObject(c) \/ MakeDir(c)
    \/ \E part \in {"header", "source", "crypto.h"} : WriteText(c, part)
    \/ Compile(c) \/ Remove(c) \/ Removed(c) \/ AbortLink(c) \/ Link(c)

Next == \E c \in Compilations : Start(c) \/ Step(c) \/ Kill(c)
Spec == Init /\ [][Next]_vars

----------------------------------------------------------------------------
(* A compilation that had the output to itself and reports success has     *)
(* linked its own objects, compiled from its own version of the runtime,   *)
(* whatever compilations that were killed or failed have left, unless a    *)
(* write of its own failed unnoticed.                                      *)
LinkedFromOwn ==
    \A c \in Compilations :
        step[c] = "success" /\ course[c] \notin {"shared", "lossy"} => disk[Exe] = Sound(c)

(* Nothing that was left behind makes such a compilation fail: it fails    *)
(* only if one of its own steps did.                                       *)
FailsForCause ==
    \A c \in Compilations : step[c] = "failure" => course[c] # "smooth"

(* After it succeeded no temporary file of the kinds it uses is left, also *)
(* none of an earlier compilation, but for zerox_crypto.h, which           *)
(* runtime_compile_inputs_free does not know of, and its directory.        *)
MayStay == {Exe, <<"crypto", "crypto.h">>, <<"crypto", "dir">>}
NothingLeft ==
    \A c \in Compilations :
        step[c] = "success" /\ course[c] # "shared" =>
            \A path \in (Needed(c) \X Parts) \ MayStay : ~ Exists(path)
=============================================================================
