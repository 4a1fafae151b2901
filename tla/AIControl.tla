------------------------------ MODULE AIControl ------------------------------
(***************************************************************************)
(* The AI control channel of the compiler (ai_control.c).                  *)
(*                                                                         *)
(* An external process (the AI) appends command lines to a control file.   *)
(* At each hook point the compiler calls z_ai_process_commands, which      *)
(* reads the file into a fixed buffer, truncates the file, and then runs   *)
(* the lines of the buffer one after the other.  Answers are appended to   *)
(* the status file.  The read and the truncation are two system calls, and *)
(* the AI may append between any two steps of the compiler.                *)
(*                                                                         *)
(* A line is a record of what the parser can tell apart:                   *)
(*   key     "bare" for  command: "x", "quoted" for  "command": "x", and   *)
(*           "none" for a line that has no command key at all;             *)
(*   cmd     the command name, or "unknown";                               *)
(*   hasArgs whether the line has an "args" array, and args its strings.   *)
(* Blank lines are skipped by the loop before they are counted, so they    *)
(* are left out.                                                           *)
(***************************************************************************)
EXTENDS Naturals, Sequences, SequencesExt

CONSTANTS
    Lines,       \* the lines the AI may write
    MaxWrites,   \* bound: how many lines the AI writes in a behaviour
    MaxFailures, \* bound: how often emptying the control file fails
    MaxPerHook,  \* max_commands_per_hook (16 in z_ai_init)
    BufLines,    \* the numbers of whole lines Z_AI_MAX_COMMAND_LEN - 1 bytes
                 \* may hold before a line that does not fit
    CutText,     \* what is left of an argument the buffer ends in
    MaxFeedback  \* Z_AI_MAX_FEEDBACK, entries kept in memory

\* The command names command_kind_from_name knows.
Kinds == {"set-profile", "skip-phase", "reorder-phases", "set-target",
          "set-emit-kind", "filter-module", "inject-diag", "abort",
          "status", "reset", "set-param"}

\* The strings of ZAIControlState that z_ai_apply_command allocates.
Fields == {"profile", "target", "emit"}

\* The hook points, in the order main() passes them.
PhaseRank == [p \in {"init", "resolve", "check", "lower", "codegen", "link"} |->
                CASE p = "init" -> 0 [] p = "resolve" -> 1 [] p = "check" -> 2
                  [] p = "lower" -> 3 [] p = "codegen" -> 4 [] p = "link" -> 5]
Phases == {"resolve", "check", "lower", "codegen", "link"}

Line == [key : {"bare", "quoted", "none"}, cmd : Kinds \cup {"unknown"},
         hasArgs : BOOLEAN, args : Seq(STRING)]

ASSUME AIControlAssumption ==
    /\ Lines \subseteq Line
    /\ MaxWrites \in Nat /\ MaxFailures \in Nat
    /\ MaxPerHook \in Nat \ {0}
    /\ BufLines \subseteq Nat /\ BufLines # {}
    /\ CutText \in STRING
    /\ MaxFeedback \in Nat \ {0}

VARIABLES
    controlFile,  \* lines in the control file, each with its write number
    written,      \* history: how many lines the AI wrote
    hook,         \* where z_ai_process_commands is: idle, read, clear, lines
    phase,        \* the phase the hook was called for
    buf,          \* cmd_buf: the lines read
    pos,          \* the next line of buf
    processed,    \* lines counted against max_commands_per_hook
    ctl,          \* ZAIControlState
    status,       \* the status file; the line of an event is history
    emptied,      \* history: the phases whose hook emptied the control file
    failures,     \* history: how often a hook failed to empty it
    lost          \* history: a line was erased by a hook that had not read it

aiVars == <<controlFile, written, hook, phase, buf, pos, processed, ctl, status,
            emptied, failures, lost>>

(***************************************************************************)
(* ZAIControlState.  The override strings live in heap cells; override[f]  *)
(* is the cell a pointer refers to, 0 for NULL.  A cell counts the calls   *)
(* of free() on it.                                                        *)
(***************************************************************************)
DefaultAllowed == {"status", "set-profile", "skip-phase", "set-param", "reset"}

NoOverrides == [f \in Fields |-> 0]

InitCtl(on) ==
    [enabled |-> on, allowed_commands |-> IF on THEN DefaultAllowed ELSE {},
     override |-> NoOverrides, heap |-> <<>>, abort_requested |-> FALSE,
     skip_remaining |-> FALSE, command_seq |-> 0,
     feedback_count |-> IF on THEN 1 ELSE 0]

CommandAllowed(c, kind) == /\ c.enabled
                           /\ kind \in Kinds
                           /\ kind \in c.allowed_commands

Free(h, p) == IF p = 0 THEN h ELSE [h EXCEPT ![p].frees = @ + 1]

FreeOverrides(c) ==
    Free(Free(Free(c.heap, c.override["profile"]), c.override["target"]),
         c.override["emit"])

SetOverride(c, f, v) ==
    [c EXCEPT !.heap = Append(Free(@, c.override[f]), [val |-> v, frees |-> 0]),
              !.override[f] = Len(c.heap) + 1]

\* Mutant of Reset: the strings are released, the pointers stay.
ResetKeepsPointers(c) ==
    [c EXCEPT !.heap = FreeOverrides(c), !.abort_requested = FALSE,
              !.skip_remaining = FALSE, !.allowed_commands = DefaultAllowed]

Reset(c) ==
    [c EXCEPT !.heap = FreeOverrides(c), !.override = NoOverrides,
              !.abort_requested = FALSE, !.skip_remaining = FALSE,
              !.allowed_commands = DefaultAllowed]

(***************************************************************************)
(* z_ai_parse_command.  The line handed to it is not terminated, so both   *)
(* searches (for the key and for "args") run to the end of the buffer: the *)
(* first match at or after the line wins.  Only a bare key matches, since  *)
(* the character after the word command must be a colon.                   *)
(***************************************************************************)
HasKey(e) == e.line.key = "bare"
HasArgs(e) == e.line.hasArgs

ParseCommand(b, i) ==
    LET k == SelectInSubSeq(b, i, Len(b), HasKey)
        a == SelectInSubSeq(b, i, Len(b), HasArgs)
    IN  [kind |-> IF k = 0 THEN "unknown" ELSE b[k].line.cmd,
         args |-> IF a = 0 THEN <<>> ELSE b[a].line.args]

\* The first n arguments are there and not empty.
ArgsGiven(cmd, n) == /\ Len(cmd.args) >= n
                     /\ \A j \in 1..n : cmd.args[j] # ""

(***************************************************************************)
(* z_ai_apply_command.  Setter(cmd) is the set of assignments to an        *)
(* override the command asks for: none or one.                             *)
(***************************************************************************)
DirectSetter == [k \in {"set-profile", "set-target", "set-emit-kind"} |->
                    CASE k = "set-profile" -> "profile"
                      [] k = "set-target" -> "target"
                      [] k = "set-emit-kind" -> "emit"]

Setter(cmd) ==
    {s \in Fields \X {cmd.args[j] : j \in DOMAIN cmd.args} :
        \/ /\ cmd.kind \in DOMAIN DirectSetter
           /\ ArgsGiven(cmd, 1)
           /\ s = <<DirectSetter[cmd.kind], cmd.args[1]>>
        \/ /\ cmd.kind = "set-param"
           /\ ArgsGiven(cmd, 2)
           /\ s = <<cmd.args[1], cmd.args[2]>>}

\* The value z_ai_apply_command returns.
ApplyOk(c, cmd) ==
    /\ CommandAllowed(c, cmd.kind)
    /\ \/ cmd.kind \in {"skip-phase", "abort", "reset", "status"}
       \/ cmd.kind \in DOMAIN DirectSetter /\ ArgsGiven(cmd, 1)
       \/ cmd.kind = "set-param" /\ ArgsGiven(cmd, 2)

ApplyCommand(c, cmd) ==
    IF ~ApplyOk(c, cmd) THEN c
    ELSE IF Setter(cmd) # {}
    THEN LET s == CHOOSE s \in Setter(cmd) : TRUE IN SetOverride(c, s[1], s[2])
    ELSE CASE cmd.kind = "skip-phase" -> [c EXCEPT !.skip_remaining = TRUE]
           [] cmd.kind = "abort" -> [c EXCEPT !.abort_requested = TRUE]
           [] cmd.kind = "reset" -> Reset(c)
           [] OTHER -> c   \* status, and set-param with a key of no effect

(***************************************************************************)
(* z_ai_send_feedback: one event to the status file, and to the in-memory  *)
(* table while there is room.                                              *)
(***************************************************************************)
\* Mutant of Count: the table's end is not checked.
CountUnbounded(c) == [c EXCEPT !.feedback_count = @ + 1]

Count(c) == [c EXCEPT !.feedback_count = IF @ < MaxFeedback THEN @ + 1 ELSE @]

Event(p, msg, kind, line) ==
    [phase |-> p, msg |-> msg, kind |-> kind, line |-> line]

AIInit ==
    /\ controlFile = <<>> /\ written = 0
    /\ hook = "idle" /\ phase = "init"
    /\ buf = <<>> /\ pos = 1 /\ processed = 0
    /\ emptied = {} /\ failures = 0 /\ lost = FALSE
    /\ \E on \in BOOLEAN :
          /\ ctl = InitCtl(on)
          /\ status = IF on THEN <<Event("init", "init", "none", 0)>> ELSE <<>>

-----------------------------------------------------------------------------
\* The AI (external) appends a line at any time, also while a hook runs.
\* Without --ai-control there is no control file.
AIWrite ==
    /\ ctl.enabled /\ written < MaxWrites
    /\ \E l \in Lines :
          controlFile' = Append(controlFile, [id |-> written + 1, line |-> l])
    /\ written' = written + 1
    /\ UNCHANGED <<hook, phase, buf, pos, processed, ctl, status, emptied, failures, lost>>

\* z_ai_process_commands is called for phase p, after the caller sent the
\* phase's own event (the resolve hook has none).  Without --ai-control, or
\* after an abort, it returns at once; the caller handles that.
StartHook(p) ==
    /\ hook = "idle" /\ ctl.enabled /\ ~ctl.abort_requested
    /\ hook' = "read" /\ phase' = p
    /\ IF p = "resolve"
       THEN UNCHANGED <<ctl, status>>
       ELSE /\ ctl' = Count(ctl)
            /\ status' = Append(status, Event(p, "phase", "none", 0))
    /\ UNCHANGED <<controlFile, written, buf, pos, processed, emptied, failures, lost>>

\* What may be left of a line's arguments: the first of them, and perhaps
\* the beginning of the next one.
CutArgs(args) ==
    LET firsts == {SubSeq(args, 1, n) : n \in 0..Len(args)}
    IN  firsts \cup {Append(a, CutText) : a \in firsts \ {args}}

\* What may be left of a line the buffer ends in: its command or none, its
\* arguments, a piece of them or none.
Fragments(l) ==
    LET pieces == IF l.hasArgs THEN CutArgs(l.args) ELSE {}
        cut == {[l EXCEPT !.hasArgs = FALSE, !.args = <<>>]}
                   \cup {[l EXCEPT !.args = a] : a \in pieces}
    IN  cut \cup {[m EXCEPT !.key = "none", !.cmd = "unknown"] : m \in cut}

\* ai_read_file: everything the file holds, cut at the size of cmd_buf.  A
\* cut just after a line is like one that leaves nothing of the next.
BufferOf(file) ==
    UNION {IF Len(file) <= n THEN {file}
           ELSE {Append(SubSeq(file, 1, n), [file[n + 1] EXCEPT !.line = l]) :
                    l \in Fragments(file[n + 1].line)} : n \in BufLines}

Ids(file) == {file[i].id : i \in 1..Len(file)}

ReadControl ==
    /\ hook = "read"
    /\ buf' \in BufferOf(controlFile)
    /\ hook' = IF controlFile = <<>> THEN "lines" ELSE "clear"
    /\ pos' = 1 /\ processed' = 0
    /\ UNCHANGED <<controlFile, written, phase, ctl, status, emptied, failures, lost>>

\* Mutant of ClearControl: fopen(control_path, "a"), which keeps the lines.
ClearForgotten ==
    /\ hook = "clear"
    /\ hook' = "lines" /\ emptied' = emptied \cup {phase}
    /\ UNCHANGED <<controlFile, written, phase, buf, pos, processed, ctl, status,
                   failures, lost>>

\* fopen(control_path, "w"): whatever the file holds now is gone.  It may
\* also fail, and the hook goes on with the file as it was.
ClearControl ==
    /\ hook = "clear"
    /\ hook' = "lines"
    /\ \/ /\ controlFile' = <<>> /\ emptied' = emptied \cup {phase}
          /\ lost' = (lost \/ ~(Ids(controlFile) \subseteq Ids(buf)))
          /\ UNCHANGED failures
       \/ /\ failures < MaxFailures /\ failures' = failures + 1
          /\ UNCHANGED <<controlFile, emptied, lost>>
    /\ UNCHANGED <<written, phase, buf, pos, processed, ctl, status>>

MoreLines == pos <= Len(buf) /\ processed < MaxPerHook

\* One turn of the loop over the lines of the buffer.
ProcessLine ==
    /\ hook = "lines" /\ MoreLines
    /\ LET cmd == ParseCommand(buf, pos)
           ok  == CommandAllowed(ctl, cmd.kind)
           msg == IF ok THEN "applied" ELSE "denied"
           ap  == ApplyCommand(ctl, cmd)
           seq == IF ok THEN [ap EXCEPT !.command_seq = @ + 1] ELSE ap
           answered == cmd.kind # "unknown" /\ (ok => ApplyOk(ctl, cmd))
       IN  /\ ctl' = IF answered THEN Count(seq) ELSE seq
           /\ status' = IF answered
                        THEN Append(status, Event(phase, msg, cmd.kind, buf[pos].id))
                        ELSE status
    /\ pos' = pos + 1 /\ processed' = processed + 1
    /\ UNCHANGED <<controlFile, written, hook, phase, buf, emptied, failures, lost>>

\* The end of z_ai_process_commands; lines over the limit are forgotten.
ReturnFromHook ==
    /\ hook' = "idle" /\ buf' = <<>> /\ pos' = 1 /\ processed' = 0
    /\ IF ctl.abort_requested
       THEN /\ ctl' = Count(ctl)
            /\ status' = Append(status, Event(phase, "abort", "none", 0))
       ELSE UNCHANGED <<ctl, status>>
    /\ UNCHANGED <<controlFile, written, phase, emptied, failures, lost>>

\* Mutant of EndHook: the loop ends with the buffer, not at the limit.
EndHookStuck == hook = "lines" /\ pos > Len(buf) /\ ReturnFromHook

EndHook == hook = "lines" /\ ~MoreLines /\ ReturnFromHook

\* The steps of the hook itself.
HookStep == ReadControl \/ ClearControl \/ ProcessLine \/ EndHook

\* main() reaches some of the hook points, each at most once.
NextHook == \E p \in Phases : PhaseRank[phase] < PhaseRank[p] /\ StartHook(p)

AINext == AIWrite \/ NextHook \/ HookStep

\* The compiler keeps running once a hook was entered; nothing obliges the
\* AI to write or the driver to reach another hook.
AISpec == AIInit /\ [][AINext]_aiVars /\ WF_aiVars(HookStep)

-----------------------------------------------------------------------------
Entry == [id : Nat, line : Line]
Cell == [val : STRING, frees : Nat]
Ctl == [enabled : BOOLEAN, allowed_commands : SUBSET Kinds,
        override : [Fields -> Nat], heap : Seq(Cell),
        abort_requested : BOOLEAN, skip_remaining : BOOLEAN,
        command_seq : Nat, feedback_count : 0..MaxFeedback]
StatusEvent == [phase : Phases \cup {"init"},
                msg : {"init", "phase", "applied", "denied", "abort"},
                kind : Kinds \cup {"none"}, line : Nat]

\* The type invariant of the control channel.
AITypeOK ==
    /\ controlFile \in Seq(Entry)
    /\ written \in Nat
    /\ hook \in {"idle", "read", "clear", "lines"}
    /\ phase \in Phases \cup {"init"}
    /\ buf \in Seq(Entry)
    /\ pos \in Nat \ {0}
    /\ processed \in 0..MaxPerHook
    /\ ctl \in Ctl
    /\ status \in Seq(StatusEvent)
    /\ emptied \subseteq Phases
    /\ failures \in Nat
    /\ lost \in BOOLEAN

\* Ownership of the override strings z_ai_apply_command allocates: a pointer
\* that is not NULL refers to a string that was not freed, no two pointers
\* share a string, and every string without a pointer was freed exactly
\* once.  Hence no dangling pointer, no leak and no double free, whatever
\* sequence of set-profile, set-param and reset the lines contain.
OverridesOwned ==
    LET o == ctl.override
        h == ctl.heap
    IN  /\ \A f \in Fields : o[f] \in 0..Len(h)
        /\ \A f \in Fields : o[f] # 0 => h[o[f]].frees = 0
        /\ \A f, g \in Fields : f # g /\ o[f] # 0 => o[f] # o[g]
        /\ \A p \in 1..Len(h) : (\A f \in Fields : o[f] # p) => h[p].frees = 1

\* Some hook from phase p on and before phase q emptied the control file.
EmptiedBetween(p, q) ==
    \E r \in emptied : PhaseRank[p] <= PhaseRank[r] /\ PhaseRank[r] < PhaseRank[q]

\* Within one hook the answers follow the order in which the lines were
\* written, and once the control file was emptied, no line that was answered
\* until then, and none older than it, is answered again.  Only while every
\* attempt to empty the file fails may later hooks repeat what earlier ones
\* answered: z_ai_process_commands does not look at the result of fopen.
AnswersInOrder ==
    \A i, j \in 1..Len(status) :
        /\ i < j /\ status[i].line # 0 /\ status[j].line # 0
        /\ status[j].line <= status[i].line
        => /\ PhaseRank[status[i].phase] < PhaseRank[status[j].phase]
           /\ ~EmptiedBetween(status[i].phase, status[j].phase)

\* No line is erased from the control file by a hook that has not read it.
NothingWiped == ~lost
=============================================================================
