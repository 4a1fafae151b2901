----------------------------- MODULE MirVerify -----------------------------
(***************************************************************************)
(* A function of the direct MIR: its locals are laid out in a stack frame  *)
(* (ir.c), the verifier checks the frame and then the instructions         *)
(* (mir_verify.c), and an accepted function runs.                          *)
(*                                                                         *)
(* Of the values only those matter here that make or use a byte buffer: a  *)
(* Maybe local may hold bytes that can be written, or not, and the         *)
(* verifier follows which over branches and loops.  Parameters, return     *)
(* types, the types of other values and the helper counts are left out.    *)
(* An unsigned integer has Word values, a size_t does not overflow.        *)
(***************************************************************************)
EXTENDS Integers, Sequences, FiniteSetsExt

CONSTANTS
    Word,        \* number of values of an unsigned integer
    Slot,        \* bytes and alignment of a plain local
    SlotMin,     \* bytes a plain local needs
    MaybeSize,   \* bytes of a local that may hold a byte buffer
    FrameAlign,  \* alignment of the frame
    Functions    \* functions considered: types of the locals, and code

VARIABLES
    fn,      \* the function
    phase,   \* "laying", "frame", "code", "rejected", "running", "returned"
    why,     \* the check that failed
    locals,  \* IrFunction.locals
    offset,  \* bytes laid out
    at,      \* index of the local being checked
    pc,      \* index of the instruction being checked or executed
    known,   \* MirVerifierState: locals known to hold writable bytes
    nest,    \* states kept for the branches and loops around pc
    holds,   \* at run time, what made the bytes a local holds
    again    \* at run time, a loop is back at its condition

frameVars == <<locals, offset, at>>
flowVars == <<known, nest>>
runVars == <<holds, again>>
vars == <<fn, phase, why, frameVars, pc, flowVars, runVars>>

Unsigned == 0 .. Word - 1
TypeOf(kind, element, len, size, align) ==
    [kind |-> kind, element |-> element, len |-> len, size |-> size, align |-> align]
Types == [kind : {"array", "record", "maybe", "value"},
          element : Unsigned, len : Unsigned, size : Unsigned, align : Unsigned \ {0}]
Instr(op, local, value, field, width) ==
    [op |-> op, local |-> local, value |-> value, field |-> field, width |-> width]
Operations == {"set", "use", "store", "if", "else", "while", "end", "return"}
(* Values that initialize a Maybe local; FS_READ_ALL and FS_TEMP_NAME are  *)
(* like ALLOC_BYTES, ENV_GET is like ARGS_GET.                             *)
Writable == {"ALLOC_BYTES"}
Producers == Writable \cup {"ARGS_GET"}
Instrs == [op : Operations, local : Nat, value : Producers \cup {"CALL", "none"},
           field : Unsigned, width : Unsigned]

(* Openers less ends of a code after i, up to j. *)
Depth(code, i, j) ==
    Cardinality({k \in i + 1 .. j : code[k].op \in {"if", "while"}})
        - Cardinality({k \in i + 1 .. j : code[k].op = "end"})
ElseIn(code, i) == Min({j \in i + 1 .. Len(code) : code[j].op = "else" /\ Depth(code, i, j) = 0})
EndIn(code, i) == Min({j \in i + 1 .. Len(code) : Depth(code, i, j) = -1})
(* The source keeps a code as a tree: branches and loops end, a branch has  *)
(* one else, and there are no other ends and elses.                        *)
WellNested(code) ==
    /\ \A i \in 1 .. Len(code) : code[i].op \in {"if", "while"} =>
          \E j \in i + 1 .. Len(code) : Depth(code, i, j) = -1
    /\ \A i \in 1 .. Len(code) : code[i].op = "if" =>
          \E j \in i + 1 .. EndIn(code, i) : code[j].op = "else" /\ Depth(code, i, j) = 0
    /\ \A j \in 1 .. Len(code) : code[j].op = "end" =>
          \E i \in 1 .. j : code[i].op \in {"if", "while"} /\ EndIn(code, i) = j
    /\ \A j \in 1 .. Len(code) : code[j].op = "else" =>
          \E i \in 1 .. j : code[i].op = "if" /\ ElseIn(code, i) = j /\ j < EndIn(code, i)

MirAssumption ==
    /\ Word \in Nat \ {0} /\ FrameAlign \in Nat \ {0}
    /\ {Slot, SlotMin, MaybeSize} \subseteq 1 .. Word - 1
    /\ SlotMin <= Slot
    /\ \A f \in Functions :
          f.types \in Seq(Types) /\ f.code \in Seq(Instrs) /\ WellNested(f.code)
ASSUME MirAssumption

AlignTo(value, align) ==
    IF value % align = 0 THEN value ELSE value + (align - (value % align))

----------------------------------------------------------------------------
(* The frame *)

(* ir_function_push_local: a product of two unsigned integers wraps, and a *)
(* record without bytes has the size of a plain local.                     *)
SizeOf(t) ==
    CASE t.kind = "array" -> (t.element * t.len) % Word
      [] t.kind = "record" -> IF t.size = 0 THEN Slot ELSE t.size
      [] t.kind = "maybe" -> MaybeSize
      [] t.kind = "value" -> Slot
AlignOf(t) == IF t.kind \in {"array", "record"} THEN t.align ELSE Slot

Local(t, end) == [type |-> t, size |-> SizeOf(t), align |-> AlignOf(t), end |-> end % Word]
Start(l) == l.end - l.size

(* Mutant of StorageMin: the product wraps. *)
StorageMinWraps(l) ==
    IF l.type.kind = "array" THEN (l.type.element * l.type.len) % Word
    ELSE CASE l.type.kind = "record" -> 1
           [] l.type.kind = "maybe" -> MaybeSize
           [] l.type.kind = "value" -> SlotMin
(* mir_type_storage_min_byte_size; 0 stands for a size that overflows.     *)
StorageMin(l) ==
    CASE l.type.kind = "array" ->
            IF l.type.element = 0 \/ l.type.len = 0 THEN 0
            ELSE IF l.type.len > (Word - 1) \div l.type.element THEN 0
            ELSE l.type.element * l.type.len
      [] l.type.kind = "record" -> 1
      [] l.type.kind = "maybe" -> MaybeSize
      [] l.type.kind = "value" -> SlotMin

FrameBytes == AlignTo(offset, FrameAlign)

Sized(l) == l.size # 0 /\ StorageMin(l) # 0 /\ l.size >= StorageMin(l)
InFrame(l) == l.size <= l.end /\ l.end <= FrameBytes
Aligned(l) == Start(l) % l.align = 0
AfterPrevious(i) == i > 1 => Start(locals[i]) >= locals[i - 1].end

----------------------------------------------------------------------------
(* The instructions *)

Code == fn.code
ElseOf(i) == ElseIn(Code, i)
EndOf(i) == EndIn(Code, i)
IsLocal(i) == i \in 1 .. Len(locals)

(* Mutant of SpanOK: the end of the field wraps. *)
SpanOKWraps(instr) ==
    LET l == locals[instr.local]
    IN instr.width > 0 /\ (instr.field + instr.width) % Word <= l.size
(* mir_verify_record_field_span *)
SpanOK(instr) ==
    LET l == locals[instr.local]
    IN instr.width > 0 /\ instr.field <= l.size /\ instr.width <= l.size - instr.field

Maybe(i) == IsLocal(i) /\ locals[i].type.kind = "maybe"

(* The contract of an instruction and of its value.                        *)
Allowed(instr) ==
    CASE instr.op = "set" -> Maybe(instr.local) /\ instr.value \in Producers
      [] instr.op = "use" -> Maybe(instr.local) /\ instr.local \in known
      [] instr.op = "while" ->
            instr.local # 0 => Maybe(instr.local) /\ instr.local \in known
      [] instr.op = "store" ->
            /\ IsLocal(instr.local) /\ locals[instr.local].type.kind = "record"
            /\ SpanOK(instr)
      [] OTHER -> TRUE

(* mir_apply_instr_state_effect *)
Effect(instr) ==
    IF instr.op # "set" THEN known
    ELSE IF instr.value \in Writable THEN known \cup {instr.local}
    ELSE known \ {instr.local}

----------------------------------------------------------------------------
Init ==
    /\ fn \in Functions
    /\ phase = "laying" /\ why = "none"
    /\ locals = <<>> /\ offset = 0 /\ at = 1 /\ pc = 1
    /\ known = {} /\ nest = <<>>
    /\ holds = <<>> /\ again = FALSE

Refuse(reason) ==
    /\ phase' = "rejected" /\ why' = reason
    /\ UNCHANGED <<fn, frameVars, pc, flowVars, runVars>>

(* Mutant of Placed: locals are not aligned. *)
PlacedAnywhere(t) == offset + SizeOf(t)
Placed(t) == AlignTo(offset, AlignOf(t)) + SizeOf(t)

(* ir_collect_function_locals: the offset is kept in a size_t and stored   *)
(* in an unsigned integer.                                                 *)
LayLocal ==
    /\ phase = "laying" /\ Len(locals) < Len(fn.types)
    /\ LET t == fn.types[Len(locals) + 1] IN
       /\ locals' = Append(locals, Local(t, Placed(t)))
       /\ offset' = Placed(t)
    /\ UNCHANGED <<fn, phase, why, at, pc, flowVars, runVars>>

LaidOut ==
    /\ phase = "laying" /\ Len(locals) = Len(fn.types)
    /\ phase' = "frame"
    /\ UNCHANGED <<fn, why, frameVars, pc, flowVars, runVars>>

(* One round of the loop of mir_verify_direct_function_contract. *)
CheckLocal ==
    /\ phase = "frame" /\ at <= Len(locals)
    /\ LET l == locals[at] IN
       IF ~ Sized(l) THEN Refuse("storage")
       ELSE IF ~ InFrame(l) THEN Refuse("outside")
       ELSE IF ~ Aligned(l) THEN Refuse("misaligned")
       ELSE IF ~ AfterPrevious(at) THEN Refuse("overlapping")
       ELSE /\ at' = at + 1
            /\ UNCHANGED <<fn, phase, why, locals, offset, pc, flowVars, runVars>>

(* The state starts with nothing known. *)
FrameChecked ==
    /\ phase = "frame" /\ at > Len(locals)
    /\ phase' = "code"
    /\ UNCHANGED <<fn, why, frameVars, pc, flowVars, runVars>>

Verifying(op) == phase = "code" /\ pc <= Len(Code) /\ Code[pc].op = op
Closing(op) == Verifying(op) /\ nest # <<>>
Top == nest[Len(nest)]
Below == SubSeq(nest, 1, Len(nest) - 1)
Entered(entry, first) == [from |-> pc, entry |-> entry, first |-> first]
Verified(next) == pc' = next /\ UNCHANGED <<fn, phase, why, frameVars, runVars>>

CheckInstr ==
    /\ \E op \in Operations \ {"else", "end"} : Verifying(op)
    /\ IF ~ Allowed(Code[pc]) THEN Refuse("instruction")
       ELSE /\ known' = Effect(Code[pc])
            /\ IF Code[pc].op \in {"if", "while"}
               THEN nest' = Append(nest, Entered(known, known)) ELSE UNCHANGED nest
            /\ Verified(pc + 1)

(* mir_verify_branch_instrs: the other branch starts from the same state,  *)
(* and what both leave is kept.                                            *)
CheckElse ==
    /\ Closing("else")
    /\ known' = Top.entry
    /\ nest' = Append(Below, [Top EXCEPT !.first = known])
    /\ Verified(pc + 1)

IsLoop(i) == Code[i].op = "while"

(* Mutant of Join: what either leaves is kept. *)
JoinEither(left, right) == left \cup right
Join(left, right) == left \cap right

CheckEndIf ==
    /\ Closing("end") /\ ~ IsLoop(Top.from)
    /\ known' = Join(Top.first, known) /\ nest' = Below
    /\ Verified(pc + 1)

(* Mutant of CheckEndLoop: the body is checked until it leaves the state   *)
(* it was entered with.                                                    *)
CheckEndLoopUntilSame ==
    /\ Closing("end") /\ IsLoop(Top.from)
    /\ LET next == Top.entry \cap known IN
       IF known # Top.entry
       THEN /\ known' = next /\ nest' = Append(Below, [Top EXCEPT !.entry = next])
            /\ Verified(Top.from + 1)
       ELSE known' = next /\ nest' = Below /\ Verified(pc + 1)
(* mir_verify_loop_instrs: the body is checked again from what its end     *)
(* left of the state it was entered with, until nothing is lost.           *)
CheckEndLoop ==
    /\ Closing("end") /\ IsLoop(Top.from)
    /\ LET next == Top.entry \cap known IN
       IF next # Top.entry
       THEN /\ known' = next /\ nest' = Append(Below, [Top EXCEPT !.entry = next])
            /\ Verified(Top.from + 1)
       ELSE known' = next /\ nest' = Below /\ Verified(pc + 1)

Accept ==
    /\ phase = "code" /\ pc > Len(Code)
    /\ phase' = "running" /\ pc' = 1
    /\ holds' = [i \in 1 .. Len(locals) |-> "none"]
    /\ UNCHANGED <<fn, why, frameVars, flowVars, again>>

----------------------------------------------------------------------------
(* The accepted function runs; a condition may be true or false.           *)

Running == phase = "running" /\ pc \in 1 .. Len(Code)
Here == Code[pc]
Continue(next) == pc' = next /\ UNCHANGED <<fn, phase, why, frameVars, flowVars>>

RunSet ==
    /\ Running /\ Here.op = "set"
    /\ holds' = [holds EXCEPT ![Here.local] = Here.value]
    /\ Continue(pc + 1) /\ UNCHANGED again
RunOther ==
    /\ Running /\ Here.op \in {"use", "store"}
    /\ Continue(pc + 1) /\ UNCHANGED runVars
RunIf ==
    /\ Running /\ Here.op = "if"
    /\ Continue(pc + 1) \/ Continue(ElseOf(pc) + 1)
    /\ UNCHANGED runVars
RunWhile ==
    /\ Running /\ Here.op = "while"
    /\ Continue(pc + 1) \/ Continue(EndOf(pc) + 1)
    /\ again' = FALSE /\ UNCHANGED holds
RunElse ==
    /\ Running /\ Here.op = "else"
    /\ Continue(EndOf(pc) + 1) /\ UNCHANGED runVars
OpenerOf(j) == CHOOSE i \in 1 .. j : Code[i].op \in {"if", "while"} /\ EndOf(i) = j
RunEnd ==
    /\ Running /\ Here.op = "end"
    /\ IF IsLoop(OpenerOf(pc))
       THEN Continue(OpenerOf(pc)) /\ again' = TRUE /\ UNCHANGED holds
       ELSE Continue(pc + 1) /\ UNCHANGED runVars
RunReturn ==
    /\ phase = "running" /\ (pc <= Len(Code) => Here.op = "return")
    /\ phase' = "returned"
    /\ UNCHANGED <<fn, why, frameVars, pc, flowVars, runVars>>

Lowering == LayLocal \/ LaidOut
Verifier ==
    \/ CheckLocal \/ FrameChecked
    \/ CheckInstr \/ CheckElse \/ CheckEndIf \/ CheckEndLoop \/ Accept
Run ==
    \/ RunSet \/ RunOther \/ RunIf \/ RunWhile \/ RunElse \/ RunEnd \/ RunReturn
Next == Lowering \/ Verifier \/ Run
(* Lowering and verifying are a sequential program; the function compiled  *)
(* may run for ever.                                                       *)
Spec == Init /\ [][Next]_vars /\ WF_vars(Lowering \/ Verifier)

----------------------------------------------------------------------------
(* Properties *)

Reasons == {"none", "storage", "outside", "misaligned", "overlapping", "instruction"}
Locals == [type : Types, size : Unsigned, align : Unsigned \ {0}, end : Unsigned]

FrameAccepted == phase \in {"code", "running", "returned"}
Bytes(l) == Start(l) .. l.end - 1

(* In an accepted frame every local has room for what it is declared to    *)
(* hold, inside the frame, and no two locals share a byte, although the    *)
(* verifier compares neighbours only and the offsets and products it       *)
(* compares may have wrapped (mir_verify_direct_function_contract).        *)
FrameSound ==
    FrameAccepted =>
        /\ \A i \in 1 .. Len(locals) :
              /\ 0 <= Start(locals[i]) /\ locals[i].end <= FrameBytes
              /\ Start(locals[i]) % locals[i].align = 0
              /\ locals[i].type.kind = "array" =>
                    locals[i].type.element * locals[i].type.len <= locals[i].size
        /\ \A i, j \in 1 .. Len(locals) :
              i < j => locals[i].end <= Start(locals[j])

(* A frame laid out by the lowering is refused only if it is too large for *)
(* an unsigned integer, or has an array that is, or one without elements.  *)
LoweredFramesAccepted ==
    phase = "rejected" /\ why # "instruction" =>
        \/ offset >= Word
        \/ \E i \in 1 .. Len(locals) :
              /\ locals[i].type.kind = "array"
              /\ locals[i].type.element * locals[i].type.len \notin 1 .. Word - 1

(* The store of a field writes bytes of its own local and of no other:     *)
(* mir_verify_record_field_span together with the frame.                   *)
StoresStayInside ==
    Running /\ Here.op = "store" =>
        LET first == Start(locals[Here.local]) + Here.field
        IN \A i \in 1 .. Len(locals) :
              (first .. first + Here.width - 1) \cap Bytes(locals[i]) =
                  IF i = Here.local THEN first .. first + Here.width - 1 ELSE {}

(* Whichever way an accepted function runs, a buffer that is written is    *)
(* one that can be, but for the condition of a loop that is evaluated      *)
(* again: mir_verify_direct_instrs checks it only in the state before the  *)
(* loop.                                                                   *)
UsesAreWritable ==
    /\ Running
    /\ Here.op = "use" \/ (Here.op = "while" /\ Here.local # 0 /\ ~ again)
    => holds[Here.local] \in Writable

(* The verifier ends, nested loops that are checked again included. *)
VerifierEnds == <>(phase \in {"rejected", "running", "returned"})
=============================================================================
