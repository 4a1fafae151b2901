---------------------------- MODULE MCMirVerify ----------------------------
(***************************************************************************)
(* Instance for TLC: an unsigned integer has 16 values and a plain local   *)
(* two bytes.  All frames of up to three locals, with arrays whose size    *)
(* wraps and frames that do; all codes of seven instructions over one byte *)
(* buffer, of six with conditions that use it, of four over two; all       *)
(* stores to two records.                                                  *)
(***************************************************************************)
EXTENDS MirVerify

MCWord == 16
MCSlot == 2
MCSlotMin == 1
MCMaybeSize == 6
MCFrameAlign == 4

Array(element, len) == TypeOf("array", element, len, 0, element)
Record(size, align) == TypeOf("record", 0, 0, size, align)
MaybeBytes == TypeOf("maybe", 0, 0, 0, 1)
Value == TypeOf("value", 0, 0, 0, 1)

FrameTypes ==
    {Array(1, 0), Array(1, 3), Array(1, 15), Array(2, 8), Array(4, 1), Array(4, 5),
     Record(0, 1), Record(5, 1), Record(4, 4), MaybeBytes, Value}

Lone(op) == Instr(op, 0, "none", 0, 0)
Set(local, producer) == Instr("set", local, producer, 0, 0)
Use(local) == Instr("use", local, "none", 0, 0)
While(local) == Instr("while", local, "none", 0, 0)
Store(local, field, width) == Instr("store", local, "none", field, width)

(* The codes of the next length, from those of all shorter ones (codes[1]  *)
(* has the code of length 0): a leaf, a branch or a loop, then the rest.   *)
Longer(codes, leaves, conditions) ==
    LET n == Len(codes)
    IN {<<leaf>> \o rest : leaf \in leaves, rest \in codes[n]}
       \cup UNION {{<<Lone("if")>> \o a \o <<Lone("else")>> \o b \o <<Lone("end")>> \o rest :
                      a \in codes[i], b \in codes[j], rest \in codes[n - i - j]} :
                   <<i, j>> \in {p \in (1 .. n) \X (1 .. n) : p[1] + p[2] < n}}
       \cup UNION {{<<While(c)>> \o a \o <<Lone("end")>> \o rest :
                      c \in conditions, a \in codes[i], rest \in codes[n - i]} :
                   i \in 1 .. n - 1}
RECURSIVE Codes(_, _, _, _)
Codes(codes, leaves, conditions, longest) ==
    IF Len(codes) > longest THEN codes[longest + 1]
    ELSE Codes(Append(codes, Longer(codes, leaves, conditions)), leaves, conditions, longest)

OneBuffer ==
    Codes(<<{<<>>}>>, {Set(1, "ALLOC_BYTES"), Set(1, "ARGS_GET"), Use(1)}, {0}, 7)
Conditions ==
    Codes(<<{<<>>}>>, {Set(1, "ALLOC_BYTES"), Set(1, "ARGS_GET")}, {0, 1}, 6)
TwoBuffers ==
    Codes(<<{<<>>}>>,
          {Set(1, "ALLOC_BYTES"), Set(1, "ARGS_GET"), Set(2, "CALL"), Set(2, "ALLOC_BYTES"),
           Use(1), Use(2), Use(3), Lone("return")}, {0}, 4)

MCFunctions ==
    [types : UNION {[1 .. n -> FrameTypes] : n \in 0 .. 3}, code : {<<>>}]
    \cup [types : {<<MaybeBytes>>}, code : OneBuffer \cup Conditions]
    \cup [types : {<<MaybeBytes, MaybeBytes>>}, code : TwoBuffers]
    \cup [types : {<<Record(5, 1), Record(4, 2), Value>>},
          code : {<<Store(l, field, width)>> :
                     l \in 1 .. 4, field \in 0 .. 15, width \in 0 .. 2}]
=============================================================================
