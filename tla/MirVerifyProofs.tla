-------------------------- MODULE MirVerifyProofs --------------------------
(***************************************************************************)
(* The frames, the field stores and the byte buffers of accepted           *)
(* functions, for every width of an unsigned integer and every set of      *)
(* functions.                                                              *)
(***************************************************************************)
EXTENDS MirVerify, SeqLemmas

Accepted(i) ==
    Sized(locals[i]) /\ InFrame(locals[i]) /\ Aligned(locals[i])

(* What the walk over the locals has established of those before at: each  *)
(* is accepted, and each ends before any later one begins.                 *)
WalkedFrame ==
    /\ \A i \in 1 .. Len(locals) : i < at => Accepted(i)
    /\ \A i, j \in 1 .. Len(locals) :
          i < j /\ j < at => locals[i].end <= Start(locals[j])

StoreOK(i) == Code[i].op = "store" => Allowed(Code[i])

Ordered(kept, end) ==
    /\ \A i \in 1 .. Len(kept) : kept[i].from < end
    /\ \A i, j \in 1 .. Len(kept) : i < j => kept[i].from < kept[j].from

(* No instruction before pc is a store that was not accepted; a loop goes  *)
(* back to an instruction that was passed before, and the branches and     *)
(* loops around it began before it did.                                    *)
WalkedCode ==
    /\ phase = "code" => Ordered(nest, pc)
    /\ phase = "code" => \A i \in 1 .. Len(Code) : i < pc => StoreOK(i)
    /\ phase \in {"running", "returned"} => \A i \in 1 .. Len(Code) : StoreOK(i)

Kept == [from : Nat \ {0}, entry : SUBSET Nat, first : SUBSET Nat]
Shapes ==
    /\ fn \in Functions
    /\ phase \in {"laying", "frame", "code", "rejected", "running", "returned"}
    /\ locals \in Seq(Locals) /\ offset \in Nat
    /\ at \in Nat \ {0}
    /\ phase = "laying" => at = 1
    /\ phase \in {"laying", "frame"} => nest = <<>> /\ pc = 1
    /\ known \in SUBSET Nat
    /\ phase = "code" => pc \in Nat \ {0} /\ nest \in Seq(Kept)
    /\ FrameAccepted => at > Len(locals)

MirInv == Shapes /\ WalkedFrame /\ WalkedCode

(* The arithmetic of the layout. *)
LEMMA Modulo == \A x \in Nat : x % Word \in Unsigned
  BY MirAssumption DEF MirAssumption, Unsigned

LEMMA SizesAreUnsigned == \A t \in Types : SizeOf(t) \in Unsigned /\ AlignOf(t) \in Unsigned \ {0}
<1> TAKE t \in Types
<1>1. t.element \in Nat /\ t.len \in Nat /\ t.size \in Unsigned /\ t.align \in Unsigned \ {0}
  BY MirAssumption DEF Types, Unsigned, MirAssumption
<1>2. t.element * t.len \in Nat
  BY <1>1
<1>3. (t.element * t.len) % Word \in Unsigned
  BY <1>2, Modulo
<1>4. Slot \in Unsigned \ {0} /\ MaybeSize \in Unsigned
  BY MirAssumption DEF MirAssumption, Unsigned
<1>5. t.kind \in {"array", "record", "maybe", "value"}
  BY DEF Types
<1> QED
  BY <1>1, <1>3, <1>4, <1>5 DEF SizeOf, AlignOf

LEMMA AlignedUp == \A x \in Nat, a \in Nat \ {0} : AlignTo(x, a) \in Nat
  BY DEF AlignTo

LEMMA TypesOfFunctions == ASSUME fn \in Functions
                          PROVE fn.types \in Seq(Types) /\ fn.code \in Seq(Instrs)
  BY MirAssumption DEF MirAssumption

(* A local as it is laid out. *)
LEMMA LaidLocal ==
    ASSUME offset \in Nat, NEW t \in Types
    PROVE Placed(t) \in Nat /\ Local(t, Placed(t)) \in Locals
<1>1. SizeOf(t) \in Unsigned /\ AlignOf(t) \in Unsigned \ {0}
  BY SizesAreUnsigned
<1>2. Placed(t) \in Nat
  BY <1>1, AlignedUp DEF Placed, Unsigned
<1> QED
  BY <1>1, <1>2, Modulo DEF Local, Locals

(* FrameSound and the stores follow from the invariant. *)
LEMMA WalkedIsSound == MirInv => FrameSound
<1> SUFFICES ASSUME MirInv, FrameAccepted PROVE FrameSound
  BY DEF FrameSound
<1>1. /\ \A i \in 1 .. Len(locals) : Accepted(i) /\ locals[i] \in Locals
      /\ \A i, j \in 1 .. Len(locals) : i < j => locals[i].end <= Start(locals[j])
  BY DEF MirInv, Shapes, WalkedFrame
<1>2. ASSUME NEW i \in 1 .. Len(locals)
      PROVE /\ 0 <= Start(locals[i]) /\ locals[i].end <= FrameBytes
            /\ Start(locals[i]) % locals[i].align = 0
            /\ locals[i].type.kind = "array" =>
                  locals[i].type.element * locals[i].type.len <= locals[i].size
  <2>1. Sized(locals[i]) /\ InFrame(locals[i]) /\ Aligned(locals[i]) /\ locals[i] \in Locals
    BY <1>1 DEF Accepted
  <2>2. locals[i].size \in Nat /\ locals[i].end \in Nat /\ locals[i].type \in Types
    BY <2>1 DEF Locals, Unsigned
  <2>3. 0 <= Start(locals[i]) /\ locals[i].end <= FrameBytes
    BY <2>1, <2>2 DEF InFrame, Start
  <2>4. ASSUME locals[i].type.kind = "array"
        PROVE locals[i].type.element * locals[i].type.len <= locals[i].size
    BY <2>1, <2>4 DEF Sized, StorageMin
  <2> QED
    BY <2>1, <2>3, <2>4 DEF Aligned
<1> QED
  BY <1>1, <1>2 DEF FrameSound

(* Two intervals: one that lies in the other, and two that lie apart.      *)
LEMMA Inside == \A a, b, c, d \in Int : c <= a /\ b <= d => (a .. b) \cap (c .. d) = a .. b
  OBVIOUS
LEMMA Apart == \A a, b, c, d \in Int : b < c \/ d < a => (a .. b) \cap (c .. d) = {}
  OBVIOUS

(* The field of a store that is allowed, in a frame whose locals are       *)
(* disjoint.                                                               *)
LEMMA FieldIsInside ==
    ASSUME NEW l \in Locals, NEW other \in Locals, NEW field \in Nat, NEW width \in Nat,
           field <= l.size, width <= l.size - field
    PROVE /\ LET first == Start(l) + field
             IN (first .. first + width - 1) \cap Bytes(l) = first .. first + width - 1
          /\ other.end <= Start(l) \/ l.end <= Start(other) =>
                LET first == Start(l) + field
                IN (first .. first + width - 1) \cap Bytes(other) = {}
<1>1. /\ l.size \in Nat /\ l.end \in Nat /\ other.size \in Nat /\ other.end \in Nat
  BY DEF Locals, Unsigned
<1>2. Start(l) \in Int /\ Start(other) \in Int /\ l.end = Start(l) + l.size
  BY <1>1 DEF Start
<1> DEFINE first == Start(l) + field
<1>3. /\ first \in Int /\ Start(l) <= first /\ first + width - 1 <= l.end - 1
      /\ first + width - 1 \in Int /\ l.end - 1 \in Int /\ other.end - 1 \in Int
  BY <1>1, <1>2
<1>4. (first .. first + width - 1) \cap (Start(l) .. l.end - 1) = first .. first + width - 1
  BY <1>2, <1>3, Inside
<1>5. ASSUME other.end <= Start(l) \/ l.end <= Start(other)
      PROVE (first .. first + width - 1) \cap (Start(other) .. other.end - 1) = {}
  <2>1. other.end - 1 < first \/ first + width - 1 < Start(other)
    BY <1>1, <1>2, <1>3, <1>5
  <2> HIDE DEF first
  <2> QED
    BY <2>1, <1>2, <1>3, Apart
<1> QED
  BY <1>4, <1>5 DEF Bytes

LEMMA WalkedStores == MirInv => StoresStayInside
<1> SUFFICES ASSUME MirInv, Running, Here.op = "store",
                    NEW i \in 1 .. Len(locals)
             PROVE LET first == Start(locals[Here.local]) + Here.field
                   IN (first .. first + Here.width - 1) \cap Bytes(locals[i]) =
                        IF i = Here.local THEN first .. first + Here.width - 1 ELSE {}
  BY DEF StoresStayInside
<1>1. Here \in Instrs /\ pc \in 1 .. Len(Code)
  BY TypesOfFunctions DEF MirInv, Shapes, Running, Here, Code
<1>2. Here.field \in Nat /\ Here.width \in Nat
  BY <1>1, MirAssumption DEF Instrs, Unsigned, MirAssumption
<1>3. Allowed(Here)
  BY <1>1 DEF MirInv, WalkedCode, StoreOK, Running, Here
<1>4. /\ Here.local \in 1 .. Len(locals)
      /\ Here.field <= locals[Here.local].size
      /\ Here.width <= locals[Here.local].size - Here.field
  BY <1>3 DEF Allowed, IsLocal, SpanOK
<1>5. locals[i] \in Locals /\ locals[Here.local] \in Locals
  BY <1>4 DEF MirInv, Shapes
<1>6. \A j, k \in 1 .. Len(locals) : j < k => locals[j].end <= Start(locals[k])
  BY DEF MirInv, Shapes, WalkedFrame, FrameAccepted, Running
<1>7. i # Here.local =>
        \/ locals[i].end <= Start(locals[Here.local])
        \/ locals[Here.local].end <= Start(locals[i])
  BY <1>4, <1>6
<1> QED
  BY <1>2, <1>4, <1>5, <1>7, FieldIsInside

LEMMA InitHolds == Init => MirInv
  BY DEF Init, MirInv, Shapes, WalkedFrame, WalkedCode, FrameAccepted

(* What keeps the frame, and is not in the code, keeps the invariant.      *)
LEMMA LayLocalHolds == ASSUME MirInv, LayLocal PROVE MirInv'
<1> DEFINE t == fn.types[Len(locals) + 1]
<1>1. t \in Types
  BY TypesOfFunctions DEF MirInv, Shapes, LayLocal
<1>2. Placed(t) \in Nat /\ Local(t, Placed(t)) \in Locals
  BY <1>1, LaidLocal DEF MirInv, Shapes
<1>3. locals' \in Seq(Locals) /\ offset' \in Nat
  BY <1>2 DEF LayLocal, MirInv, Shapes
<1>4. phase' = "laying" /\ at' = 1
  BY DEF LayLocal, MirInv, Shapes
<1>5. Shapes'
  BY <1>3, <1>4 DEF LayLocal, MirInv, Shapes, FrameAccepted, flowVars, runVars
<1>6. WalkedFrame' /\ WalkedCode'
  BY <1>4 DEF WalkedFrame, WalkedCode
<1> QED
  BY <1>5, <1>6 DEF MirInv

(* A local's size is no negative number.                                   *)
LEMMA StartBeforeEnd ==
    ASSUME NEW l \in Locals
    PROVE l.end \in Nat /\ Start(l) \in Int /\ Start(l) <= l.end
<1>1. Unsigned \subseteq Nat
  BY MirAssumption DEF Unsigned
<1>2. l.end \in Nat /\ l.size \in Nat
  BY <1>1 DEF Locals
<1> QED
  BY <1>2 DEF Start

LEMMA CheckLocalHolds == ASSUME MirInv, CheckLocal PROVE MirInv'
<1>1. at \in 1 .. Len(locals) /\ locals \in Seq(Locals)
  BY DEF CheckLocal, MirInv, Shapes
<1>2. CASE \E reason \in Reasons : Refuse(reason)
  BY <1>2 DEF Refuse, MirInv, Shapes, WalkedFrame, WalkedCode, FrameAccepted, Accepted,
              Sized, InFrame, Aligned, Start, StorageMin, FrameBytes, frameVars, flowVars, runVars
<1>3. CASE /\ Accepted(at) /\ AfterPrevious(at)
           /\ at' = at + 1
           /\ UNCHANGED <<fn, phase, why, locals, offset, pc, flowVars, runVars>>
  <2>1. phase' = "frame" /\ locals' = locals /\ offset' = offset /\ at' = at + 1
    BY <1>3 DEF CheckLocal
  <2>2. Shapes'
    BY <1>3, <2>1 DEF MirInv, Shapes, FrameAccepted, flowVars
  <2>3. \A i \in 1 .. Len(locals') : i < at' => Accepted(i)'
    <3>1. fn' = fn /\ offset' = offset
      BY <1>3
    <3>2. FrameBytes' = FrameBytes
      BY <3>1 DEF FrameBytes
    <3>3. \A i : Accepted(i)' = Accepted(i)
      BY <2>1, <3>1, <3>2 DEF Accepted, Sized, InFrame, Aligned, Start, StorageMin
    <3> SUFFICES ASSUME NEW i \in 1 .. Len(locals), i < at + 1 PROVE Accepted(i)
      BY <2>1, <3>3
    <3> QED
      BY <1>1, <1>3 DEF MirInv, WalkedFrame
  <2>4. ASSUME NEW i \in 1 .. Len(locals), NEW j \in 1 .. Len(locals), i < j, j < at + 1
        PROVE locals[i].end <= Start(locals[j])
    <3>1. CASE j < at
      BY <3>1, <2>4 DEF MirInv, WalkedFrame
    <3>2. CASE j = at
      <4>1. i \in Nat /\ at \in Nat /\ at - 1 \in 1 .. Len(locals) /\ i <= at - 1
        BY <1>1, <2>4, <3>2
      <4>2. locals[at - 1].end <= Start(locals[at])
        BY <1>3, <4>1 DEF AfterPrevious
      <4>3. /\ locals[i] \in Locals /\ locals[at - 1] \in Locals /\ locals[at] \in Locals
        BY <1>1, <4>1
      <4>4. /\ locals[i].end \in Nat /\ locals[at - 1].end \in Nat
            /\ Start(locals[at - 1]) <= locals[at - 1].end /\ Start(locals[at]) \in Int
        BY <4>3, StartBeforeEnd
      <4>5. locals[i].end <= locals[at - 1].end
        <5>1. CASE i = at - 1
          BY <5>1, <4>4
        <5>2. CASE i < at - 1
          <6>1. locals[i].end <= Start(locals[at - 1])
            BY <5>2, <4>1 DEF MirInv, WalkedFrame
          <6>2. Start(locals[at - 1]) \in Int
            BY <4>3, StartBeforeEnd
          <6> QED
            BY <6>1, <6>2, <4>4
        <5> QED
          BY <5>1, <5>2, <4>1
      <4> QED
        BY <4>2, <4>4, <4>5, <3>2
    <3> QED
      BY <3>1, <3>2, <2>4, <1>1
  <2>5. WalkedFrame'
    BY <2>1, <2>3, <2>4 DEF WalkedFrame, Start
  <2>6. WalkedCode'
    BY <2>1 DEF WalkedCode
  <2> QED
    BY <2>2, <2>5, <2>6 DEF MirInv
<1> QED
  BY <1>2, <1>3 DEF CheckLocal, Reasons, Accepted
LEMMA LaidOutHolds == ASSUME MirInv, LaidOut PROVE MirInv'
  BY DEF LaidOut, MirInv, Shapes, WalkedFrame, WalkedCode, FrameAccepted, Accepted,
         Sized, InFrame, Aligned, Start, StorageMin, FrameBytes, frameVars, flowVars, runVars

(* Steps that leave the frame alone. *)
LEMMA FrameStays ==
    ASSUME MirInv, UNCHANGED frameVars
    PROVE WalkedFrame'
  BY DEF MirInv, WalkedFrame, Accepted, Sized, InFrame, Aligned, Start, StorageMin,
         FrameBytes, frameVars

(* Whether a store is allowed depends on the frame only. *)
LEMMA StoresStay ==
    ASSUME UNCHANGED <<fn, locals>>, NEW i \in 1 .. Len(Code)
    PROVE StoreOK(i)' <=> StoreOK(i)
  BY DEF StoreOK, Allowed, Code, IsLocal, SpanOK

(* The states kept are those of the branches and loops around pc, the      *)
(* outermost first: one is put on top, and one is taken off.               *)
LEMMA KeptFrom == \A e \in Kept : e.from \in Nat \ {0}
  BY DEF Kept

LEMMA Pushed ==
    ASSUME NEW kept \in Seq(Kept), NEW e \in Kept, NEW end \in Nat,
           Ordered(kept, e.from), e.from < end
    PROVE Append(kept, e) \in Seq(Kept) /\ Ordered(Append(kept, e), end)
<1> DEFINE s == Append(kept, e)
<1>1. s \in Seq(Kept) /\ Len(s) = Len(kept) + 1 /\ Len(kept) \in Nat
  OBVIOUS
<1>2. \A i \in 1 .. Len(kept) : s[i] = kept[i] /\ kept[i].from \in Nat
  BY KeptFrom
<1>3. s[Len(kept) + 1] = e /\ e.from \in Nat
  BY KeptFrom
<1> HIDE DEF s
<1>4. \A i \in 1 .. Len(s) : i \in 1 .. Len(kept) \/ i = Len(kept) + 1
  BY <1>1
<1>5. \A i \in 1 .. Len(s) : s[i].from < end
  BY <1>2, <1>3, <1>4 DEF Ordered
<1>6. ASSUME NEW i \in 1 .. Len(s), NEW j \in 1 .. Len(s), i < j
      PROVE s[i].from < s[j].from
  <2>1. i \in 1 .. Len(kept)
    BY <1>1, <1>6
  <2> QED
    BY <2>1, <1>2, <1>3, <1>4, <1>6 DEF Ordered
<1> QED
  BY <1>1, <1>5, <1>6 DEF Ordered, s

LEMMA Popped ==
    ASSUME NEW kept \in Seq(Kept), kept # <<>>, NEW end \in Nat, Ordered(kept, end)
    PROVE LET below == SubSeq(kept, 1, Len(kept) - 1)
              top == kept[Len(kept)]
          IN /\ top \in Kept /\ top.from < end
             /\ below \in Seq(Kept) /\ Ordered(below, top.from)
<1> DEFINE below == SubSeq(kept, 1, Len(kept) - 1)
<1>1. Len(kept) \in Nat \ {0} /\ kept[Len(kept)] \in Kept
  OBVIOUS
<1>2. \A i \in 1 .. Len(kept) - 1 : kept[i] \in Kept
  BY <1>1
<1>3. /\ below \in Seq(Kept) /\ Len(below) = Len(kept) - 1
      /\ \A i \in 1 .. Len(below) : i \in 1 .. Len(kept) /\ below[i] = kept[i]
  <2>1. 1 \in Int /\ Len(kept) - 1 \in Int /\ Len(kept) - 1 >= 0
    BY <1>1
  <2>2. /\ below \in Seq(Kept)
        /\ Len(below) = IF 1 <= Len(kept) - 1 THEN (Len(kept) - 1) - 1 + 1 ELSE 0
        /\ \A i \in 1 .. (Len(kept) - 1) - 1 + 1 : below[i] = kept[1 + i - 1]
    BY <2>1, <1>2, SubSeqProperties
  <2> HIDE DEF below
  <2>3. Len(below) = Len(kept) - 1
    <3>1. CASE Len(kept) = 1
      BY <3>1, <2>2
    <3>2. CASE Len(kept) # 1
      <4>1. 1 <= Len(kept) - 1 /\ (Len(kept) - 1) - 1 + 1 = Len(kept) - 1
        <5>1. \A n \in Nat : n # 0 /\ n # 1 => 1 <= n - 1 /\ (n - 1) - 1 + 1 = n - 1
          OBVIOUS
        <5>2. Len(kept) \in Nat /\ Len(kept) # 0
          BY <1>1
        <5> QED
          BY <5>1, <5>2, <3>2, Zenon
      <4> QED
        BY <4>1, <2>2
    <3> QED
      BY <3>1, <3>2
  <2>4. ASSUME NEW i \in 1 .. Len(below) PROVE i \in 1 .. Len(kept) /\ below[i] = kept[i]
    <3>1. i \in 1 .. (Len(kept) - 1) - 1 + 1 /\ 1 + i - 1 = i /\ i \in 1 .. Len(kept)
      BY <2>3, <1>1
    <3> QED
      BY <3>1, <2>2
  <2> QED
    BY <2>2, <2>3, <2>4
<1> HIDE DEF below
<1>4. \A i \in 1 .. Len(below) : below[i].from < kept[Len(kept)].from
  BY <1>1, <1>3 DEF Ordered
<1>5. \A i, j \in 1 .. Len(below) : i < j => below[i].from < below[j].from
  BY <1>3 DEF Ordered
<1>6. kept[Len(kept)].from < end
  BY <1>1 DEF Ordered
<1> QED
  BY <1>1, <1>3, <1>4, <1>5, <1>6 DEF Ordered, below

LEMMA Later ==
    ASSUME NEW kept \in Seq(Kept), NEW end \in Nat, NEW later \in Nat, end <= later,
           Ordered(kept, end)
    PROVE Ordered(kept, later)
  BY KeptFrom DEF Ordered

(* What a step over the code that accepts has to show. *)
LEMMA KnownIsSet == ASSUME MirInv, pc \in 1 .. Len(Code) PROVE Effect(Code[pc]) \in SUBSET Nat
<1>1. Code \in Seq(Instrs)
  BY TypesOfFunctions DEF MirInv, Shapes, Code
<1>2. Code[pc] \in Instrs
  BY <1>1
<1>3. Code[pc].local \in Nat
  BY <1>2 DEF Instrs
<1> QED
  BY <1>3 DEF Effect, MirInv, Shapes

LEMMA Passed ==
    ASSUME MirInv, phase = "code", phase' = "code", UNCHANGED <<fn, frameVars>>,
           known' \in SUBSET Nat, pc' \in Nat \ {0},
           nest' \in Seq(Kept), Ordered(nest', pc'),
           \A i \in 1 .. Len(Code) : i < pc' => StoreOK(i)
    PROVE MirInv'
<1>1. WalkedFrame'
  BY FrameStays
<1>2. Code' = Code /\ \A i \in 1 .. Len(Code) : StoreOK(i)' <=> StoreOK(i)
  BY StoresStay DEF frameVars, Code
<1>3. Shapes'
  BY DEF MirInv, Shapes, FrameAccepted, frameVars
<1>4. WalkedCode'
  BY <1>2 DEF WalkedCode, Ordered
<1> QED
  BY <1>1, <1>3, <1>4 DEF MirInv

LEMMA FrameCheckedHolds == ASSUME MirInv, FrameChecked PROVE MirInv'
<1>1. /\ phase = "frame" /\ phase' = "code" /\ at > Len(locals)
      /\ UNCHANGED <<fn, frameVars>> /\ known' = known /\ nest' = nest /\ pc' = pc
  BY DEF FrameChecked, flowVars
<1>2. nest = <<>> /\ pc = 1 /\ WalkedFrame'
  BY <1>1, FrameStays DEF MirInv, Shapes
<1>3. Shapes'
  BY <1>1, <1>2 DEF MirInv, Shapes, FrameAccepted, frameVars
<1>4. Len(nest') = 0 /\ pc' = 1
  BY <1>1, <1>2
<1>5. WalkedCode'
  BY <1>1, <1>4 DEF WalkedCode, Ordered
<1> QED
  BY <1>2, <1>3, <1>5 DEF MirInv

(* The instruction at pc is not a store, or it is one that is allowed. *)
LEMMA OneMore ==
    ASSUME MirInv, phase = "code", pc \in 1 .. Len(Code), StoreOK(pc)
    PROVE \A i \in 1 .. Len(Code) : i < pc + 1 => StoreOK(i)
<1>1. \A i \in 1 .. Len(Code) : i < pc => StoreOK(i)
  BY DEF MirInv, WalkedCode
<1> QED
  BY <1>1

LEMMA CheckInstrHolds == ASSUME MirInv, CheckInstr PROVE MirInv'
<1>1. /\ pc \in 1 .. Len(Code) /\ phase = "code" /\ known \in SUBSET Nat
      /\ nest \in Seq(Kept) /\ Ordered(nest, pc)
  BY DEF CheckInstr, Verifying, MirInv, Shapes, WalkedCode
<1>2. CASE Refuse("instruction")
  BY <1>2, <1>1, FrameStays
     DEF Refuse, MirInv, Shapes, WalkedCode, FrameAccepted, frameVars, flowVars
<1>3. CASE Allowed(Code[pc]) /\ known' = Effect(Code[pc]) /\ Verified(pc + 1)
  <2>1. phase' = "code" /\ pc' = pc + 1 /\ UNCHANGED <<fn, frameVars>>
    BY <1>1, <1>3 DEF Verified
  <2>2. known' \in SUBSET Nat
    BY <1>1, <1>3, KnownIsSet
  <2>3. nest' = nest \/ nest' = Append(nest, Entered(known, known))
    BY <1>1, <1>3 DEF CheckInstr, Refuse
  <2>4. Entered(known, known) \in Kept /\ Entered(known, known).from = pc
    BY <1>1 DEF Entered, Kept
  <2>5. nest' \in Seq(Kept) /\ Ordered(nest', pc + 1)
    <3>1. pc \in Nat /\ pc + 1 \in Nat /\ pc < pc + 1
      BY <1>1
    <3>2. Ordered(nest, pc + 1)
      BY <3>1, <1>1, Later
    <3>3. Ordered(Append(nest, Entered(known, known)), pc + 1)
          /\ Append(nest, Entered(known, known)) \in Seq(Kept)
      BY <3>1, <1>1, <2>4, Pushed
    <3> QED
      BY <3>2, <3>3, <2>3, <1>1
  <2>6. \A i \in 1 .. Len(Code) : i < pc + 1 => StoreOK(i)
    BY <1>1, <1>3, OneMore DEF StoreOK
  <2> QED
    BY <2>1, <2>2, <2>5, <2>6, <1>1, Passed
<1> QED
  BY <1>2, <1>3 DEF CheckInstr

(* What is below the top of the states kept. *)
LEMMA AtClosing ==
    ASSUME MirInv, NEW op \in {"else", "end"}, Closing(op)
    PROVE /\ pc \in 1 .. Len(Code) /\ phase = "code" /\ known \in SUBSET Nat
          /\ Top \in Kept /\ Top.from < pc
          /\ Below \in Seq(Kept) /\ Ordered(Below, Top.from)
          /\ \A i \in 1 .. Len(Code) : i < pc + 1 => StoreOK(i)
<1>1. /\ pc \in 1 .. Len(Code) /\ phase = "code" /\ known \in SUBSET Nat
      /\ nest \in Seq(Kept) /\ Ordered(nest, pc) /\ nest # <<>>
      /\ Code[pc].op = op
  BY DEF Closing, Verifying, MirInv, Shapes, WalkedCode
<1>2. /\ Top \in Kept /\ Top.from < pc
      /\ Below \in Seq(Kept) /\ Ordered(Below, Top.from)
  BY <1>1, Popped DEF Top, Below
<1>3. StoreOK(pc)
  BY <1>1 DEF StoreOK
<1> QED
  BY <1>1, <1>2, <1>3, OneMore

LEMMA CheckElseHolds == ASSUME MirInv, CheckElse PROVE MirInv'
<1>1. /\ pc \in 1 .. Len(Code) /\ phase = "code" /\ known \in SUBSET Nat
      /\ Top \in Kept /\ Top.from < pc
      /\ Below \in Seq(Kept) /\ Ordered(Below, Top.from)
      /\ \A i \in 1 .. Len(Code) : i < pc + 1 => StoreOK(i)
  BY AtClosing DEF CheckElse
<1>2. /\ phase' = "code" /\ pc' = pc + 1 /\ UNCHANGED <<fn, frameVars>>
      /\ known' = Top.entry
      /\ nest' = Append(Below, [Top EXCEPT !.first = known])
  BY <1>1 DEF CheckElse, Verified
<1>3. [Top EXCEPT !.first = known] \in Kept /\ [Top EXCEPT !.first = known].from = Top.from
  BY <1>1 DEF Kept
<1>4. Top.entry \in SUBSET Nat /\ Top.from \in Nat
  BY <1>1 DEF Kept
<1>5. pc + 1 \in Nat \ {0} /\ Top.from < pc + 1
  BY <1>1, <1>4
<1>6. nest' \in Seq(Kept) /\ Ordered(nest', pc')
  BY <1>1, <1>2, <1>3, <1>5, Pushed
<1> QED
  BY <1>1, <1>2, <1>4, <1>5, <1>6, Passed

LEMMA CheckEndIfHolds == ASSUME MirInv, CheckEndIf PROVE MirInv'
<1>1. /\ pc \in 1 .. Len(Code) /\ phase = "code" /\ known \in SUBSET Nat
      /\ Top \in Kept /\ Top.from < pc
      /\ Below \in Seq(Kept) /\ Ordered(Below, Top.from)
      /\ \A i \in 1 .. Len(Code) : i < pc + 1 => StoreOK(i)
  BY AtClosing DEF CheckEndIf
<1>2. /\ phase' = "code" /\ pc' = pc + 1 /\ UNCHANGED <<fn, frameVars>>
      /\ known' = Join(Top.first, known) /\ nest' = Below
  BY <1>1 DEF CheckEndIf, Verified
<1>3. Top.from \in Nat /\ pc + 1 \in Nat \ {0} /\ Top.from <= pc + 1
  BY <1>1 DEF Kept
<1>4. Ordered(nest', pc')
  BY <1>1, <1>2, <1>3, Later
<1>5. known' \in SUBSET Nat
  BY <1>1, <1>2 DEF Join
<1> QED
  BY <1>1, <1>2, <1>3, <1>4, <1>5, Passed

LEMMA CheckEndLoopHolds == ASSUME MirInv, CheckEndLoop PROVE MirInv'
<1>1. /\ pc \in 1 .. Len(Code) /\ phase = "code" /\ known \in SUBSET Nat
      /\ Top \in Kept /\ Top.from < pc
      /\ Below \in Seq(Kept) /\ Ordered(Below, Top.from)
      /\ \A i \in 1 .. Len(Code) : i < pc + 1 => StoreOK(i)
  BY AtClosing DEF CheckEndLoop
<1> DEFINE next == Top.entry \cap known
<1>2. /\ Top.from \in Nat \ {0} /\ Top.from + 1 \in Nat \ {0} /\ pc + 1 \in Nat \ {0}
      /\ Top.from < Top.from + 1 /\ Top.from + 1 <= pc /\ Top.from <= pc + 1
      /\ next \in SUBSET Nat
  BY <1>1 DEF Kept
<1>3. phase' = "code" /\ UNCHANGED <<fn, frameVars>> /\ known' = next
  BY <1>1 DEF CheckEndLoop, Verified
<1>4. CASE pc' = Top.from + 1 /\ nest' = Append(Below, [Top EXCEPT !.entry = next])
  <2>1. /\ [Top EXCEPT !.entry = next] \in Kept
        /\ [Top EXCEPT !.entry = next].from = Top.from
    BY <1>1, <1>2 DEF Kept
  <2>2. nest' \in Seq(Kept) /\ Ordered(nest', pc')
    BY <2>1, <1>1, <1>2, <1>4, Pushed
  <2>3. \A i \in 1 .. Len(Code) : i < Top.from + 1 => StoreOK(i)
    BY <1>1, <1>2
  <2> QED
    BY <2>2, <2>3, <1>1, <1>2, <1>3, <1>4, Passed
<1>5. CASE pc' = pc + 1 /\ nest' = Below
  <2>1. Ordered(nest', pc')
    BY <1>1, <1>2, <1>5, Later
  <2> QED
    BY <2>1, <1>1, <1>2, <1>3, <1>5, Passed
<1> QED
  BY <1>4, <1>5 DEF CheckEndLoop, Verified

LEMMA AcceptHolds == ASSUME MirInv, Accept PROVE MirInv'
<1>1. /\ phase = "code" /\ phase' = "running" /\ pc > Len(Code)
      /\ UNCHANGED <<fn, frameVars, flowVars>>
  BY DEF Accept
<1>2. WalkedFrame'
  BY <1>1, FrameStays
<1>3. Shapes'
  BY <1>1 DEF MirInv, Shapes, FrameAccepted, frameVars, flowVars
<1>4. Code \in Seq(Instrs) /\ pc \in Nat
  BY <1>1, TypesOfFunctions DEF MirInv, Shapes, Code
<1>5. \A i \in 1 .. Len(Code) : StoreOK(i)
  BY <1>1, <1>4 DEF MirInv, WalkedCode
<1>6. \A i \in 1 .. Len(Code) : StoreOK(i)' <=> StoreOK(i)
  BY <1>1, StoresStay DEF frameVars
<1>7. Code' = Code
  BY <1>1 DEF Code
<1>8. WalkedCode'
  BY <1>1, <1>5, <1>6, <1>7 DEF WalkedCode
<1> QED
  BY <1>2, <1>3, <1>8 DEF MirInv

(* A function that runs changes neither its frame nor its code. *)
LEMMA RunHolds == ASSUME MirInv, Run PROVE MirInv'
<1>1. /\ phase = "running" /\ phase' \in {"running", "returned"}
      /\ UNCHANGED <<fn, frameVars, flowVars>>
  BY DEF Run, RunSet, RunOther, RunIf, RunWhile, RunElse, RunEnd, RunReturn, Running, Continue
<1>2. WalkedFrame'
  BY <1>1, FrameStays
<1>3. Shapes'
  BY <1>1 DEF MirInv, Shapes, FrameAccepted, frameVars, flowVars
<1>4. \A i \in 1 .. Len(Code) : StoreOK(i)' <=> StoreOK(i)
  BY <1>1, StoresStay DEF frameVars
<1>5. Code' = Code
  BY <1>1 DEF Code
<1>6. WalkedCode'
  BY <1>1, <1>4, <1>5 DEF WalkedCode, MirInv
<1> QED
  BY <1>2, <1>3, <1>6 DEF MirInv

LEMMA StutterHolds == ASSUME MirInv, UNCHANGED vars PROVE MirInv'
<1>1. /\ phase' = phase /\ pc' = pc /\ nest' = nest /\ known' = known
      /\ UNCHANGED <<fn, frameVars>>
  BY DEF vars, flowVars
<1>2. WalkedFrame'
  BY <1>1, FrameStays
<1>3. Shapes'
  BY <1>1 DEF MirInv, Shapes, FrameAccepted, frameVars
<1>4. \A i \in 1 .. Len(Code) : StoreOK(i)' <=> StoreOK(i)
  BY <1>1, StoresStay DEF frameVars
<1>5. Code' = Code
  BY <1>1 DEF Code
<1>6. WalkedCode'
  BY <1>1, <1>4, <1>5 DEF WalkedCode, MirInv, Ordered
<1> QED
  BY <1>2, <1>3, <1>6 DEF MirInv

LEMMA MirInvariant == Spec => []MirInv
<1>1. ASSUME MirInv, [Next]_vars PROVE MirInv'
  <2>1. CASE Lowering
    BY <1>1, <2>1, LayLocalHolds, LaidOutHolds DEF Lowering
  <2>2. CASE Verifier
    BY <1>1, <2>2, CheckLocalHolds, FrameCheckedHolds, CheckInstrHolds, CheckElseHolds,
       CheckEndIfHolds, CheckEndLoopHolds, AcceptHolds DEF Verifier
  <2>3. CASE Run
    BY <1>1, <2>3, RunHolds
  <2>4. CASE UNCHANGED vars
    BY <1>1, <2>4, StutterHolds
  <2> QED
    BY <1>1, <2>1, <2>2, <2>3, <2>4 DEF Next
<1> QED
  BY <1>1, InitHolds, PTL DEF Spec

(* In every accepted frame each local has room for what it is declared to  *)
(* hold and shares no byte with another, although the verifier compares a  *)
(* local with the one before it only, and offsets and products wrap        *)
(* (mir_verify_direct_function_contract).                                  *)
THEOREM FramesAreSound == Spec => []FrameSound
  BY MirInvariant, WalkedIsSound, PTL

(* A field that is stored at run time lies in its own local and in no      *)
(* other, whatever the width of an unsigned integer                        *)
(* (mir_verify_record_field_span).                                         *)
THEOREM StoresAreInside == Spec => []StoresStayInside
  BY MirInvariant, WalkedStores, PTL


-----------------------------------------------------------------------------
(* What the lowering lays out passes the checks of the verifier, as long   *)
(* as it has not outgrown an unsigned integer.                             *)

LEMMA DivMod ==
    \A x \in Nat, a \in Nat \ {0} :
        /\ x \div a \in Nat /\ x % a \in 0 .. a - 1 /\ x = a * (x \div a) + (x % a)
  OBVIOUS

LEMMA MultipleMod == \A a \in Nat \ {0}, n \in Nat : (a * n) % a = 0
<1> TAKE a \in Nat \ {0}, n \in Nat
<1> DEFINE m == a * n
           d == m \div a
           r == m % a
<1>1. m \in Nat
  OBVIOUS
<1>2. d \in Nat /\ r \in 0 .. a - 1 /\ m = a * d + r
  <2> HIDE DEF m
  <2> QED BY <1>1, DivMod
<1> HIDE DEF d, r
<1>3. r = a * (n - d)
  BY <1>2
<1>4. CASE n - d = 0
  <2>1. r = 0
    BY <1>3, <1>4
  <2> QED
    BY <2>1 DEF r
<1>5. CASE n - d >= 1
  <2>1. a * (n - d) >= a
    BY <1>2, <1>5
  <2> QED
    BY <1>2, <1>3, <2>1
<1>6. CASE n - d <= -1
  <2>1. a * (n - d) <= -a
    BY <1>2, <1>6
  <2> QED
    BY <1>2, <1>3, <2>1
<1> QED
  BY <1>2, <1>4, <1>5, <1>6

LEMMA AlignedMultiple ==
    \A x \in Nat, a \in Nat \ {0} : AlignTo(x, a) >= x /\ AlignTo(x, a) % a = 0
<1> TAKE x \in Nat, a \in Nat \ {0}
<1>1. /\ x \div a \in Nat /\ x % a \in 0 .. a - 1 /\ x = a * (x \div a) + (x % a)
  BY DivMod
<1>2. CASE x % a = 0
  BY <1>2 DEF AlignTo
<1>3. CASE x % a # 0
  <2>1. x + (a - (x % a)) = a * ((x \div a) + 1)
    BY <1>1
  <2>2. (x \div a) + 1 \in Nat
    BY <1>1
  <2>3. (a * ((x \div a) + 1)) % a = 0
    BY <2>2, MultipleMod
  <2> QED
    BY <1>1, <1>3, <2>1, <2>3 DEF AlignTo
<1> QED
  BY <1>2, <1>3

(* A product that fits is not taken for one that overflows.                *)
LEMMA ProductFits ==
    \A e, n \in Nat : e * n \in 1 .. Word - 1 =>
        e # 0 /\ n # 0 /\ ~ (n > (Word - 1) \div e) /\ (e * n) % Word = e * n
<1> SUFFICES ASSUME NEW e \in Nat, NEW n \in Nat, e * n \in 1 .. Word - 1
             PROVE  e # 0 /\ n # 0 /\ ~ (n > (Word - 1) \div e) /\ (e * n) % Word = e * n
  OBVIOUS
<1>1. Word \in Nat \ {0} /\ Word - 1 \in Nat
  BY MirAssumption DEF MirAssumption
<1>2. e # 0 /\ n # 0
  OBVIOUS
<1> DEFINE q == (Word - 1) \div e
           r == (Word - 1) % e
<1>3. q \in Nat /\ r \in 0 .. e - 1 /\ Word - 1 = e * q + r
  BY <1>1, <1>2, DivMod
<1> HIDE DEF q, r
<1>4. ~ (n > q)
  <2> SUFFICES ASSUME n > q PROVE FALSE
    OBVIOUS
  <2>1. n - q >= 1 /\ n - q \in Nat
    BY <1>3
  <2>2. e * (n - q) >= e
    BY <2>1
  <2>3. e * n >= e * q + e
    BY <1>3, <2>2
  <2> QED
    BY <1>1, <1>3, <2>3
<1> DEFINE m == e * n
<1>5. m % Word = m
  <2>1. m \in 1 .. Word - 1
    OBVIOUS
  <2> HIDE DEF m
  <2> QED
    BY <1>1, <2>1
<1> QED
  BY <1>2, <1>4, <1>5 DEF q

TooLarge(l) ==
    l.type.kind = "array" /\ l.type.element * l.type.len \notin 1 .. Word - 1

(* What LayLocal establishes of each local: it fits what is laid out, it   *)
(* is aligned, it comes after the one before, and its size is sufficient.  *)
LaidWell ==
    offset < Word => \A i \in 1 .. Len(locals) :
        /\ locals[i].end <= offset
        /\ locals[i].size <= locals[i].end
        /\ Aligned(locals[i]) /\ AfterPrevious(i)
        /\ TooLarge(locals[i]) \/ Sized(locals[i])

LaidInv == LaidWell /\ LoweredFramesAccepted

LEMMA LaidSized ==
    ASSUME NEW t \in Types, NEW end \in Nat
    PROVE  TooLarge(Local(t, end)) \/ Sized(Local(t, end))
<1> DEFINE l == Local(t, end)
<1>1. l.type = t /\ l.size = SizeOf(t)
  BY DEF Local
<1>2. t.element \in Nat /\ t.len \in Nat /\ t.size \in Nat
      /\ t.kind \in {"array", "record", "maybe", "value"}
  BY MirAssumption DEF Types, Unsigned, MirAssumption
<1>3. /\ Slot \in Nat \ {0} /\ SlotMin \in Nat \ {0} /\ MaybeSize \in Nat \ {0}
      /\ SlotMin <= Slot
  BY MirAssumption DEF MirAssumption
<1>4. CASE t.kind = "array" /\ t.element * t.len \in 1 .. Word - 1
  <2>1. SizeOf(t) = t.element * t.len
    BY <1>2, <1>4, ProductFits DEF SizeOf
  <2>2. StorageMin(l) = t.element * t.len
    BY <1>1, <1>2, <1>4, ProductFits DEF StorageMin
  <2> QED
    BY <1>1, <1>4, <2>1, <2>2 DEF Sized
<1>5. CASE t.kind = "array" /\ t.element * t.len \notin 1 .. Word - 1
  BY <1>1, <1>5 DEF TooLarge
<1>6. CASE t.kind # "array"
  BY <1>1, <1>2, <1>3, <1>6 DEF Sized, SizeOf, StorageMin
<1> QED
  BY <1>4, <1>5, <1>6

LEMMA LayLocalLaysWell == ASSUME MirInv, LaidWell, LayLocal PROVE LaidWell'
<1> DEFINE t == fn.types[Len(locals) + 1]
           n == Len(locals) + 1
           a == AlignTo(offset, AlignOf(t))
           l == Local(t, Placed(t))
<1>1. t \in Types /\ locals \in Seq(Locals) /\ offset \in Nat
  BY TypesOfFunctions DEF MirInv, Shapes, LayLocal
<1>2. locals' = Append(locals, l) /\ offset' = Placed(t)
  BY DEF LayLocal
<1>3. SizeOf(t) \in Nat /\ AlignOf(t) \in Nat \ {0}
  BY <1>1, SizesAreUnsigned DEF Unsigned
<1>4. a \in Nat /\ a >= offset /\ a % AlignOf(t) = 0
  BY <1>1, <1>3, AlignedUp, AlignedMultiple
<1>5. Placed(t) = a + SizeOf(t)
  BY DEF Placed
<1> SUFFICES ASSUME Placed(t) < Word,
                    NEW i \in 1 .. Len(locals')
             PROVE  /\ locals'[i].end <= Placed(t)
                    /\ locals'[i].size <= locals'[i].end
                    /\ Aligned(locals'[i]) /\ AfterPrevious(i)'
                    /\ TooLarge(locals'[i]) \/ Sized(locals'[i])
  BY <1>2 DEF LaidWell, Aligned, Start, TooLarge, Sized, StorageMin
<1>6. offset < Word /\ Word \in Nat
  BY <1>1, <1>3, <1>4, <1>5, MirAssumption DEF MirAssumption
<1> HIDE DEF a
<1>7. l.end = Placed(t) /\ l.size = SizeOf(t) /\ l.align = AlignOf(t)
  BY SMTT(20), <1>3, <1>4, <1>5, <1>6 DEF Local
<1>8. Start(l) = a
  BY <1>3, <1>4, <1>5, <1>7 DEF Start
<1>9. TooLarge(l) \/ Sized(l)
  BY <1>1, <1>3, <1>4, <1>5, LaidSized
<1> HIDE DEF t, l
<1>10. /\ Len(locals) \in Nat /\ Len(locals') = n /\ locals'[n] = l
       /\ \A j \in 1 .. Len(locals) : locals'[j] = locals[j]
  BY <1>1, <1>2
<1>11. CASE i = n
  <2>1. ASSUME n > 1 PROVE Start(l) >= locals'[n - 1].end
    <3>1. n - 1 \in 1 .. Len(locals)
      BY <1>10, <2>1
    <3>2. locals[n - 1].end <= offset /\ locals[n - 1] \in Locals
      BY <1>1, <1>6, <3>1 DEF LaidWell
    <3>3. locals[n - 1].end \in Nat
      BY <3>2 DEF Locals, Unsigned
    <3> QED
      BY <1>1, <1>4, <1>8, <1>10, <3>1, <3>2, <3>3
  <2>2. AfterPrevious(i)'
    BY <1>10, <1>11, <2>1 DEF AfterPrevious, Start
  <2> QED
    BY <1>3, <1>4, <1>5, <1>7, <1>8, <1>9, <1>10, <1>11, <2>2 DEF Aligned
<1>12. CASE i # n
  <2>1. i \in 1 .. Len(locals)
    BY <1>10, <1>12
  <2>2. /\ locals[i].end <= offset /\ locals[i].size <= locals[i].end
        /\ Aligned(locals[i]) /\ AfterPrevious(i)
        /\ TooLarge(locals[i]) \/ Sized(locals[i])
    BY <1>6, <2>1 DEF LaidWell
  <2>3. locals[i].end \in Nat
    <3>1. locals[i] \in Locals
      BY <1>1, <2>1
    <3> QED
      BY <3>1 DEF Locals, Unsigned
  <2>4. AfterPrevious(i)'
    <3>1. i > 1 => i - 1 \in 1 .. Len(locals)
      BY <1>10, <2>1
    <3> QED
      BY <1>10, <2>1, <2>2, <3>1 DEF AfterPrevious, Start
  <2>5. locals[i].end <= Placed(t)
    BY <1>1, <1>3, <1>4, <1>5, <2>2, <2>3
  <2> QED
    BY <1>10, <2>1, <2>2, <2>4, <2>5
<1> QED
  BY <1>11, <1>12

(* Each check of a local that was laid out well has a reason to fail.      *)
LEMMA RefusedForASize ==
    ASSUME MirInv, LaidWell, phase = "frame", at <= Len(locals),
           \/ ~ Sized(locals[at]) \/ ~ InFrame(locals[at])
           \/ ~ Aligned(locals[at]) \/ ~ AfterPrevious(at)
    PROVE  offset >= Word \/ \E i \in 1 .. Len(locals) : TooLarge(locals[i])
<1> SUFFICES ASSUME ~ (offset >= Word) PROVE TooLarge(locals[at])
  BY DEF MirInv, Shapes
<1>1. at \in 1 .. Len(locals) /\ locals \in Seq(Locals) /\ offset \in Nat /\ Word \in Nat
  BY MirAssumption DEF MirInv, Shapes, MirAssumption
<1>2. offset < Word
  BY <1>1
<1>3. /\ locals[at].end <= offset
      /\ locals[at].size <= locals[at].end
      /\ Aligned(locals[at]) /\ AfterPrevious(at)
      /\ TooLarge(locals[at]) \/ Sized(locals[at])
  BY <1>1, <1>2 DEF LaidWell
<1>4. FrameBytes \in Nat /\ FrameBytes >= offset
  BY <1>1, AlignedUp, AlignedMultiple, MirAssumption DEF FrameBytes, MirAssumption
<1>5. locals[at].end \in Nat
  <2>1. locals[at] \in Locals
    BY <1>1
  <2> QED
    BY <2>1 DEF Locals, Unsigned
<1>6. InFrame(locals[at])
  BY <1>1, <1>3, <1>4, <1>5 DEF InFrame
<1> QED
  BY <1>3, <1>6

LEMMA LaidHolds == ASSUME MirInv, LaidInv, [Next]_vars PROVE LaidInv'
<1>1. ASSUME UNCHANGED <<locals, offset>> PROVE LaidWell'
  BY <1>1 DEF LaidInv, LaidWell, Aligned, AfterPrevious, Start, TooLarge, Sized, StorageMin
<1>2. ASSUME UNCHANGED <<locals, offset>>,
             phase' # "rejected" \/ (phase' = phase /\ why' = why) \/ why' = "instruction"
      PROVE  LoweredFramesAccepted'
  BY <1>2 DEF LaidInv, LoweredFramesAccepted
<1>3. CASE LayLocal
  <2>1. LaidWell'
    BY <1>3, LayLocalLaysWell DEF LaidInv
  <2>2. phase' = "laying"
    BY <1>3 DEF LayLocal
  <2> QED
    BY <2>1, <2>2 DEF LaidInv, LoweredFramesAccepted
<1>4. CASE CheckLocal
  <2>1. UNCHANGED <<locals, offset>>
    BY <1>4 DEF CheckLocal, Refuse, frameVars
  <2>2. CASE UNCHANGED phase
    BY <1>1, <1>2, <1>4, <2>1, <2>2 DEF CheckLocal, LaidInv
  <2>3. CASE \/ ~ Sized(locals[at]) \/ ~ InFrame(locals[at])
             \/ ~ Aligned(locals[at]) \/ ~ AfterPrevious(at)
    <3>1. offset >= Word \/ \E i \in 1 .. Len(locals) : TooLarge(locals[i])
      BY <1>4, <2>3, RefusedForASize DEF CheckLocal, LaidInv
    <3>2. LoweredFramesAccepted'
      BY <2>1, <3>1 DEF LoweredFramesAccepted, TooLarge
    <3> QED
      BY <1>1, <2>1, <3>2 DEF LaidInv
  <2> QED
    BY <1>4, <2>2, <2>3 DEF CheckLocal
<1>5. CASE LaidOut \/ FrameChecked
  BY <1>1, <1>2, <1>5 DEF LaidOut, FrameChecked, LaidInv, frameVars
<1>6. CASE CheckInstr
  <2>1. CASE Refuse("instruction")
    BY <1>1, <1>2, <2>1 DEF Refuse, LaidInv, frameVars
  <2>2. CASE Verified(pc + 1)
    BY <1>1, <1>2, <2>2 DEF Verified, LaidInv, frameVars
  <2> QED
    BY <1>6, <2>1, <2>2 DEF CheckInstr
<1>7. CASE CheckElse \/ CheckEndIf \/ CheckEndLoop
  <2>1. \E next : Verified(next)
    BY <1>7 DEF CheckElse, CheckEndIf, CheckEndLoop
  <2> QED
    BY <1>1, <1>2, <2>1 DEF Verified, LaidInv, frameVars
<1>8. CASE Accept
  BY <1>1, <1>2, <1>8 DEF Accept, LaidInv, frameVars
<1>9. CASE Run
  <2>1. UNCHANGED <<locals, offset>> /\ phase' # "rejected"
    BY <1>9 DEF Run, RunSet, RunOther, RunIf, RunWhile, RunElse, RunEnd, RunReturn,
                Running, Continue, frameVars
  <2> QED
    BY <1>1, <1>2, <2>1 DEF LaidInv
<1>10. CASE UNCHANGED vars
  BY <1>1, <1>2, <1>10 DEF vars, frameVars, LaidInv
<1> QED
  BY <1>3, <1>4, <1>5, <1>6, <1>7, <1>8, <1>9, <1>10 DEF Next, Lowering, Verifier

(* For every width of an unsigned integer, every alignment and every       *)
(* function: what ir_collect_function_locals lays out is refused by the    *)
(* verifier only if the frame or an array of it is too large, or empty.    *)
THEOREM LaidFramesAreAccepted == Spec => []LoweredFramesAccepted
<1>1. Init => LaidInv
  BY DEF Init, LaidInv, LaidWell, LoweredFramesAccepted
<1>2. MirInv /\ LaidInv /\ [Next]_vars => LaidInv'
  BY LaidHolds
<1>3. LaidInv => LoweredFramesAccepted
  BY DEF LaidInv
<1> QED
  BY <1>1, <1>2, <1>3, MirInvariant, PTL DEF Spec


-----------------------------------------------------------------------------
(* The nesting of a code.  Level(j) is how many branches and loops are     *)
(* open after instruction j.                                               *)

Openers(code) == {k \in 1 .. Len(code) : code[k].op \in {"if", "while"}}
Ends(code) == {k \in 1 .. Len(code) : code[k].op = "end"}
Level(j) == Depth(Code, 0, j)
Opens(i) == Code[i].op \in {"if", "while"}

\* The elements of a set in a row of numbers, counted in two parts.
LEMMA CountSplit ==
    ASSUME NEW T, NEW i \in Nat, NEW j \in Nat, i <= j
    PROVE  /\ Cardinality((1 .. i) \cap T) \in Nat /\ Cardinality((1 .. j) \cap T) \in Nat
           /\ Cardinality(((i + 1) .. j) \cap T) \in Nat
           /\ Cardinality((1 .. j) \cap T) =
                Cardinality((1 .. i) \cap T) + Cardinality(((i + 1) .. j) \cap T)
<1> DEFINE A == (1 .. i) \cap T
           B == ((i + 1) .. j) \cap T
<1>1. IsFiniteSet(1 .. i) /\ IsFiniteSet((i + 1) .. j)
  BY FS_Interval
<1>2. IsFiniteSet(A) /\ IsFiniteSet(B)
  BY <1>1, FS_Subset
<1>3. A \cap B = {} /\ A \cup B = (1 .. j) \cap T
  OBVIOUS
<1> HIDE DEF A, B
<1>4. /\ IsFiniteSet(A \cup B)
      /\ Cardinality(A \cup B) = Cardinality(A) + Cardinality(B) - Cardinality(A \cap B)
  BY <1>2, FS_Union
<1>5. Cardinality(A \cap B) = 0
  BY <1>3, FS_EmptySet
<1>6. Cardinality(A) \in Nat /\ Cardinality(B) \in Nat /\ Cardinality(A \cup B) \in Nat
  BY <1>2, <1>4, FS_CardinalityType
<1> QED BY <1>3, <1>4, <1>5, <1>6 DEF A, B

LEMMA CountOne ==
    ASSUME NEW T, NEW j \in Nat
    PROVE  Cardinality((j .. j) \cap T) = IF j \in T THEN 1 ELSE 0
<1>1. (j .. j) \cap T = IF j \in T THEN {j} ELSE {}
  OBVIOUS
<1>2. Cardinality({j}) = 1
  BY FS_Singleton
<1>3. Cardinality({}) = 0
  BY FS_EmptySet
<1> QED BY <1>1, <1>2, <1>3

\* The depth after one instruction is a difference of levels.
LEMMA DepthFacts ==
    ASSUME NEW i \in Nat, NEW j \in Nat, i <= j, j <= Len(Code), Len(Code) \in Nat
    PROVE  /\ Level(i) \in Int /\ Level(j) \in Int
           /\ Depth(Code, i, j) = Level(j) - Level(i)
<1> DEFINE O == Openers(Code)
           E == Ends(Code)
<1>1. ASSUME NEW a \in Nat, NEW b \in Nat, a <= b, b <= Len(Code)
      PROVE  Depth(Code, a, b) = Cardinality(((a + 1) .. b) \cap O) - Cardinality(((a + 1) .. b) \cap E)
  <2>1. {k \in a + 1 .. b : Code[k].op \in {"if", "while"}} = ((a + 1) .. b) \cap O
    BY <1>1 DEF Openers
  <2>2. {k \in a + 1 .. b : Code[k].op = "end"} = ((a + 1) .. b) \cap E
    BY <1>1 DEF Ends
  <2> QED BY <2>1, <2>2 DEF Depth
<1> HIDE DEF O, E
<1>2. /\ Level(i) = Cardinality((1 .. i) \cap O) - Cardinality((1 .. i) \cap E)
      /\ Level(j) = Cardinality((1 .. j) \cap O) - Cardinality((1 .. j) \cap E)
  <2>1. 0 \in Nat /\ 0 + 1 = 1 /\ 0 <= i /\ 0 <= j /\ i <= Len(Code)
    OBVIOUS
  <2> QED BY <1>1, <2>1 DEF Level
<1>3. Depth(Code, i, j) = Cardinality(((i + 1) .. j) \cap O) - Cardinality(((i + 1) .. j) \cap E)
  BY <1>1
<1>4. /\ Cardinality((1 .. i) \cap O) \in Nat /\ Cardinality((1 .. j) \cap O) \in Nat
      /\ Cardinality(((i + 1) .. j) \cap O) \in Nat
      /\ Cardinality((1 .. j) \cap O) =
            Cardinality((1 .. i) \cap O) + Cardinality(((i + 1) .. j) \cap O)
  BY CountSplit
<1>5. /\ Cardinality((1 .. i) \cap E) \in Nat /\ Cardinality((1 .. j) \cap E) \in Nat
      /\ Cardinality(((i + 1) .. j) \cap E) \in Nat
      /\ Cardinality((1 .. j) \cap E) =
            Cardinality((1 .. i) \cap E) + Cardinality(((i + 1) .. j) \cap E)
  BY CountSplit
<1> DEFINE a == Cardinality((1 .. i) \cap O)
           b == Cardinality((1 .. j) \cap O)
           c == Cardinality(((i + 1) .. j) \cap O)
           d == Cardinality((1 .. i) \cap E)
           e == Cardinality((1 .. j) \cap E)
           f == Cardinality(((i + 1) .. j) \cap E)
<1> HIDE DEF a, b, c, d, e, f
<1>6. /\ Level(i) = a - d /\ Level(j) = b - e /\ Depth(Code, i, j) = c - f
      /\ {a, b, c, d, e, f} \subseteq Nat /\ b = a + c /\ e = d + f
  BY <1>2, <1>3, <1>4, <1>5 DEF a, b, c, d, e, f
<1> QED BY ONLY <1>6

\* What one instruction does to the level.
LEMMA LevelStep ==
    ASSUME Len(Code) \in Nat, NEW j \in 1 .. Len(Code)
    PROVE  /\ Level(j - 1) \in Int /\ Level(j) \in Int
           /\ Level(j) = Level(j - 1) + (IF Opens(j) THEN 1
                                         ELSE IF Code[j].op = "end" THEN -1 ELSE 0)
<1> DEFINE O == Openers(Code)
           E == Ends(Code)
           i == j - 1
<1>1. i \in Nat /\ i <= j /\ i + 1 = j /\ j \in Nat
  OBVIOUS
<1>2. {k \in j .. j : Code[k].op \in {"if", "while"}} = (j .. j) \cap O
  BY DEF Openers
<1>3. {k \in j .. j : Code[k].op = "end"} = (j .. j) \cap E
  BY DEF Ends
<1>4. /\ j \in O <=> Opens(j)
      /\ j \in E <=> Code[j].op = "end"
      /\ ~ (j \in O /\ j \in E)
  BY DEF Openers, Ends, Opens
<1> HIDE DEF O, E, i
<1>5. Depth(Code, i, j) = Cardinality((j .. j) \cap O) - Cardinality((j .. j) \cap E)
  BY <1>1, <1>2, <1>3 DEF Depth
<1>6. Level(i) \in Int /\ Level(j) \in Int /\ Depth(Code, i, j) = Level(j) - Level(i)
  BY <1>1, DepthFacts
<1>7. Cardinality((j .. j) \cap O) = (IF j \in O THEN 1 ELSE 0)
  BY <1>1, CountOne
<1>8. Cardinality((j .. j) \cap E) = (IF j \in E THEN 1 ELSE 0)
  BY <1>1, CountOne
<1> QED BY <1>4, <1>5, <1>6, <1>7, <1>8 DEF i

\* The level falls by one at most, and at an end only.
LEMMA LevelFalls ==
    ASSUME Len(Code) \in Nat, NEW j \in 1 .. Len(Code)
    PROVE  /\ Level(j) >= Level(j - 1) - 1
           /\ Level(j) < Level(j - 1) => Code[j].op = "end"
<1> DEFINE s == IF Opens(j) THEN 1 ELSE IF Code[j].op = "end" THEN -1 ELSE 0
<1>1. s \in {-1, 0, 1} /\ (s < 0 => Code[j].op = "end")
  OBVIOUS
<1>2. Level(j - 1) \in Int /\ Level(j) = Level(j - 1) + s
  BY LevelStep
<1> HIDE DEF s
<1> QED BY <1>1, <1>2

LEMMA LevelZero == ASSUME Len(Code) \in Nat PROVE Level(0) = 0
<1>1. 0 \in Nat /\ 0 <= 0 /\ 0 <= Len(Code)
  OBVIOUS
<1>2. Level(0) \in Int /\ Depth(Code, 0, 0) = Level(0) - Level(0)
  BY <1>1, DepthFacts
<1> QED BY <1>2 DEF Level


CodeOK == Code \in Seq(Instrs) /\ WellNested(Code)

\* e ends what is open after i, and nothing before it does.
Closes(i, e) ==
    /\ e \in (i + 1) .. Len(Code) /\ Code[e].op = "end"
    /\ Level(e) = Level(i) - 1
    /\ \A m \in i .. (e - 1) : Level(m) >= Level(i)

LEMMA CodeLength == ASSUME CodeOK PROVE Len(Code) \in Nat
  BY DEF CodeOK

LEMMA Levels == ASSUME CodeOK PROVE \A j \in 0 .. Len(Code) : Level(j) \in Int
<1> TAKE j \in 0 .. Len(Code)
<1>1. j \in Nat /\ j <= j /\ j <= Len(Code) /\ Len(Code) \in Nat
  BY CodeLength
<1> QED BY <1>1, DepthFacts

\* Min, by what it is the least of.
LEMMA MinIs ==
    ASSUME NEW S \in SUBSET Nat, S # {}
    PROVE  Min(S) \in S /\ \A y \in S : Min(S) <= y
BY LeastNat DEF Min

LEMMA EndExists ==
    ASSUME CodeOK, NEW i \in 1 .. Len(Code),
           NEW j \in (i + 1) .. Len(Code), Level(j) = Level(i) - 1
    PROVE  Closes(i, EndOf(i))
<1> DEFINE S == {e \in i + 1 .. Len(Code) : Depth(Code, i, e) = -1}
           x == EndOf(i)
<1>1. Len(Code) \in Nat /\ \A e \in 0 .. Len(Code) : Level(e) \in Int
  BY CodeLength, Levels
<1>2. \A e \in i + 1 .. Len(Code) : Depth(Code, i, e) = Level(e) - Level(i)
  <2> TAKE e \in i + 1 .. Len(Code)
  <2>1. i \in Nat /\ e \in Nat /\ i <= e /\ e <= Len(Code)
    BY <1>1
  <2> QED BY <1>1, <2>1, DepthFacts
<1>3. S \in SUBSET Nat /\ j \in S
  BY <1>1, <1>2
<1>4. x = Min(S)
  BY DEF EndOf, EndIn
<1> HIDE DEF x
<1>5. x \in S /\ \A e \in S : x <= e
  BY ONLY <1>3, <1>4, MinIs
<1>6. x \in (i + 1) .. Len(Code) /\ Level(x) - Level(i) = -1
  BY <1>2, <1>5
<1>7. ASSUME NEW m \in i .. (x - 1), ~ (Level(m) >= Level(i)) PROVE FALSE
  <2> DEFINE T == {k \in i .. (x - 1) : ~ (Level(k) >= Level(i))}
  <2>1. T \in SUBSET Nat /\ m \in T
    BY <1>1, <1>6, <1>7
  <2>2. PICK k \in T : \A y \in T : k <= y
    BY <2>1, LeastNat
  <2>3. k \in 1 .. Len(Code) /\ k # i /\ k \in i .. (x - 1) /\ Level(k) < Level(i)
        /\ k - 1 \in i .. (x - 1) /\ k - 1 < k
    BY <1>1, <1>6, <2>2
  <2>4. Level(k - 1) >= Level(i)
    BY <2>2, <2>3
  <2>5. Level(k) >= Level(k - 1) - 1
    BY <1>1, <2>3, LevelFalls
  <2>6. Level(k) \in Int /\ Level(k - 1) \in Int /\ Level(i) \in Int
    BY <1>1, <2>3
  <2>7. Level(k) - Level(i) = -1
    BY <2>3, <2>4, <2>5, <2>6
  <2>8. k \in i + 1 .. Len(Code) /\ Depth(Code, i, k) = -1
    BY <1>1, <1>2, <2>3, <2>7
  <2> QED BY <1>5, <2>3, <2>8
<1>8. Code[x].op = "end"
  <2>1. x \in 1 .. Len(Code) /\ x - 1 \in i .. (x - 1) /\ x - 1 \in 0 .. Len(Code)
    BY <1>1, <1>6
  <2>2. Level(x - 1) >= Level(i) /\ Level(x - 1) \in Int /\ Level(i) \in Int /\ Level(x) \in Int
    BY <1>1, <1>7, <2>1
  <2>3. Level(x) < Level(x - 1)
    BY <1>6, <2>2
  <2> QED BY <1>1, <2>1, <2>3, LevelFalls
<1>9. Level(x) = Level(i) - 1
  <2>1. Level(x) \in Int /\ Level(i) \in Int
    BY <1>1, <1>6
  <2> QED BY <1>6, <2>1
<1> QED BY <1>6, <1>7, <1>8, <1>9 DEF Closes, x

LEMMA EndIs ==
    ASSUME CodeOK, NEW i \in 1 .. Len(Code), NEW e, Closes(i, e)
    PROVE  EndOf(i) = e
<1>1. /\ e \in (i + 1) .. Len(Code) /\ Level(e) = Level(i) - 1
      /\ \A m \in i .. (e - 1) : Level(m) >= Level(i)
  BY DEF Closes
<1>2. Closes(i, EndOf(i))
  BY <1>1, EndExists
<1> DEFINE x == EndOf(i)
<1>3. /\ x \in (i + 1) .. Len(Code) /\ Level(x) = Level(i) - 1
      /\ \A m \in i .. (x - 1) : Level(m) >= Level(i)
  BY <1>2 DEF Closes
<1> HIDE DEF x
<1>4. Level(i) \in Int /\ Len(Code) \in Nat
  BY CodeLength, Levels
<1>5. ~ (x < e) /\ ~ (e < x)
  BY <1>1, <1>3, <1>4
<1> QED BY <1>1, <1>3, <1>4, <1>5 DEF x

\* An opener is one level above what is open before it, so that two on one
\* level are not under one another.
LEMMA SameLevel ==
    ASSUME CodeOK, NEW i \in 1 .. Len(Code), NEW j \in 1 .. Len(Code), i < j, Opens(j),
           Level(j) = Level(i), \A m \in i .. (j - 1) : Level(m) >= Level(i)
    PROVE  FALSE
<1>1. Level(j) = Level(j - 1) + 1 /\ Level(j - 1) \in Int /\ Level(j) \in Int
  BY CodeLength, LevelStep
<1>2. j - 1 \in i .. (j - 1)
  BY CodeLength
<1> QED BY <1>1, <1>2

LEMMA OpenerEnds ==
    ASSUME CodeOK, NEW i \in 1 .. Len(Code), Opens(i)
    PROVE  Closes(i, EndOf(i))
<1>1. PICK j \in i + 1 .. Len(Code) : Depth(Code, i, j) = -1
  BY DEF CodeOK, WellNested, Opens
<1>2. i \in Nat /\ j \in Nat /\ i <= j /\ j <= Len(Code) /\ Len(Code) \in Nat
  BY CodeLength
<1>3. Level(i) \in Int /\ Level(j) \in Int /\ Depth(Code, i, j) = Level(j) - Level(i)
  BY <1>2, DepthFacts
<1>4. Level(j) = Level(i) - 1
  BY <1>1, <1>3
<1> QED BY <1>4, EndExists

LEMMA BranchElse ==
    ASSUME CodeOK, NEW i \in 1 .. Len(Code), Code[i].op = "if"
    PROVE  /\ ElseOf(i) \in (i + 1) .. (EndOf(i) - 1) /\ EndOf(i) \in 1 .. Len(Code)
           /\ Code[ElseOf(i)].op = "else" /\ Level(ElseOf(i)) = Level(i)
           /\ Closes(ElseOf(i), EndOf(i)) /\ EndOf(ElseOf(i)) = EndOf(i)
<1> DEFINE S == {j \in i + 1 .. Len(Code) : Code[j].op = "else" /\ Depth(Code, i, j) = 0}
           x == ElseOf(i)
           e == EndOf(i)
<1>1. Len(Code) \in Nat /\ \A j \in 0 .. Len(Code) : Level(j) \in Int
  BY CodeLength, Levels
<1>2. Closes(i, e)
  BY OpenerEnds DEF Opens
<1>3. /\ e \in (i + 1) .. Len(Code) /\ Code[e].op = "end" /\ Level(e) = Level(i) - 1
      /\ \A m \in i .. (e - 1) : Level(m) >= Level(i)
  BY <1>2 DEF Closes
<1>4. PICK j \in i + 1 .. e : Code[j].op = "else" /\ Depth(Code, i, j) = 0
  BY DEF CodeOK, WellNested, EndOf
<1>5. x = Min(S)
  BY DEF ElseOf, ElseIn
<1> HIDE DEF x, e
<1>6. S \in SUBSET Nat /\ j \in S
  BY <1>1, <1>3, <1>4
<1>7. x \in S /\ \A y \in S : x <= y
  BY ONLY <1>5, <1>6, MinIs
<1>8. x \in (i + 1) .. e /\ Code[x].op = "else" /\ Depth(Code, i, x) = 0 /\ x \in 1 .. Len(Code)
  BY <1>1, <1>3, <1>4, <1>6, <1>7
<1>9. x # e
  BY <1>3, <1>8
<1>10. x \in (i + 1) .. (e - 1)
  BY <1>1, <1>3, <1>8, <1>9
<1>11. Level(x) = Level(i)
  <2>1. i \in Nat /\ x \in Nat /\ i <= x /\ x <= Len(Code)
    BY <1>1, <1>8
  <2>2. Level(i) \in Int /\ Level(x) \in Int /\ Depth(Code, i, x) = Level(x) - Level(i)
    BY <1>1, <2>1, DepthFacts
  <2> QED BY <1>8, <2>2
<1>12. Closes(x, e)
  <2>1. e \in (x + 1) .. Len(Code) /\ \A m \in x .. (e - 1) : m \in i .. (e - 1)
    BY <1>1, <1>3, <1>10
  <2> QED BY <1>3, <1>11, <2>1 DEF Closes
<1>13. EndOf(x) = e
  BY <1>8, <1>12, EndIs
<1>14. e \in 1 .. Len(Code)
  BY <1>1, <1>3
<1> QED BY <1>8, <1>10, <1>11, <1>12, <1>13, <1>14 DEF x, e

LEMMA ElseHasBranch ==
    ASSUME CodeOK, NEW j \in 1 .. Len(Code), Code[j].op = "else"
    PROVE  \E i \in 1 .. (j - 1) : Code[i].op = "if" /\ ElseOf(i) = j
<1>1. PICK i \in 1 .. j : Code[i].op = "if" /\ ElseOf(i) = j
  BY DEF CodeOK, WellNested, ElseOf
<1>2. i # j /\ i \in 1 .. Len(Code)
  BY <1>1, CodeLength
<1> QED BY <1>1, <1>2, CodeLength

LEMMA EndHasOpener ==
    ASSUME CodeOK, NEW j \in 1 .. Len(Code), Code[j].op = "end"
    PROVE  \E i \in 1 .. (j - 1) : Opens(i) /\ EndOf(i) = j
<1>1. PICK i \in 1 .. j : Opens(i) /\ EndOf(i) = j
  BY DEF CodeOK, WellNested, EndOf, Opens
<1>2. i # j /\ i \in 1 .. Len(Code)
  BY <1>1, CodeLength DEF Opens
<1> QED BY <1>1, <1>2, CodeLength

LEMMA OneOpener ==
    ASSUME CodeOK, NEW i \in 1 .. Len(Code), NEW j \in 1 .. Len(Code),
           Opens(i), Opens(j), EndOf(i) = EndOf(j)
    PROVE  i = j
<1> DEFINE e == EndOf(i)
<1>1. Closes(i, e) /\ Closes(j, e)
  BY OpenerEnds
<1>2. /\ e \in (i + 1) .. Len(Code) /\ e \in (j + 1) .. Len(Code)
      /\ Level(e) = Level(i) - 1 /\ Level(e) = Level(j) - 1
      /\ \A m \in i .. (e - 1) : Level(m) >= Level(i)
      /\ \A m \in j .. (e - 1) : Level(m) >= Level(j)
  BY <1>1 DEF Closes
<1> HIDE DEF e
<1>3. Len(Code) \in Nat /\ Level(i) \in Int /\ Level(j) \in Int
  BY CodeLength, Levels
<1>4. Level(i) = Level(j)
  BY <1>2, <1>3
<1>5. ~ (i < j)
  <2>1. i < j => \A m \in i .. (j - 1) : m \in i .. (e - 1)
    BY <1>2, <1>3
  <2> QED BY <1>2, <1>4, <2>1, SameLevel
<1>6. ~ (j < i)
  <2>1. j < i => \A m \in j .. (i - 1) : m \in j .. (e - 1)
    BY <1>2, <1>3
  <2> QED BY <1>2, <1>4, <2>1, SameLevel
<1> QED BY <1>3, <1>5, <1>6

LEMMA OneBranch ==
    ASSUME CodeOK, NEW i \in 1 .. Len(Code), NEW j \in 1 .. Len(Code),
           Code[i].op = "if", Code[j].op = "if", ElseOf(i) = ElseOf(j)
    PROVE  i = j
<1>1. EndOf(ElseOf(i)) = EndOf(i) /\ EndOf(ElseOf(j)) = EndOf(j)
  BY BranchElse
<1> QED BY <1>1, OneOpener DEF Opens


LEMMA EndFacts ==
    ASSUME CodeOK, NEW i \in 1 .. Len(Code), Code[i].op \in {"if", "while", "else"}
    PROVE  EndOf(i) \in (i + 1) .. Len(Code) /\ Code[EndOf(i)].op = "end" /\ Closes(i, EndOf(i))
<1>1. Closes(i, EndOf(i))
  <2>1. CASE Opens(i)
    BY <2>1, OpenerEnds
  <2>2. CASE Code[i].op = "else"
    <3>1. PICK b \in 1 .. (i - 1) : Code[b].op = "if" /\ ElseOf(b) = i
      BY <2>2, ElseHasBranch
    <3>2. b \in 1 .. Len(Code)
      BY <3>1, CodeLength
    <3> QED BY <3>1, <3>2, BranchElse
  <2> QED BY <2>1, <2>2 DEF Opens
<1> QED BY <1>1 DEF Closes

-----------------------------------------------------------------------------
(* The flow of writable buffers.  K tells, for each instruction, in which  *)
(* state it was last checked.  StepOK(K, i, p) is what that says about     *)
(* instruction i and those its execution goes on at, of those before p.    *)

StepOK(K, i, p) ==
    /\ Code[i].op = "set" =>
          /\ Maybe(Code[i].local)
          /\ K[i + 1] \subseteq (IF Code[i].value \in Writable THEN K[i] \cup {Code[i].local}
                                 ELSE K[i] \ {Code[i].local})
    /\ Code[i].op = "use" => Code[i].local \in K[i]
    /\ Code[i].op = "while" /\ Code[i].local # 0 => Code[i].local \in K[i]
    /\ Code[i].op \in {"use", "store", "return", "if", "while"} => K[i + 1] \subseteq K[i]
    /\ Code[i].op = "if" =>
          /\ ElseOf(i) < p => K[ElseOf(i) + 1] \subseteq K[i]
          /\ EndOf(i) < p => K[EndOf(i) + 1] \subseteq K[EndOf(i)]
    /\ Code[i].op = "else" /\ EndOf(i) < p => K[EndOf(i) + 1] \subseteq K[i]
    /\ Code[i].op = "while" /\ EndOf(i) < p =>
          K[EndOf(i) + 1] \subseteq K[i + 1] /\ K[i + 1] \subseteq K[EndOf(i)]

Flow(K, p) == \A i \in 1 .. (p - 1) : StepOK(K, i, p)

(* The branches and loops that the verifier keeps are those around p, and  *)
(* what it keeps of each are states of K.                                  *)
NestedAt(n, p) ==
    /\ p \in 1 .. (Len(Code) + 1) /\ Len(n) = Level(p - 1)
    /\ \A k \in 1 .. Len(n) :
          /\ n[k].from \in 1 .. (p - 1) /\ Opens(n[k].from) /\ Level(n[k].from) = k
          /\ \A m \in n[k].from .. (p - 1) : Level(m) >= k
Tracks(K, n, p) ==
    \A k \in 1 .. Len(n) :
        LET i == n[k].from IN
        /\ Code[i].op = "while" => n[k].entry = K[i + 1]
        /\ Code[i].op = "if" => /\ n[k].entry = K[i]
                                /\ ElseOf(i) < p => n[k].first = K[ElseOf(i)]

Covered(S) == \A l \in S : l \in DOMAIN holds /\ holds[l] \in Writable
States == [Nat -> SUBSET Nat]

FlowInv ==
    /\ phase \in {"laying", "frame"} => known = {}
    /\ phase \in {"laying", "frame", "code"} => again = FALSE
    /\ phase = "code" =>
          \E K \in States : /\ K[1] = {} /\ K[pc] = known /\ Flow(K, pc)
                            /\ NestedAt(nest, pc) /\ Tracks(K, nest, pc)
    /\ phase = "running" =>
          /\ DOMAIN holds = 1 .. Len(locals) /\ pc \in 1 .. (Len(Code) + 1)
          /\ \E K \in States :
                /\ Flow(K, Len(Code) + 1)
                /\ IF again THEN pc <= Len(Code) /\ IsLoop(pc) /\ Covered(K[pc + 1])
                   ELSE Covered(K[pc])

LEMMA FlowKept ==
    ASSUME CodeOK, NEW K, NEW L, NEW p \in 1 .. (Len(Code) + 1),
           \A j \in 1 .. p : L[j] = K[j], Flow(K, p)
    PROVE  Flow(L, p)
<1> SUFFICES ASSUME NEW i \in 1 .. (p - 1) PROVE StepOK(L, i, p)
  BY DEF Flow
<1>1. StepOK(K, i, p)
  BY DEF Flow
<1>2. i \in 1 .. Len(Code) /\ L[i] = K[i] /\ L[i + 1] = K[i + 1]
  BY CodeLength
<1>3. ASSUME Code[i].op = "if", ElseOf(i) < p
      PROVE  L[ElseOf(i) + 1] = K[ElseOf(i) + 1]
  <2>1. ElseOf(i) + 1 \in 1 .. p
    BY <1>2, <1>3, BranchElse, CodeLength
  <2> QED BY <2>1
<1>4. ASSUME Code[i].op \in {"if", "while", "else"}, EndOf(i) < p
      PROVE  L[EndOf(i) + 1] = K[EndOf(i) + 1] /\ L[EndOf(i)] = K[EndOf(i)]
  <2>1. EndOf(i) + 1 \in 1 .. p /\ EndOf(i) \in 1 .. p
    BY <1>2, <1>4, EndFacts, CodeLength
  <2> QED BY <2>1
<1> QED BY <1>1, <1>2, <1>3, <1>4 DEF StepOK

LEMMA FlowLess ==
    ASSUME CodeOK, NEW K, NEW p \in 1 .. (Len(Code) + 1), NEW q \in 1 .. p, Flow(K, p)
    PROVE  Flow(K, q)
<1> SUFFICES ASSUME NEW i \in 1 .. (q - 1) PROVE StepOK(K, i, q)
  BY DEF Flow
<1>1. i \in 1 .. (p - 1) /\ i \in 1 .. Len(Code)
  BY CodeLength
<1>2. StepOK(K, i, p)
  BY <1>1 DEF Flow
<1>3. ASSUME Code[i].op = "if" PROVE ElseOf(i) < q => ElseOf(i) < p
  BY <1>1, <1>3, BranchElse, CodeLength
<1>4. ASSUME Code[i].op \in {"if", "while", "else"} PROVE EndOf(i) < q => EndOf(i) < p
  BY <1>1, <1>4, EndFacts, CodeLength
<1> QED BY <1>2, <1>3, <1>4 DEF StepOK

\* One instruction more: what ends at it is now to be looked at.
LEMMA FlowMore ==
    ASSUME CodeOK, NEW K, NEW p \in 1 .. Len(Code), Flow(K, p), StepOK(K, p, p + 1),
           \A i \in 1 .. (p - 1) :
              /\ Code[i].op = "if" /\ ElseOf(i) = p => K[p + 1] \subseteq K[i]
              /\ Code[i].op = "if" /\ EndOf(i) = p => K[p + 1] \subseteq K[p]
              /\ Code[i].op = "else" /\ EndOf(i) = p => K[p + 1] \subseteq K[i]
              /\ Code[i].op = "while" /\ EndOf(i) = p =>
                    K[p + 1] \subseteq K[i + 1] /\ K[i + 1] \subseteq K[p]
    PROVE  Flow(K, p + 1)
<1> SUFFICES ASSUME NEW i \in 1 .. p PROVE StepOK(K, i, p + 1)
  BY CodeLength DEF Flow
<1>1. CASE i = p
  BY <1>1
<1>2. CASE i # p
  <2>1. i \in 1 .. (p - 1) /\ i \in 1 .. Len(Code)
    BY <1>2, CodeLength
  <2>2. StepOK(K, i, p)
    BY <2>1 DEF Flow
  <2>3. ASSUME Code[i].op = "if" PROVE ElseOf(i) < p + 1 => ElseOf(i) < p \/ ElseOf(i) = p
    BY <2>1, <2>3, BranchElse, CodeLength
  <2>4. ASSUME Code[i].op \in {"if", "while", "else"}
        PROVE  EndOf(i) < p + 1 => EndOf(i) < p \/ EndOf(i) = p
    BY <2>1, <2>4, EndFacts, CodeLength
  <2>5. /\ Code[i].op = "if" /\ ElseOf(i) = p => K[p + 1] \subseteq K[i]
        /\ Code[i].op = "if" /\ EndOf(i) = p => K[p + 1] \subseteq K[p]
        /\ Code[i].op = "else" /\ EndOf(i) = p => K[p + 1] \subseteq K[i]
        /\ Code[i].op = "while" /\ EndOf(i) = p =>
              K[p + 1] \subseteq K[i + 1] /\ K[i + 1] \subseteq K[p]
    BY <2>1
  <2> QED BY ONLY <2>2, <2>3, <2>4, <2>5 DEF StepOK
<1> QED BY <1>1, <1>2

\* Nothing ends at an instruction that is no else and no end.
LEMMA FlowOn ==
    ASSUME CodeOK, NEW K, NEW p \in 1 .. Len(Code), Flow(K, p), StepOK(K, p, p + 1),
           Code[p].op \notin {"else", "end"}
    PROVE  Flow(K, p + 1)
<1>1. ASSUME NEW i \in 1 .. (p - 1)
      PROVE  /\ Code[i].op = "if" => ElseOf(i) # p
             /\ Code[i].op \in {"if", "while", "else"} => EndOf(i) # p
  <2>1. i \in 1 .. Len(Code)
    BY <1>1, CodeLength
  <2> QED BY <2>1, BranchElse, EndFacts
<1> QED BY <1>1, FlowMore

LEMMA CodeStays ==
    ASSUME UNCHANGED <<fn, locals>>, NEW K, NEW n, NEW p
    PROVE  /\ Code' = Code /\ \A i : Maybe(i)' = Maybe(i)
           /\ pc' = p => (Flow(K, pc)' <=> Flow(K, p))
           /\ pc' = p /\ nest' = n => (NestedAt(nest, pc)' <=> NestedAt(n, p))
           /\ pc' = p /\ nest' = n => (Tracks(K, nest, pc)' <=> Tracks(K, n, p))
<1>1. Code' = Code /\ \A i : Maybe(i)' = Maybe(i)
  BY DEF Code, Maybe, IsLocal
<1>2. /\ \A i : ElseOf(i)' = ElseOf(i) /\ EndOf(i)' = EndOf(i)
      /\ \A i : Level(i)' = Level(i) /\ Opens(i)' = Opens(i)
  BY <1>1 DEF ElseOf, EndOf, Level, Opens
<1>3. ASSUME pc' = p PROVE Flow(K, pc)' <=> Flow(K, p)
  BY <1>1, <1>2, <1>3 DEF Flow, StepOK
<1>4. ASSUME pc' = p, nest' = n
      PROVE  (NestedAt(nest, pc)' <=> NestedAt(n, p)) /\ (Tracks(K, nest, pc)' <=> Tracks(K, n, p))
  BY <1>1, <1>2, <1>4 DEF NestedAt, Tracks
<1> QED BY <1>1, <1>3, <1>4


LEMMA CodeIsOK == ASSUME MirInv PROVE CodeOK /\ Len(Code) \in Nat
<1>1. fn \in Functions
  BY DEF MirInv, Shapes
<1>2. CodeOK
  BY <1>1, MirAssumption DEF MirAssumption, CodeOK, Code
<1> QED BY <1>2, CodeLength

\* A step of the verifier that gives a state for the instruction it goes to.
LEMMA Moves ==
    ASSUME UNCHANGED <<fn, locals, again>>, again = FALSE, phase' = "code",
           NEW L \in States, NEW n, NEW p, pc' = p, nest' = n,
           L[1] = {}, L[p] = known', Flow(L, p), NestedAt(n, p), Tracks(L, n, p)
    PROVE  FlowInv'
<1>1. Flow(L, pc)' /\ NestedAt(nest, pc)' /\ Tracks(L, nest, pc)'
  BY CodeStays
<1> QED BY <1>1 DEF FlowInv

\* What is kept of the blocks around is of states before p + 1.
LEMMA TracksOn ==
    ASSUME CodeOK, NEW K, NEW L, NEW p \in 1 .. Len(Code), NEW n, Tracks(K, n, p),
           \A k \in 1 .. Len(n) : n[k].from \in 1 .. (p - 1),
           \A j \in 1 .. p : L[j] = K[j],
           \A k \in 1 .. Len(n) : Code[n[k].from].op = "if" => ElseOf(n[k].from) # p
    PROVE  Tracks(L, n, p + 1)
<1> SUFFICES ASSUME NEW k \in 1 .. Len(n)
             PROVE  LET i == n[k].from IN
                    /\ Code[i].op = "while" => n[k].entry = L[i + 1]
                    /\ Code[i].op = "if" => /\ n[k].entry = L[i]
                                            /\ ElseOf(i) < p + 1 => n[k].first = L[ElseOf(i)]
  BY DEF Tracks
<1> DEFINE i == n[k].from
<1>1. /\ Code[i].op = "while" => n[k].entry = K[i + 1]
      /\ Code[i].op = "if" => /\ n[k].entry = K[i]
                              /\ ElseOf(i) < p => n[k].first = K[ElseOf(i)]
      /\ Code[i].op = "if" => ElseOf(i) # p
      /\ i \in 1 .. (p - 1)
  BY DEF Tracks
<1> HIDE DEF i
<1>2. /\ i \in 1 .. Len(Code) /\ i \in 1 .. p /\ i + 1 \in 1 .. p
  BY <1>1, CodeLength
<1>3. ASSUME Code[i].op = "if", ElseOf(i) < p + 1
      PROVE  ElseOf(i) < p /\ ElseOf(i) \in 1 .. p
  BY <1>1, <1>2, <1>3, BranchElse, CodeLength
<1>4. ASSUME Code[i].op = "if", ElseOf(i) < p + 1 PROVE n[k].first = L[ElseOf(i)]
  <2>1. ElseOf(i) < p /\ ElseOf(i) \in 1 .. p
    BY <1>3, <1>4
  <2> QED BY <1>1, <1>4, <2>1
<1> QED BY <1>1, <1>2, <1>4 DEF i

LEMMA CheckInstrFlows == ASSUME MirInv, FlowInv, CheckInstr PROVE FlowInv'
<1>1. /\ CodeOK /\ Len(Code) \in Nat /\ pc \in 1 .. Len(Code) /\ phase = "code"
      /\ Code[pc].op \in Operations \ {"else", "end"} /\ known \in SUBSET Nat /\ again = FALSE
      /\ nest \in Seq(Kept)
  BY CodeIsOK DEF CheckInstr, Verifying, MirInv, Shapes, FlowInv
<1>2. CASE Refuse("instruction")
  BY <1>2 DEF Refuse, FlowInv, runVars
<1>3. CASE ~ Refuse("instruction")
  <2>1. /\ Allowed(Code[pc]) /\ known' = Effect(Code[pc]) /\ pc' = pc + 1
        /\ nest' = IF Opens(pc) THEN Append(nest, Entered(known, known)) ELSE nest
        /\ UNCHANGED <<fn, phase, locals, holds, again>>
    BY <1>3 DEF CheckInstr, Verified, Opens, frameVars, runVars
  <2>2. PICK K \in States : /\ K[1] = {} /\ K[pc] = known /\ Flow(K, pc)
                            /\ NestedAt(nest, pc) /\ Tracks(K, nest, pc)
    BY <1>1 DEF FlowInv
  <2> DEFINE S == Effect(Code[pc])
             L == [K EXCEPT ![pc + 1] = S]
  <2>3. S \in SUBSET Nat
    BY <1>1, KnownIsSet
  <2> HIDE DEF S
  <2>4. pc + 1 \in Nat /\ pc + 1 # 1 /\ L = [K EXCEPT ![pc + 1] = S]
    BY <1>1
  <2> HIDE DEF L
  <2>5. L \in States /\ L[pc + 1] = S /\ \A j \in Nat : j # pc + 1 => L[j] = K[j]
    BY <2>2, <2>3, <2>4 DEF States
  <2>6. L[1] = {} /\ L[pc] = known /\ \A j \in 1 .. pc : L[j] = K[j]
    BY <1>1, <2>2, <2>4, <2>5
  <2>7. Flow(L, pc)
    BY <1>1, <2>2, <2>6, FlowKept
  <2>8. Code[pc].op # "set" => S = known
    BY DEF S, Effect
  <2>9. StepOK(L, pc, pc + 1)
    <3>1. /\ Code[pc].op = "if" => ~ (ElseOf(pc) < pc + 1)
          /\ Code[pc].op \in {"if", "while"} => ~ (EndOf(pc) < pc + 1)
      BY <1>1, BranchElse, EndFacts
    <3>2. ASSUME Code[pc].op = "set"
          PROVE  /\ Maybe(Code[pc].local)
                 /\ S = IF Code[pc].value \in Writable THEN known \cup {Code[pc].local}
                        ELSE known \ {Code[pc].local}
      BY <2>1, <3>2 DEF Allowed, S, Effect
    <3>3. Code[pc].op = "use" => Code[pc].local \in known
      BY <2>1 DEF Allowed
    <3>4. Code[pc].op = "while" /\ Code[pc].local # 0 => Code[pc].local \in known
      BY <2>1 DEF Allowed
    <3> QED BY <1>1, <2>5, <2>6, <2>8, <3>1, <3>2, <3>3, <3>4 DEF StepOK
  <2>10. Flow(L, pc + 1)
    BY <1>1, <2>7, <2>9, FlowOn
  <2>11. Tracks(L, nest, pc + 1)
    <3>1. \A k \in 1 .. Len(nest) : nest[k].from \in 1 .. (pc - 1)
      BY <2>2 DEF NestedAt
    <3>2. \A k \in 1 .. Len(nest) : Code[nest[k].from].op = "if" => ElseOf(nest[k].from) # pc
      <4> TAKE k \in 1 .. Len(nest)
      <4>1. nest[k].from \in 1 .. Len(Code)
        BY <1>1, <3>1
      <4> QED BY <1>1, <4>1, BranchElse
    <3> QED BY <1>1, <2>2, <2>6, <3>1, <3>2, TracksOn
  <2>12. /\ Len(nest) \in Nat /\ Len(nest) = Level(pc - 1) /\ Level(pc) \in Int
         /\ \A k \in 1 .. Len(nest) :
               /\ nest[k].from \in 1 .. (pc - 1) /\ Opens(nest[k].from)
               /\ Level(nest[k].from) = k
               /\ \A m \in nest[k].from .. (pc - 1) : Level(m) >= k
    BY <1>1, <2>2, LevelStep DEF NestedAt
  <2>13. CASE Opens(pc)
    <3> DEFINE e == Entered(known, known)
               n == Append(nest, e)
    <3>1. e.from = pc /\ e.entry = known /\ e.first = known
      BY DEF Entered
    <3> HIDE DEF e
    <3>2. /\ Len(n) = Len(nest) + 1 /\ n[Len(nest) + 1] = e
          /\ \A k \in 1 .. Len(nest) : n[k] = nest[k]
      BY <1>1
    <3>3. nest' = n /\ Level(pc) = Len(nest) + 1
      BY <1>1, <2>1, <2>12, <2>13, LevelStep DEF e
    <3> HIDE DEF n
    <3>4. ASSUME NEW k \in 1 .. Len(n)
          PROVE  \/ k \in 1 .. Len(nest) /\ n[k] = nest[k]
                 \/ k = Len(nest) + 1 /\ n[k] = e
      BY <2>12, <3>2, <3>4
    <3>5. NestedAt(n, pc + 1)
      <4>1. Len(n) = Level((pc + 1) - 1)
        BY <1>1, <3>2, <3>3
      <4>2. ASSUME NEW k \in 1 .. Len(n)
            PROVE  /\ n[k].from \in 1 .. ((pc + 1) - 1) /\ Opens(n[k].from)
                   /\ Level(n[k].from) = k
                   /\ \A m \in n[k].from .. ((pc + 1) - 1) : Level(m) >= k
        <5>1. CASE k \in 1 .. Len(nest) /\ n[k] = nest[k]
          <6>1. \A m \in n[k].from .. ((pc + 1) - 1) : m = pc \/ m \in n[k].from .. (pc - 1)
            BY <1>1, <2>12, <5>1
          <6> QED BY <1>1, <2>12, <3>3, <5>1, <6>1
        <5>2. CASE k = Len(nest) + 1 /\ n[k] = e
          <6>1. \A m \in n[k].from .. ((pc + 1) - 1) : m = pc
            BY <1>1, <3>1, <5>2
          <6> QED BY <1>1, <2>12, <2>13, <3>1, <3>3, <5>2, <6>1
        <5> QED BY <3>4, <4>2, <5>1, <5>2
      <4>3. pc + 1 \in 1 .. (Len(Code) + 1)
        BY <1>1
      <4> QED BY <4>1, <4>2, <4>3 DEF NestedAt
    <3>6. Tracks(L, n, pc + 1)
      <4>1. Code[pc].op = "if" => ~ (ElseOf(pc) < pc + 1)
        BY <1>1, BranchElse
      <4>2. L[pc + 1] = known
        BY <2>5, <2>8, <2>13 DEF Opens
      <4> QED BY <2>6, <2>11, <3>1, <3>4, <4>1, <4>2 DEF Tracks
    <3> QED BY <1>1, <2>1, <2>5, <2>6, <2>10, <3>3, <3>5, <3>6, Moves DEF S
  <2>14. CASE ~ Opens(pc)
    <3>1. Level(pc) = Len(nest)
      BY <1>1, <2>12, <2>14, LevelStep
    <3>2. NestedAt(nest, pc + 1)
      <4>1. Len(nest) = Level((pc + 1) - 1) /\ pc + 1 \in 1 .. (Len(Code) + 1)
        BY <1>1, <3>1
      <4>2. ASSUME NEW k \in 1 .. Len(nest)
            PROVE  /\ nest[k].from \in 1 .. ((pc + 1) - 1)
                   /\ \A m \in nest[k].from .. ((pc + 1) - 1) : Level(m) >= k
        <5>1. \A m \in nest[k].from .. ((pc + 1) - 1) : m = pc \/ m \in nest[k].from .. (pc - 1)
          BY <1>1, <2>12, <4>2
        <5> QED BY <1>1, <2>12, <3>1, <5>1
      <4> QED BY <2>12, <4>1, <4>2 DEF NestedAt
    <3>3. nest' = nest
      BY <2>1, <2>14
    <3> QED BY <1>1, <2>1, <2>5, <2>6, <2>10, <2>11, <3>2, <3>3, Moves DEF S
  <2> QED BY <2>13, <2>14
<1> QED BY <1>2, <1>3



\* The innermost block when a closing instruction is checked.
LEMMA AtTop ==
    ASSUME MirInv, NEW op \in {"else", "end"}, Closing(op), NestedAt(nest, pc)
    PROVE  LET t == Top.from IN
           /\ CodeOK /\ Len(Code) \in Nat /\ pc \in 1 .. Len(Code) /\ phase = "code"
           /\ Code[pc].op = op /\ known \in SUBSET Nat
           /\ nest \in Seq(Kept) /\ Len(nest) \in Nat /\ Len(nest) >= 1 /\ Top = nest[Len(nest)]
           /\ t \in 1 .. (pc - 1) /\ t \in 1 .. Len(Code) /\ Opens(t)
           /\ Level(t) = Len(nest) /\ Level(pc - 1) = Len(nest)
           /\ \A m \in t .. (pc - 1) : Level(m) >= Level(t)
           /\ op = "else" => Level(pc) = Len(nest)
           /\ op = "end" => Level(pc) = Len(nest) - 1
<1>1. /\ CodeOK /\ Len(Code) \in Nat /\ pc \in 1 .. Len(Code) /\ phase = "code"
      /\ Code[pc].op = op /\ known \in SUBSET Nat
      /\ nest \in Seq(Kept) /\ Len(nest) \in Nat /\ Len(nest) >= 1
  BY CodeIsOK, AtClosing DEF Closing, Verifying, MirInv, Shapes
<1>2. Len(nest) \in 1 .. Len(nest) /\ Top = nest[Len(nest)]
  BY <1>1 DEF Top
<1> DEFINE t == Top.from
<1>3. /\ t \in 1 .. (pc - 1) /\ Opens(t) /\ Level(t) = Len(nest) /\ Level(pc - 1) = Len(nest)
      /\ \A m \in t .. (pc - 1) : Level(m) >= Level(t)
  BY <1>2 DEF NestedAt
<1> HIDE DEF t
<1>4. t \in 1 .. Len(Code)
  BY <1>1, <1>3
<1>5. /\ op = "else" => Level(pc) = Len(nest)
      /\ op = "end" => Level(pc) = Len(nest) - 1
  <2>1. ~ Opens(pc) /\ "else" # "end"
    BY <1>1 DEF Opens
  <2>2. /\ Level(pc - 1) \in Int /\ Level(pc) \in Int
        /\ Level(pc) = Level(pc - 1) + (IF Opens(pc) THEN 1
                                        ELSE IF Code[pc].op = "end" THEN -1 ELSE 0)
    BY <1>1, LevelStep
  <2> QED BY <1>1, <1>3, <2>1, <2>2
<1> QED BY <1>1, <1>2, <1>3, <1>4, <1>5 DEF t

LEMMA ElseOfTop ==
    ASSUME MirInv, Closing("else"), NestedAt(nest, pc)
    PROVE  Code[Top.from].op = "if" /\ ElseOf(Top.from) = pc
<1> DEFINE t == Top.from
<1>1. /\ CodeOK /\ Len(Code) \in Nat /\ pc \in 1 .. Len(Code) /\ Code[pc].op = "else"
      /\ t \in 1 .. (pc - 1) /\ t \in 1 .. Len(Code) /\ Opens(t)
      /\ Level(pc) = Level(t) /\ \A m \in t .. (pc - 1) : Level(m) >= Level(t)
  BY AtTop
<1> HIDE DEF t
<1>2. PICK i \in 1 .. (pc - 1) : Code[i].op = "if" /\ ElseOf(i) = pc
  BY <1>1, ElseHasBranch
<1>3. i \in 1 .. Len(Code) /\ Opens(i)
  BY <1>1, <1>2 DEF Opens
<1>4. /\ pc \in (i + 1) .. (EndOf(i) - 1) /\ Level(pc) = Level(i) /\ EndOf(i) \in 1 .. Len(Code)
      /\ Closes(i, EndOf(i))
  BY <1>1, <1>2, <1>3, BranchElse, OpenerEnds
<1>5. \A m \in i .. (pc - 1) : Level(m) >= Level(i)
  <2>1. \A m \in i .. (pc - 1) : m \in i .. (EndOf(i) - 1)
    BY <1>1, <1>2, <1>4
  <2> QED BY <1>4, <2>1 DEF Closes
<1>6. ~ (i < t)
  <2>1. i < t => \A m \in i .. (t - 1) : m \in i .. (pc - 1)
    BY <1>1, <1>2
  <2> QED BY <1>1, <1>3, <1>4, <1>5, <2>1, SameLevel
<1>7. ~ (t < i)
  <2>1. t < i => \A m \in t .. (i - 1) : m \in t .. (pc - 1)
    BY <1>1, <1>2
  <2> QED BY <1>1, <1>3, <1>4, <2>1, SameLevel
<1>8. i = t
  BY <1>1, <1>2, <1>6, <1>7
<1> QED BY <1>2, <1>8 DEF t

LEMMA EndOfTop ==
    ASSUME MirInv, Closing("end"), NestedAt(nest, pc)
    PROVE  EndOf(Top.from) = pc
<1> DEFINE t == Top.from
<1>1. /\ CodeOK /\ Len(Code) \in Nat /\ pc \in 1 .. Len(Code) /\ Code[pc].op = "end"
      /\ t \in 1 .. (pc - 1) /\ t \in 1 .. Len(Code)
      /\ Level(pc) = Level(t) - 1 /\ \A m \in t .. (pc - 1) : Level(m) >= Level(t)
  BY AtTop
<1> HIDE DEF t
<1>2. Closes(t, pc)
  BY <1>1 DEF Closes
<1> QED BY <1>1, <1>2, EndIs DEF t

\* The blocks around the innermost one, which is left.
LEMMA NestedBelow ==
    ASSUME MirInv, Closing("end"), NestedAt(nest, pc)
    PROVE  /\ Below \in Seq(Kept) /\ Len(Below) = Len(nest) - 1
           /\ \A k \in 1 .. Len(Below) : Below[k] = nest[k] /\ k \in 1 .. Len(nest)
           /\ NestedAt(Below, pc + 1)
<1>1. /\ CodeOK /\ Len(Code) \in Nat /\ pc \in 1 .. Len(Code)
      /\ nest \in Seq(Kept) /\ Len(nest) \in Nat /\ Len(nest) >= 1
      /\ Level(pc) = Len(nest) - 1
  BY AtTop
<1>2. /\ Below \in Seq(Kept) /\ Len(Below) = Len(nest) - 1
      /\ \A k \in 1 .. (Len(nest) - 1) : Below[k] = nest[k]
  BY <1>1, AllButLast DEF Below
<1>3. \A k \in 1 .. Len(Below) : Below[k] = nest[k] /\ k \in 1 .. Len(nest)
  BY <1>1, <1>2
<1>4. ASSUME NEW k \in 1 .. Len(Below)
      PROVE  /\ Below[k].from \in 1 .. ((pc + 1) - 1) /\ Opens(Below[k].from)
             /\ Level(Below[k].from) = k
             /\ \A m \in Below[k].from .. ((pc + 1) - 1) : Level(m) >= k
  <2>1. /\ Below[k].from \in 1 .. (pc - 1) /\ Opens(Below[k].from)
        /\ Level(Below[k].from) = k
        /\ \A m \in Below[k].from .. (pc - 1) : Level(m) >= k
    BY <1>3 DEF NestedAt
  <2>2. \A m \in Below[k].from .. ((pc + 1) - 1) : m = pc \/ m \in Below[k].from .. (pc - 1)
    BY <1>1, <2>1
  <2>3. Level(pc) >= k
    BY <1>1, <1>2
  <2> QED BY <1>1, <2>1, <2>2, <2>3
<1>5. Len(Below) = Level((pc + 1) - 1) /\ pc + 1 \in 1 .. (Len(Code) + 1)
  BY <1>1, <1>2
<1>6. NestedAt(Below, pc + 1)
  BY <1>4, <1>5 DEF NestedAt
<1> QED BY <1>2, <1>3, <1>6

LEMMA CheckElseFlows == ASSUME MirInv, FlowInv, CheckElse PROVE FlowInv'
<1> DEFINE t == Top.from
<1>1. Closing("else") /\ phase = "code"
  BY DEF CheckElse, Closing, Verifying
<1>2. PICK K \in States : /\ K[1] = {} /\ K[pc] = known /\ Flow(K, pc)
                          /\ NestedAt(nest, pc) /\ Tracks(K, nest, pc)
  BY <1>1 DEF FlowInv
<1>3. /\ CodeOK /\ Len(Code) \in Nat /\ pc \in 1 .. Len(Code) /\ Code[pc].op = "else"
      /\ nest \in Seq(Kept) /\ Len(nest) \in Nat /\ Len(nest) >= 1 /\ Top = nest[Len(nest)]
      /\ t \in 1 .. (pc - 1) /\ t \in 1 .. Len(Code)
      /\ Level(t) = Len(nest) /\ Level(pc - 1) = Len(nest) /\ Level(pc) = Len(nest)
      /\ known \in SUBSET Nat
  BY <1>1, <1>2, AtTop
<1>4. Code[t].op = "if" /\ ElseOf(t) = pc
  BY <1>1, <1>2, ElseOfTop
<1> DEFINE e == [Top EXCEPT !.first = known]
           n == Append(Below, e)
           S == Top.entry
           L == [K EXCEPT ![pc + 1] = S]
<1>5. /\ known' = S /\ nest' = n /\ pc' = pc + 1 /\ phase' = "code" /\ again = FALSE
      /\ UNCHANGED <<fn, locals, again>>
  BY <1>1 DEF CheckElse, Verified, FlowInv, frameVars, runVars
<1>6. /\ Top \in Kept /\ Below \in Seq(Kept)
  BY <1>1, AtClosing
<1>7. S \in SUBSET Nat /\ e.from = t /\ e.entry = S /\ e.first = known
  BY <1>6 DEF Kept
<1>8. /\ Len(n) = Len(nest) /\ n[Len(nest)] = e
      /\ \A k \in 1 .. (Len(nest) - 1) : n[k] = nest[k]
  <2>1. Len(Below) = Len(nest) - 1 /\ \A k \in 1 .. (Len(nest) - 1) : Below[k] = nest[k]
    BY <1>3, AllButLast DEF Below
  <2> HIDE DEF e
  <2> QED BY <1>3, <1>6, <2>1
<1>9. S = K[t]
  <2>1. Len(nest) \in 1 .. Len(nest)
    BY <1>3
  <2> QED BY <1>2, <1>3, <1>4, <2>1 DEF Tracks
<1>10. pc + 1 \in Nat /\ pc + 1 # 1 /\ L = [K EXCEPT ![pc + 1] = S]
  BY <1>3
<1> HIDE DEF t, e, n, S, L
<1>11. L \in States /\ L[pc + 1] = S /\ \A j \in Nat : j # pc + 1 => L[j] = K[j]
  BY <1>2, <1>7, <1>10 DEF States
<1>12. L[1] = {} /\ \A j \in 1 .. pc : L[j] = K[j]
  BY <1>2, <1>3, <1>10, <1>11
<1>13. Flow(L, pc)
  BY <1>2, <1>3, <1>12, FlowKept
<1>14. StepOK(L, pc, pc + 1)
  <2>1. ~ (EndOf(pc) < pc + 1)
    BY <1>3, EndFacts
  <2> QED BY <1>3, <2>1 DEF StepOK
<1>15. Flow(L, pc + 1)
  <2>1. ASSUME NEW i \in 1 .. (pc - 1)
        PROVE  /\ Code[i].op = "if" /\ ElseOf(i) = pc => L[pc + 1] \subseteq L[i]
               /\ Code[i].op \in {"if", "while", "else"} => EndOf(i) # pc
    <3>1. i \in 1 .. Len(Code) /\ i \in 1 .. pc /\ t \in 1 .. pc
      BY <1>3
    <3>2. Code[i].op = "if" /\ ElseOf(i) = pc => i = t
      BY <1>3, <1>4, <3>1, OneBranch
    <3>3. Code[i].op \in {"if", "while", "else"} => EndOf(i) # pc
      BY <1>3, <3>1, EndFacts
    <3> QED BY <1>9, <1>11, <1>12, <3>1, <3>2, <3>3
  <2> QED BY <1>3, <1>13, <1>14, <2>1, FlowMore
<1>16. ASSUME NEW k \in 1 .. Len(n)
       PROVE  /\ k \in 1 .. Len(nest) /\ n[k].from = nest[k].from /\ n[k].entry = nest[k].entry
              /\ \/ k \in 1 .. (Len(nest) - 1) /\ n[k] = nest[k]
                 \/ k = Len(nest) /\ n[k] = e
  <2>1. k \in 1 .. (Len(nest) - 1) \/ k = Len(nest)
    BY <1>3, <1>8, <1>16
  <2> QED BY <1>3, <1>7, <1>8, <1>16, <2>1 DEF t, S
<1>17. NestedAt(n, pc + 1)
  <2>1. Len(n) = Level((pc + 1) - 1) /\ pc + 1 \in 1 .. (Len(Code) + 1)
    BY <1>3, <1>8
  <2>2. ASSUME NEW k \in 1 .. Len(n)
        PROVE  /\ n[k].from \in 1 .. ((pc + 1) - 1) /\ Opens(n[k].from) /\ Level(n[k].from) = k
               /\ \A m \in n[k].from .. ((pc + 1) - 1) : Level(m) >= k
    <3>1. /\ n[k].from \in 1 .. (pc - 1) /\ Opens(n[k].from) /\ Level(n[k].from) = k
          /\ \A m \in n[k].from .. (pc - 1) : Level(m) >= k
      BY <1>2, <1>16 DEF NestedAt
    <3>2. \A m \in n[k].from .. ((pc + 1) - 1) : m = pc \/ m \in n[k].from .. (pc - 1)
      BY <1>3, <3>1
    <3>3. Level(pc) >= k
      BY <1>3, <1>8
    <3> QED BY <1>3, <3>1, <3>2, <3>3
  <2> QED BY <2>1, <2>2 DEF NestedAt
<1>18. Tracks(L, n, pc + 1)
  <2>1. ASSUME NEW k \in 1 .. Len(n)
        PROVE  LET i == n[k].from IN
               /\ Code[i].op = "while" => n[k].entry = L[i + 1]
               /\ Code[i].op = "if" => /\ n[k].entry = L[i]
                                       /\ ElseOf(i) < pc + 1 => n[k].first = L[ElseOf(i)]
    <3> DEFINE i == n[k].from
    <3>1. /\ i = nest[k].from /\ n[k].entry = nest[k].entry /\ k \in 1 .. Len(nest)
          /\ i \in 1 .. (pc - 1)
      BY <1>2, <1>16 DEF NestedAt
    <3>2. /\ Code[i].op = "while" => n[k].entry = K[i + 1]
          /\ Code[i].op = "if" => /\ n[k].entry = K[i]
                                  /\ ElseOf(i) < pc => nest[k].first = K[ElseOf(i)]
      BY <1>2, <3>1 DEF Tracks
    <3>3. Level(i) = k
      BY <1>2, <3>1 DEF NestedAt
    <3> HIDE DEF i
    <3>4. i \in 1 .. pc /\ i + 1 \in 1 .. pc /\ i \in 1 .. Len(Code)
      BY <1>3, <3>1
    <3>5. CASE k = Len(nest) /\ n[k] = e
      <4>1. i = t
        BY <1>3, <3>1, <3>5 DEF t
      <4>2. pc \in 1 .. pc /\ L[pc] = known
        BY <1>2, <1>3, <1>12
      <4> QED BY <1>4, <1>7, <1>12, <3>2, <3>4, <3>5, <4>1, <4>2 DEF i
    <3>6. CASE k \in 1 .. (Len(nest) - 1) /\ n[k] = nest[k]
      <4>1. ASSUME Code[i].op = "if", ElseOf(i) < pc + 1
            PROVE  ElseOf(i) < pc /\ ElseOf(i) \in 1 .. pc
        <5>1. ElseOf(i) # pc
          <6>1. Level(ElseOf(i)) = k
            BY <1>3, <3>3, <3>4, <4>1, BranchElse
          <6> QED BY <1>3, <3>6, <6>1
        <5>2. ElseOf(i) \in (i + 1) .. (EndOf(i) - 1) /\ EndOf(i) \in 1 .. Len(Code)
          BY <1>3, <3>4, <4>1, BranchElse
        <5> QED BY SMTT(20), <1>3, <3>4, <4>1, <5>1, <5>2
      <4>2. ASSUME Code[i].op = "if", ElseOf(i) < pc + 1
            PROVE  n[k].first = L[ElseOf(i)]
        BY <1>12, <3>2, <3>6, <4>1, <4>2
      <4> QED BY <1>12, <3>2, <3>4, <4>2 DEF i
    <3> QED BY <1>16, <3>5, <3>6
  <2> QED BY <2>1 DEF Tracks
<1> QED BY <1>5, <1>11, <1>12, <1>15, <1>17, <1>18, Moves


\* What is around a block that is left keeps its states.
LEMMA TracksBelow ==
    ASSUME MirInv, Closing("end"), NestedAt(nest, pc), NEW K, Tracks(K, nest, pc),
           NEW L, \A j \in 1 .. pc : L[j] = K[j]
    PROVE  Tracks(L, Below, pc + 1)
<1>1. /\ CodeOK /\ Len(Code) \in Nat /\ pc \in 1 .. Len(Code) /\ Code[pc].op = "end"
  BY AtTop
<1>2. \A k \in 1 .. Len(Below) : Below[k] = nest[k] /\ k \in 1 .. Len(nest)
  BY NestedBelow
<1>3. \A k \in 1 .. Len(Below) : Below[k].from \in 1 .. (pc - 1)
  BY <1>2 DEF NestedAt
<1>4. Tracks(K, Below, pc)
  BY <1>2 DEF Tracks
<1>5. \A k \in 1 .. Len(Below) : Code[Below[k].from].op = "if" => ElseOf(Below[k].from) # pc
  <2> TAKE k \in 1 .. Len(Below)
  <2>1. Below[k].from \in 1 .. Len(Code)
    BY <1>1, <1>3
  <2> QED BY <1>1, <2>1, BranchElse
<1> QED BY <1>1, <1>3, <1>4, <1>5, TracksOn

\* A block is left: S is what is known after it.
LEMMA Leaves ==
    ASSUME MirInv, FlowInv, Closing("end"), UNCHANGED <<fn, phase, locals, again>>,
           NEW K \in States, K[1] = {}, K[pc] = known, Flow(K, pc), NestedAt(nest, pc),
           Tracks(K, nest, pc), NEW S \in SUBSET Nat,
           pc' = pc + 1, nest' = Below, known' = S, S \subseteq known,
           Code[Top.from].op = "if" => S \subseteq K[ElseOf(Top.from)],
           Code[Top.from].op = "while" =>
              S \subseteq K[Top.from + 1] /\ K[Top.from + 1] \subseteq known
    PROVE  FlowInv'
<1> DEFINE t == Top.from
           L == [K EXCEPT ![pc + 1] = S]
<1>1. /\ CodeOK /\ Len(Code) \in Nat /\ pc \in 1 .. Len(Code) /\ Code[pc].op = "end"
      /\ t \in 1 .. (pc - 1) /\ t \in 1 .. Len(Code) /\ Opens(t) /\ phase = "code"
  BY AtTop
<1>2. EndOf(t) = pc /\ again = FALSE
  BY <1>1, EndOfTop DEF FlowInv
<1>3. pc + 1 \in Nat /\ pc + 1 # 1 /\ L = [K EXCEPT ![pc + 1] = S]
  BY <1>1
<1>4. /\ Code[t].op = "if" => S \subseteq K[ElseOf(t)]
      /\ Code[t].op = "while" => S \subseteq K[t + 1] /\ K[t + 1] \subseteq known
  OBVIOUS
<1> HIDE DEF t, L
<1>5. L \in States /\ L[pc + 1] = S /\ \A j \in Nat : j # pc + 1 => L[j] = K[j]
  BY <1>3 DEF States
<1>6. L[1] = {} /\ \A j \in 1 .. pc : L[j] = K[j]
  BY <1>1, <1>3, <1>5
<1>7. Flow(L, pc)
  BY <1>1, <1>6, FlowKept
<1>8. StepOK(L, pc, pc + 1)
  BY <1>1 DEF StepOK
<1>9. ASSUME NEW i \in 1 .. (pc - 1)
      PROVE  /\ Code[i].op = "if" /\ ElseOf(i) = pc => L[pc + 1] \subseteq L[i]
             /\ Code[i].op = "if" /\ EndOf(i) = pc => L[pc + 1] \subseteq L[pc]
             /\ Code[i].op = "else" /\ EndOf(i) = pc => L[pc + 1] \subseteq L[i]
             /\ Code[i].op = "while" /\ EndOf(i) = pc =>
                    L[pc + 1] \subseteq L[i + 1] /\ L[i + 1] \subseteq L[pc]
  <2>1. i \in 1 .. Len(Code) /\ i \in 1 .. pc /\ i + 1 \in 1 .. pc /\ pc \in 1 .. pc
    BY <1>1
  <2>2. Code[i].op = "if" => ElseOf(i) # pc
    BY <1>1, <2>1, BranchElse
  <2>3. L[pc] = known /\ L[i] = K[i] /\ L[i + 1] = K[i + 1]
    BY <1>6, <2>1
  <2>4. Code[i].op = "else" /\ EndOf(i) = pc => L[pc + 1] \subseteq L[i]
    <3> SUFFICES ASSUME Code[i].op = "else", EndOf(i) = pc PROVE L[pc + 1] \subseteq L[i]
      OBVIOUS
    <3>1. PICK b \in 1 .. (i - 1) : Code[b].op = "if" /\ ElseOf(b) = i
      BY <1>1, <2>1, ElseHasBranch
    <3>2. b \in 1 .. Len(Code) /\ Opens(b)
      BY <1>1, <2>1, <3>1 DEF Opens
    <3>3. EndOf(b) = pc
      BY <1>1, <3>1, <3>2, BranchElse
    <3>4. b = t
      BY <1>1, <1>2, <3>2, <3>3, OneOpener
    <3> QED BY <1>4, <1>5, <2>3, <3>1, <3>4
  <2>5. Code[i].op = "while" /\ EndOf(i) = pc => i = t
    BY <1>1, <1>2, <2>1, OneOpener DEF Opens
  <2> QED BY <1>4, <1>5, <2>2, <2>3, <2>4, <2>5
<1>10. Flow(L, pc + 1)
  BY <1>1, <1>7, <1>8, <1>9, FlowMore
<1>11. NestedAt(Below, pc + 1)
  BY NestedBelow
<1>12. Tracks(L, Below, pc + 1)
  BY <1>6, TracksBelow
<1>13. UNCHANGED <<fn, locals, again>> /\ phase' = "code"
  BY <1>1
<1> QED BY <1>2, <1>5, <1>6, <1>10, <1>11, <1>12, <1>13, Moves

LEMMA CheckEndIfFlows == ASSUME MirInv, FlowInv, CheckEndIf PROVE FlowInv'
<1>1. Closing("end") /\ phase = "code"
  BY DEF CheckEndIf, Closing, Verifying
<1>2. PICK K \in States : /\ K[1] = {} /\ K[pc] = known /\ Flow(K, pc)
                          /\ NestedAt(nest, pc) /\ Tracks(K, nest, pc)
  BY <1>1 DEF FlowInv
<1> DEFINE t == Top.from
           S == Top.first \cap known
<1>3. /\ CodeOK /\ Len(Code) \in Nat /\ t \in 1 .. Len(Code) /\ Opens(t)
      /\ Top = nest[Len(nest)] /\ Len(nest) \in Nat /\ Len(nest) >= 1 /\ known \in SUBSET Nat
      /\ EndOf(t) = pc
  BY <1>1, <1>2, AtTop, EndOfTop
<1>4. Code[t].op = "if"
  BY <1>3 DEF CheckEndIf, IsLoop, Opens
<1>5. ElseOf(t) < pc
  BY <1>3, <1>4, BranchElse
<1>6. Top.first = K[ElseOf(t)]
  <2>1. Len(nest) \in 1 .. Len(nest)
    BY <1>3
  <2> QED BY <1>2, <1>3, <1>4, <1>5, <2>1 DEF Tracks
<1>7. /\ pc' = pc + 1 /\ nest' = Below /\ known' = S
      /\ UNCHANGED <<fn, phase, locals, again>>
  BY DEF CheckEndIf, Verified, Join, frameVars, runVars
<1>8. S \in SUBSET Nat /\ S \subseteq known /\ S \subseteq K[ElseOf(t)]
  BY <1>3, <1>6
<1>9. Code[t].op # "while"
  BY <1>4
<1> HIDE DEF S
<1> QED BY <1>1, <1>2, <1>7, <1>8, <1>9, Leaves

\* The body of a loop is checked again, from less.
LEMMA LoopsAgain ==
    ASSUME MirInv, FlowInv, Closing("end"), UNCHANGED <<fn, phase, locals, again>>,
           NEW K \in States, K[1] = {}, K[pc] = known, Flow(K, pc), NestedAt(nest, pc),
           Tracks(K, nest, pc), IsLoop(Top.from),
           NEW S, S = Top.entry \cap known,
           pc' = Top.from + 1, nest' = Append(Below, [Top EXCEPT !.entry = S]), known' = S
    PROVE  FlowInv'
<1> DEFINE t == Top.from
           e == [Top EXCEPT !.entry = S]
           n == Append(Below, e)
           L == [K EXCEPT ![t + 1] = S]
<1>1. /\ CodeOK /\ Len(Code) \in Nat /\ pc \in 1 .. Len(Code) /\ Code[pc].op = "end"
      /\ nest \in Seq(Kept) /\ Len(nest) \in Nat /\ Len(nest) >= 1 /\ Top = nest[Len(nest)]
      /\ t \in 1 .. (pc - 1) /\ t \in 1 .. Len(Code) /\ Opens(t) /\ phase = "code"
      /\ Level(t) = Len(nest) /\ \A m \in t .. (pc - 1) : Level(m) >= Level(t)
      /\ known \in SUBSET Nat
  BY AtTop
<1>2. Code[t].op = "while" /\ again = FALSE
  BY <1>1 DEF IsLoop, FlowInv
<1>3. Top \in Kept /\ Below \in Seq(Kept)
  BY AtClosing
<1>4. S \in SUBSET Nat /\ e.from = t /\ e.entry = S
  BY <1>1, <1>3 DEF Kept
<1>5. /\ Len(n) = Len(nest) /\ n[Len(nest)] = e
      /\ \A k \in 1 .. (Len(nest) - 1) : n[k] = nest[k]
  <2>1. Len(Below) = Len(nest) - 1 /\ \A k \in 1 .. (Len(nest) - 1) : Below[k] = nest[k]
    BY <1>1, AllButLast DEF Below
  <2> HIDE DEF e
  <2> QED BY <1>1, <1>3, <2>1
<1>6. S \subseteq K[t + 1]
  <2>1. Len(nest) \in 1 .. Len(nest)
    BY <1>1
  <2> QED BY <1>1, <1>2, <2>1 DEF Tracks
<1>7. t + 1 \in Nat /\ t + 1 # 1 /\ L = [K EXCEPT ![t + 1] = S] /\ pc' = t + 1 /\ nest' = n
  BY <1>1
<1> HIDE DEF t, e, n, L
<1>8. L \in States /\ L[t + 1] = S /\ \A j \in Nat : j # t + 1 => L[j] = K[j]
  BY <1>4, <1>7 DEF States
<1>9. L[1] = {} /\ \A j \in 1 .. t : L[j] = K[j]
  BY <1>1, <1>7, <1>8
<1>10. Flow(L, t)
  <2>1. t \in 1 .. pc /\ pc \in 1 .. (Len(Code) + 1) /\ t \in 1 .. (Len(Code) + 1)
    BY <1>1
  <2>2. Flow(K, t)
    BY <1>1, <2>1, FlowLess
  <2> QED BY <1>1, <1>9, <2>1, <2>2, FlowKept
<1>11. StepOK(L, t, t + 1)
  <2>1. StepOK(K, t, pc)
    BY <1>1 DEF Flow
  <2>2. t \in 1 .. t /\ ~ (EndOf(t) < t + 1)
    BY <1>1, <1>2, EndFacts
  <2>3. K[t + 1] \subseteq K[t] /\ (Code[t].local # 0 => Code[t].local \in K[t])
    BY <1>2, <2>1 DEF StepOK
  <2> QED BY <1>2, <1>6, <1>8, <1>9, <2>2, <2>3 DEF StepOK
<1>12. Flow(L, t + 1)
  BY <1>1, <1>2, <1>10, <1>11, FlowOn
<1>13. ASSUME NEW k \in 1 .. Len(n)
       PROVE  \/ k \in 1 .. (Len(nest) - 1) /\ k \in 1 .. Len(nest) /\ n[k] = nest[k]
              \/ k = Len(nest) /\ n[k] = e
  BY <1>1, <1>5, <1>13
<1>14. ASSUME NEW k \in 1 .. (Len(nest) - 1)
       PROVE  /\ nest[k].from \in 1 .. (t - 1) /\ Opens(nest[k].from) /\ Level(nest[k].from) = k
              /\ \A m \in nest[k].from .. t : Level(m) >= k
  <2> DEFINE i == nest[k].from
  <2>1. /\ i \in 1 .. (pc - 1) /\ Opens(i) /\ Level(i) = k
        /\ \A m \in i .. (pc - 1) : Level(m) >= k
    <3>1. k \in 1 .. Len(nest)
      BY <1>1
    <3> QED BY <3>1 DEF NestedAt
  <2> HIDE DEF i
  <2>2. i # t
    BY <1>1, <2>1
  <2>3. ~ (t < i)
    <3>1. ASSUME t < i PROVE FALSE
      <4>1. i - 1 \in t .. (pc - 1) /\ i \in 1 .. Len(Code)
        BY <1>1, <2>1, <3>1
      <4>2. Level(i) = Level(i - 1) + 1 /\ Level(i - 1) \in Int
        BY <1>1, <2>1, <4>1, LevelStep
      <4>3. Level(i - 1) >= Len(nest)
        BY <1>1, <4>1
      <4> QED BY <1>1, <2>1, <4>2, <4>3
    <3> QED BY <3>1
  <2>4. i \in 1 .. (t - 1)
    BY <1>1, <2>1, <2>2, <2>3
  <2>5. \A m \in i .. t : m \in i .. (pc - 1)
    BY <1>1, <2>1
  <2> QED BY <2>1, <2>4, <2>5 DEF i
<1>15. NestedAt(n, t + 1)
  <2>1. Len(n) = Level((t + 1) - 1) /\ t + 1 \in 1 .. (Len(Code) + 1) /\ (t + 1) - 1 = t
    BY <1>1, <1>5
  <2>2. ASSUME NEW k \in 1 .. Len(n)
        PROVE  /\ n[k].from \in 1 .. t /\ Opens(n[k].from) /\ Level(n[k].from) = k
               /\ \A m \in n[k].from .. t : Level(m) >= k
    <3>1. CASE k \in 1 .. (Len(nest) - 1) /\ n[k] = nest[k]
      BY <1>1, <1>14, <3>1
    <3>2. CASE k = Len(nest) /\ n[k] = e
      <4>1. t \in 1 .. t /\ \A m \in t .. t : m = t
        BY <1>1
      <4> QED BY <1>1, <1>4, <3>2, <4>1
    <3> QED BY <1>13, <3>1, <3>2
  <2> QED BY <2>1, <2>2 DEF NestedAt
<1>16. Tracks(L, n, t + 1)
  <2>1. ASSUME NEW k \in 1 .. Len(n)
        PROVE  LET i == n[k].from IN
               /\ Code[i].op = "while" => n[k].entry = L[i + 1]
               /\ Code[i].op = "if" => /\ n[k].entry = L[i]
                                       /\ ElseOf(i) < t + 1 => n[k].first = L[ElseOf(i)]
    <3>1. CASE k \in 1 .. (Len(nest) - 1) /\ k \in 1 .. Len(nest) /\ n[k] = nest[k]
      <4> DEFINE i == nest[k].from
      <4>1. /\ Code[i].op = "while" => nest[k].entry = K[i + 1]
            /\ Code[i].op = "if" => /\ nest[k].entry = K[i]
                                    /\ ElseOf(i) < pc => nest[k].first = K[ElseOf(i)]
        BY <3>1 DEF Tracks
      <4>2. i \in 1 .. (t - 1)
        BY <1>14, <3>1
      <4> HIDE DEF i
      <4>3. i \in 1 .. t /\ i + 1 \in 1 .. t /\ i \in 1 .. Len(Code)
        BY <1>1, <4>2
      <4>4. ASSUME Code[i].op = "if", ElseOf(i) < t + 1
            PROVE  ElseOf(i) < pc /\ ElseOf(i) \in 1 .. t
        <5>1. ElseOf(i) \in (i + 1) .. (EndOf(i) - 1) /\ EndOf(i) \in 1 .. Len(Code)
          BY <1>1, <4>3, <4>4, BranchElse
        <5> QED BY SMTT(20), <1>1, <4>3, <4>4, <5>1
      <4>5. ASSUME Code[i].op = "if", ElseOf(i) < t + 1
            PROVE  nest[k].first = L[ElseOf(i)]
        BY <1>9, <4>1, <4>4, <4>5
      <4> QED BY <1>9, <3>1, <4>1, <4>3, <4>5 DEF i
    <3>2. CASE k = Len(nest) /\ n[k] = e
      BY <1>2, <1>4, <1>8, <3>2
    <3> QED BY <1>13, <3>1, <3>2
  <2> QED BY <2>1 DEF Tracks
<1>17. phase' = "code" /\ UNCHANGED <<fn, locals, again>> /\ L[t + 1] = known'
  BY <1>1, <1>8
<1> QED BY <1>2, <1>7, <1>8, <1>9, <1>12, <1>15, <1>16, <1>17, Moves

LEMMA CheckEndLoopFlows == ASSUME MirInv, FlowInv, CheckEndLoop PROVE FlowInv'
<1>1. Closing("end") /\ phase = "code" /\ IsLoop(Top.from)
  BY DEF CheckEndLoop, Closing, Verifying
<1>2. PICK K \in States : /\ K[1] = {} /\ K[pc] = known /\ Flow(K, pc)
                          /\ NestedAt(nest, pc) /\ Tracks(K, nest, pc)
  BY <1>1 DEF FlowInv
<1> DEFINE t == Top.from
           S == Top.entry \cap known
<1>3. CASE S # Top.entry
  <2>1. /\ pc' = t + 1 /\ nest' = Append(Below, [Top EXCEPT !.entry = S]) /\ known' = S
        /\ UNCHANGED <<fn, phase, locals, again>>
    BY <1>3 DEF CheckEndLoop, Verified, frameVars, runVars
  <2>2. S = Top.entry \cap known
    OBVIOUS
  <2> HIDE DEF S
  <2> QED BY <1>1, <1>2, <2>1, <2>2, LoopsAgain
<1>4. CASE S = Top.entry
  <2>1. /\ pc' = pc + 1 /\ nest' = Below /\ known' = S
        /\ UNCHANGED <<fn, phase, locals, again>>
    BY <1>4 DEF CheckEndLoop, Verified, frameVars, runVars
  <2>2. /\ Top = nest[Len(nest)] /\ Len(nest) \in Nat /\ Len(nest) >= 1 /\ known \in SUBSET Nat
    BY <1>1, <1>2, AtTop
  <2>3. Code[t].op = "while"
    BY <1>1 DEF IsLoop
  <2>4. Top.entry = K[t + 1]
    <3>1. Len(nest) \in 1 .. Len(nest)
      BY <2>2
    <3> QED BY <1>2, <2>2, <2>3, <3>1 DEF Tracks
  <2>5. /\ S \in SUBSET Nat /\ S \subseteq known
        /\ S \subseteq K[t + 1] /\ K[t + 1] \subseteq known
    BY <1>4, <2>2, <2>4
  <2>6. Code[t].op # "if"
    BY <2>3
  <2> HIDE DEF S
  <2> QED BY <1>1, <1>2, <2>1, <2>5, <2>6, Leaves
<1> QED BY <1>3, <1>4


\* The steps before the code is checked, and the first state.
LEMMA EarlyFlows ==
    ASSUME MirInv, FlowInv, LayLocal \/ LaidOut \/ CheckLocal \/ FrameChecked
    PROVE  FlowInv'
<1>1. CASE LayLocal
  BY <1>1 DEF LayLocal, FlowInv, flowVars, runVars
<1>2. CASE LaidOut
  BY <1>2 DEF LaidOut, FlowInv, flowVars, runVars
<1>3. CASE CheckLocal
  BY <1>3 DEF CheckLocal, Refuse, FlowInv, flowVars, runVars
<1>4. CASE FrameChecked
  <2>1. /\ phase = "frame" /\ phase' = "code" /\ UNCHANGED <<fn, locals, again>>
        /\ known' = known /\ nest' = nest /\ pc' = pc
    BY <1>4 DEF FrameChecked, frameVars, flowVars, runVars
  <2>2. known = {} /\ again = FALSE /\ nest = <<>> /\ pc = 1
    BY <2>1 DEF FlowInv, MirInv, Shapes
  <2> DEFINE L == [j \in Nat |-> {}]
  <2>3. L \in States /\ L[1] = {}
    BY DEF States
  <2>4. Flow(L, 1)
    BY DEF Flow
  <2>5. NestedAt(<<>>, 1)
    <3>1. Len(Code) \in Nat /\ Level(1 - 1) = 0
      BY CodeIsOK, LevelZero
    <3> QED BY <3>1 DEF NestedAt
  <2>6. Tracks(L, <<>>, 1)
    BY DEF Tracks
  <2> HIDE DEF L
  <2>7. pc' = 1 /\ nest' = <<>> /\ L[1] = known'
    BY <2>1, <2>2, <2>3
  <2> QED BY <2>1, <2>2, <2>3, <2>4, <2>5, <2>6, <2>7, Moves
<1> QED BY <1>1, <1>2, <1>3, <1>4

LEMMA AcceptFlows == ASSUME MirInv, FlowInv, Accept PROVE FlowInv'
<1>1. /\ phase = "code" /\ pc > Len(Code) /\ phase' = "running" /\ pc' = 1
      /\ holds' = [i \in 1 .. Len(locals) |-> "none"]
      /\ UNCHANGED <<fn, locals, again>>
  BY DEF Accept, frameVars
<1>2. PICK K \in States : /\ K[1] = {} /\ Flow(K, pc) /\ NestedAt(nest, pc)
  BY <1>1 DEF FlowInv
<1>3. Len(Code) \in Nat /\ pc = Len(Code) + 1 /\ again = FALSE
  BY <1>1, <1>2, CodeIsOK DEF NestedAt, FlowInv
<1>4. Flow(K, Len(Code) + 1)' /\ Code' = Code
  <2>1. /\ Code' = Code /\ \A i : Maybe(i)' = Maybe(i)
    BY <1>1, CodeStays
  <2>2. \A i : ElseOf(i)' = ElseOf(i) /\ EndOf(i)' = EndOf(i)
    BY <2>1 DEF ElseOf, EndOf
  <2> QED BY <1>2, <1>3, <2>1, <2>2 DEF Flow, StepOK
<1>5. Covered(K[1])' /\ DOMAIN holds' = 1 .. Len(locals')
  BY <1>1, <1>2 DEF Covered
<1>6. 1 \in 1 .. (Len(Code) + 1)
  BY <1>3
<1> QED BY <1>1, <1>2, <1>3, <1>4, <1>5, <1>6 DEF FlowInv

\* The function runs on, to instruction p.
LEMMA RunsOn ==
    ASSUME UNCHANGED <<fn, locals>>, phase' = "running", NEW K \in States,
           Flow(K, Len(Code) + 1), DOMAIN holds' = 1 .. Len(locals),
           NEW p \in 1 .. (Len(Code) + 1), pc' = p,
           again' => p <= Len(Code) /\ IsLoop(p),
           NEW S, S = IF again' THEN K[p + 1] ELSE K[p],
           \A l \in S : l \in DOMAIN holds' /\ holds'[l] \in Writable
    PROVE  FlowInv'
<1>1. /\ Code' = Code /\ \A i : Maybe(i)' = Maybe(i)
  BY CodeStays
<1>2. \A i : ElseOf(i)' = ElseOf(i) /\ EndOf(i)' = EndOf(i)
  BY <1>1 DEF ElseOf, EndOf
<1>3. Flow(K, Len(Code) + 1)'
  BY <1>1, <1>2 DEF Flow, StepOK
<1>4. again' => Covered(K[pc + 1])'
  BY DEF Covered
<1>5. ~ again' => Covered(K[pc])'
  BY DEF Covered
<1>6. IsLoop(p)' = IsLoop(p)
  BY <1>1 DEF IsLoop
<1> QED BY <1>1, <1>3, <1>4, <1>5, <1>6 DEF FlowInv, IsLoop

LEMMA RunFlows == ASSUME MirInv, FlowInv, Run PROVE FlowInv'
<1>1. CASE RunReturn
  BY <1>1 DEF RunReturn, FlowInv
<1>2. CASE ~ RunReturn
  <2>1. /\ phase = "running" /\ phase' = "running" /\ pc \in 1 .. Len(Code)
        /\ UNCHANGED <<fn, locals>>
    BY <1>2 DEF Run, RunSet, RunOther, RunIf, RunWhile, RunElse, RunEnd, Running, Continue,
                frameVars
  <2>2. CodeOK /\ Len(Code) \in Nat
    BY CodeIsOK
  <2>3. PICK K \in States :
            /\ Flow(K, Len(Code) + 1)
            /\ IF again THEN pc <= Len(Code) /\ IsLoop(pc) /\ Covered(K[pc + 1])
               ELSE Covered(K[pc])
    BY <2>1 DEF FlowInv
  <2>4. DOMAIN holds = 1 .. Len(locals)
    BY <2>1 DEF FlowInv
  <2>5. \A i \in 1 .. Len(Code) : StepOK(K, i, Len(Code) + 1)
    BY <2>2, <2>3 DEF Flow
  <2>6. StepOK(K, pc, Len(Code) + 1)
    BY <2>1, <2>5
  <2>7. Code[pc].op # "while" => Covered(K[pc]) /\ ~ again
    <3>1. CASE again
      BY <2>3, <3>1 DEF IsLoop
    <3>2. CASE ~ again
      BY <2>3, <3>2
    <3> QED BY <3>1, <3>2
  <2>8. CASE RunSet
    <3>1. /\ Code[pc].op = "set" /\ pc' = pc + 1 /\ again' = again
          /\ holds' = [holds EXCEPT ![Code[pc].local] = Code[pc].value]
      BY <2>8 DEF RunSet, Here, Continue
    <3>2. /\ Maybe(Code[pc].local)
          /\ K[pc + 1] \subseteq (IF Code[pc].value \in Writable
                                  THEN K[pc] \cup {Code[pc].local} ELSE K[pc] \ {Code[pc].local})
      BY <2>6, <3>1 DEF StepOK
    <3>3. Code[pc].local \in DOMAIN holds
      BY <2>4, <3>2 DEF Maybe, IsLocal
    <3>4. \A l \in K[pc + 1] : l \in DOMAIN holds' /\ holds'[l] \in Writable
      BY <2>7, <3>1, <3>2, <3>3 DEF Covered
    <3>5. DOMAIN holds' = 1 .. Len(locals) /\ ~ again' /\ pc + 1 \in 1 .. (Len(Code) + 1)
      BY <2>1, <2>2, <2>4, <2>7, <3>1
    <3> QED BY <2>1, <2>3, <3>1, <3>4, <3>5, RunsOn
  <2>9. ASSUME NEW p \in 1 .. (Len(Code) + 1), pc' = p, holds' = holds, ~ again',
               \/ K[p] \subseteq K[pc] /\ Covered(K[pc])
               \/ K[p] \subseteq K[pc + 1] /\ Covered(K[pc + 1])
        PROVE  FlowInv'
    <3>1. \A l \in K[p] : l \in DOMAIN holds' /\ holds'[l] \in Writable
      BY <2>9 DEF Covered
    <3>2. DOMAIN holds' = 1 .. Len(locals)
      BY <2>4, <2>9
    <3> QED BY <2>1, <2>3, <2>9, <3>1, <3>2, RunsOn
  <2>10. pc + 1 \in 1 .. (Len(Code) + 1)
    BY <2>1, <2>2
  <2>11. CASE RunOther
    <3>1. Code[pc].op \in {"use", "store"} /\ pc' = pc + 1 /\ holds' = holds /\ again' = again
      BY <2>11 DEF RunOther, Here, Continue, runVars
    <3>2. K[pc + 1] \subseteq K[pc]
      BY <2>6, <3>1 DEF StepOK
    <3> QED BY <2>7, <2>9, <2>10, <3>1, <3>2
  <2>12. CASE RunIf
    <3>1. /\ Code[pc].op = "if" /\ holds' = holds /\ again' = again
          /\ pc' = pc + 1 \/ pc' = ElseOf(pc) + 1
      BY <2>12 DEF RunIf, Here, Continue, runVars
    <3>2. ElseOf(pc) < Len(Code) + 1 /\ ElseOf(pc) + 1 \in 1 .. (Len(Code) + 1)
      BY <2>1, <2>2, <3>1, BranchElse
    <3>3. K[pc + 1] \subseteq K[pc] /\ K[ElseOf(pc) + 1] \subseteq K[pc]
      BY <2>6, <3>1, <3>2 DEF StepOK
    <3> QED BY <2>7, <2>9, <2>10, <3>1, <3>2, <3>3
  <2>13. CASE RunWhile
    <3>1. /\ Code[pc].op = "while" /\ holds' = holds /\ again' = FALSE
          /\ pc' = pc + 1 \/ pc' = EndOf(pc) + 1
      BY <2>13 DEF RunWhile, Here, Continue
    <3>2. EndOf(pc) < Len(Code) + 1 /\ EndOf(pc) + 1 \in 1 .. (Len(Code) + 1)
      BY <2>1, <2>2, <3>1, EndFacts
    <3>3. K[pc + 1] \subseteq K[pc] /\ K[EndOf(pc) + 1] \subseteq K[pc + 1]
      BY <2>6, <3>1, <3>2 DEF StepOK
    <3>4. K[pc + 1] \subseteq K[pc + 1] /\ Covered(K[pc + 1])
      BY <2>3, <3>3 DEF Covered
    <3> QED BY <2>9, <2>10, <3>1, <3>2, <3>3, <3>4
  <2>14. CASE RunElse
    <3>1. /\ Code[pc].op = "else" /\ holds' = holds /\ again' = again
          /\ pc' = EndOf(pc) + 1
      BY <2>14 DEF RunElse, Here, Continue, runVars
    <3>2. EndOf(pc) < Len(Code) + 1 /\ EndOf(pc) + 1 \in 1 .. (Len(Code) + 1)
      BY <2>1, <2>2, <3>1, EndFacts
    <3>3. K[EndOf(pc) + 1] \subseteq K[pc]
      BY <2>6, <3>1, <3>2 DEF StepOK
    <3> QED BY <2>7, <2>9, <3>1, <3>2, <3>3
  <2>15. CASE RunEnd
    <3> DEFINE o == OpenerOf(pc)
    <3>1. Code[pc].op = "end"
      BY <2>15 DEF RunEnd, Here
    <3>2. PICK i \in 1 .. (pc - 1) : Opens(i) /\ EndOf(i) = pc
      BY <2>1, <2>2, <3>1, EndHasOpener
    <3>3. o \in 1 .. pc /\ Opens(o) /\ EndOf(o) = pc
      <4>1. i \in 1 .. pc /\ Code[i].op \in {"if", "while"} /\ EndOf(i) = pc
        BY <2>1, <3>2 DEF Opens
      <4> QED BY <4>1 DEF OpenerOf, Opens
    <3>4. \/ IsLoop(o) /\ pc' = o /\ again' = TRUE /\ holds' = holds
          \/ ~ IsLoop(o) /\ pc' = pc + 1 /\ again' = again /\ holds' = holds
      BY <2>15 DEF RunEnd, Continue, runVars
    <3> HIDE DEF o
    <3>5. o \in 1 .. Len(Code) /\ EndOf(o) < Len(Code) + 1 /\ StepOK(K, o, Len(Code) + 1)
      BY <2>1, <2>2, <2>5, <3>3
    <3>6. Covered(K[pc]) /\ ~ again
      BY <2>7, <3>1
    <3>7. CASE IsLoop(o) /\ pc' = o /\ again' = TRUE /\ holds' = holds
      <4>1. K[o + 1] \subseteq K[pc]
        BY <3>3, <3>5, <3>7 DEF StepOK, IsLoop
      <4>2. \A l \in K[o + 1] : l \in DOMAIN holds' /\ holds'[l] \in Writable
        BY <3>6, <3>7, <4>1 DEF Covered
      <4>3. o \in 1 .. (Len(Code) + 1) /\ o <= Len(Code) /\ DOMAIN holds' = 1 .. Len(locals)
        BY <2>2, <2>4, <3>5, <3>7
      <4> QED BY <2>1, <2>3, <3>7, <4>2, <4>3, RunsOn
    <3>8. CASE ~ IsLoop(o) /\ pc' = pc + 1 /\ again' = again /\ holds' = holds
      <4>1. Code[o].op = "if"
        BY <3>3, <3>8 DEF IsLoop, Opens
      <4>2. K[pc + 1] \subseteq K[pc]
        BY <3>3, <3>5, <4>1 DEF StepOK
      <4> QED BY <2>9, <2>10, <3>6, <3>8, <4>2
    <3> QED BY <3>4, <3>7, <3>8
  <2> QED BY <1>2, <2>8, <2>11, <2>12, <2>13, <2>14, <2>15 DEF Run
<1> QED BY <1>1, <1>2

LEMMA FlowNext == ASSUME MirInv, FlowInv, [Next]_vars PROVE FlowInv'
<1>1. CASE UNCHANGED vars
  <2>1. /\ UNCHANGED <<fn, locals, again>> /\ phase' = phase /\ pc' = pc /\ nest' = nest
        /\ known' = known /\ holds' = holds
    BY <1>1 DEF vars, frameVars, flowVars, runVars
  <2>2. CASE phase = "code"
    <3>1. PICK K \in States : /\ K[1] = {} /\ K[pc] = known /\ Flow(K, pc)
                              /\ NestedAt(nest, pc) /\ Tracks(K, nest, pc)
      BY <2>2 DEF FlowInv
    <3>2. again = FALSE
      BY <2>2 DEF FlowInv
    <3> QED BY <2>1, <2>2, <3>1, <3>2, Moves
  <2>3. CASE phase = "running"
    <3>1. PICK K \in States :
            /\ Flow(K, Len(Code) + 1)
            /\ IF again THEN pc <= Len(Code) /\ IsLoop(pc) /\ Covered(K[pc + 1])
               ELSE Covered(K[pc])
      BY <2>3 DEF FlowInv
    <3>2. DOMAIN holds = 1 .. Len(locals) /\ pc \in 1 .. (Len(Code) + 1)
      BY <2>3 DEF FlowInv
    <3> DEFINE S == IF again' THEN K[pc + 1] ELSE K[pc]
    <3>3. \A l \in S : l \in DOMAIN holds' /\ holds'[l] \in Writable
      BY <2>1, <3>1 DEF Covered
    <3>4. S = IF again' THEN K[pc + 1] ELSE K[pc]
      OBVIOUS
    <3>5. again' => pc <= Len(Code) /\ IsLoop(pc)
      BY <2>1, <3>1
    <3> HIDE DEF S
    <3> QED BY <2>1, <2>3, <3>1, <3>2, <3>3, <3>4, <3>5, RunsOn
  <2>4. CASE phase \notin {"code", "running"}
    BY <2>1, <2>4 DEF FlowInv
  <2> QED BY <2>2, <2>3, <2>4
<1>2. CASE Lowering
  BY <1>2, EarlyFlows DEF Lowering
<1>3. CASE Verifier
  BY <1>3, EarlyFlows, CheckInstrFlows, CheckElseFlows, CheckEndIfFlows, CheckEndLoopFlows,
     AcceptFlows DEF Verifier
<1>4. CASE Run
  BY <1>4, RunFlows
<1> QED BY <1>1, <1>2, <1>3, <1>4 DEF Next

\* Whichever way an accepted function runs, a byte buffer that is written is
\* one that may be: mir_verify_direct_instrs with its joins and its second
\* looks at loops, for every code, however branches and loops are nested.
THEOREM UsesAreOfWritable == Spec => []UsesAreWritable
<1>1. Init => FlowInv
  BY DEF Init, FlowInv
<1>2. MirInv /\ FlowInv => UsesAreWritable
  <2> SUFFICES ASSUME MirInv, FlowInv, Running,
                      Here.op = "use" \/ (Here.op = "while" /\ Here.local # 0 /\ ~ again)
               PROVE  holds[Here.local] \in Writable
    BY DEF UsesAreWritable
  <2>1. phase = "running" /\ pc \in 1 .. Len(Code) /\ Len(Code) \in Nat
    BY CodeIsOK DEF Running
  <2>2. PICK K \in States :
            /\ Flow(K, Len(Code) + 1)
            /\ IF again THEN pc <= Len(Code) /\ IsLoop(pc) /\ Covered(K[pc + 1])
               ELSE Covered(K[pc])
    BY <2>1 DEF FlowInv
  <2>3. StepOK(K, pc, Len(Code) + 1)
    BY <2>1, <2>2 DEF Flow
  <2>4. Here.local \in K[pc]
    BY <2>3 DEF StepOK, Here
  <2>5. ~ again
    BY <2>2 DEF IsLoop, Here
  <2> QED BY <2>2, <2>4, <2>5 DEF Covered
<1>3. MirInv /\ FlowInv /\ [Next]_vars => FlowInv'
  BY FlowNext
<1> QED BY <1>1, <1>2, <1>3, MirInvariant, PTL DEF Spec
=============================================================================
