-------------------------- MODULE CompilerDriverProofs -------------------------
(***************************************************************************)
(* Proofs about CompilerDriver and the AIControl channel it drives.        *)
(*                                                                         *)
(* The control channel's invariant IInv holds until main() returns: the    *)
(* driver's own steps leave the channel alone, and AI_RETURN, which ends   *)
(* the ownership of the overrides, is the last step.  With it, where       *)
(* main() is tells what was already done.                                  *)
(***************************************************************************)
EXTENDS CompilerDriver, SeqLemmas, TLAPS

----------------------------------------------------------------------------
(* The control channel. *)

\* A command as the parser returns it.
Command == [kind : Kinds \cup {"unknown"}, args : Seq(STRING)]

\* Whatever line of the buffer the loop is at, the parser returns a command.
LEMMA ParseType ==
    ASSUME NEW b \in Seq(Entry), NEW i \in 1..Len(b)
    PROVE  ParseCommand(b, i) \in Command
<1> DEFINE K == {j \in i..Len(b) : HasKey(b[j])}
           A == {j \in i..Len(b) : HasArgs(b[j])}
           k == IF K # {} THEN Min(K) ELSE 0
           a == IF A # {} THEN Min(A) ELSE 0
<1>1. k = 0 \/ k \in 1..Len(b)
  <2>1. CASE K = {} BY <2>1
  <2>2. CASE K # {}
    <3>1. K \in SUBSET Nat OBVIOUS
    <3>2. Min(K) \in K BY <2>2, <3>1, MinOfNats
    <3> QED BY <2>2, <3>2
  <2> QED BY <2>1, <2>2
<1>2. a = 0 \/ a \in 1..Len(b)
  <2>1. CASE A = {} BY <2>1
  <2>2. CASE A # {}
    <3>1. A \in SUBSET Nat OBVIOUS
    <3>2. Min(A) \in A BY <2>2, <3>1, MinOfNats
    <3> QED BY <2>2, <3>2
  <2> QED BY <2>1, <2>2
<1>3. ParseCommand(b, i) =
        [kind |-> IF k = 0 THEN "unknown" ELSE b[k].line.cmd,
         args |-> IF a = 0 THEN <<>> ELSE b[a].line.args]
  BY DEF ParseCommand, SelectInSubSeq
<1> HIDE DEF k, a
<1>4. \A j \in 1..Len(b) : b[j] \in Entry
  OBVIOUS
<1>5. \A j \in 1..Len(b) : b[j].line.cmd \in Kinds \cup {"unknown"}
                             /\ b[j].line.args \in Seq(STRING)
  BY <1>4 DEF Entry, Line
<1>6. (IF k = 0 THEN "unknown" ELSE b[k].line.cmd) \in Kinds \cup {"unknown"}
  BY <1>1, <1>5
<1>7. (IF a = 0 THEN <<>> ELSE b[a].line.args) \in Seq(STRING)
  <2>1. CASE a = 0 BY <2>1
  <2>2. CASE a # 0 BY <2>2, <1>2, <1>5
  <2> QED BY <2>1, <2>2
<1> QED BY <1>3, <1>6, <1>7 DEF Command

\* A setter assigns a string to one of the override fields.
LEMMA SetterType ==
    ASSUME NEW cmd \in Command, NEW s \in Setter(cmd)
    PROVE  s[1] \in Fields /\ s[2] \in STRING
<1>1. \A j \in DOMAIN cmd.args : cmd.args[j] \in STRING
  BY DEF Command
<1>2. s \in Fields \X {cmd.args[j] : j \in DOMAIN cmd.args}
  BY DEF Setter
<1> QED BY <1>1, <1>2

\* free() counts a call at one cell, or does nothing for NULL.
LEMMA FreeProperties ==
    ASSUME NEW h \in Seq(Cell), NEW p \in 0..Len(h)
    PROVE  /\ Free(h, p) \in Seq(Cell)
           /\ Len(Free(h, p)) = Len(h)
           /\ \A q \in 1..Len(h) :
                 Free(h, p)[q].frees = IF q = p THEN h[q].frees + 1 ELSE h[q].frees
<1>1. CASE p = 0
  BY <1>1 DEF Free
<1>2. CASE p # 0
  <2> DEFINE e == [h[p] EXCEPT !.frees = @ + 1]
  <2>1. p \in 1..Len(h) /\ h[p] \in Cell
    BY <1>2
  <2>2. e \in Cell /\ e.frees = h[p].frees + 1
    BY <2>1 DEF Cell
  <2>3. Free(h, p) = [h EXCEPT ![p] = e]
    BY <1>2 DEF Free
  <2> HIDE DEF e
  <2> QED BY <2>1, <2>2, <2>3
<1> QED BY <1>1, <1>2

\* So do the three calls of z_ai_destroy and reset, one after the other.
LEMMA FreeOverridesProperties ==
    ASSUME NEW c, c.heap \in Seq(Cell), c.override \in [Fields -> 0..Len(c.heap)]
    PROVE  /\ FreeOverrides(c) \in Seq(Cell)
           /\ Len(FreeOverrides(c)) = Len(c.heap)
           /\ \A q \in 1..Len(c.heap) :
                 (\A f \in Fields : c.override[f] # q)
                    => FreeOverrides(c)[q].frees = c.heap[q].frees
           /\ (\A f, g \in Fields : f # g /\ c.override[f] # 0
                                        => c.override[f] # c.override[g])
              => \A q \in 1..Len(c.heap) :
                    (\E f \in Fields : c.override[f] = q)
                       => FreeOverrides(c)[q].frees = c.heap[q].frees + 1
<1> DEFINE p1 == c.override["profile"]
           p2 == c.override["target"]
           p3 == c.override["emit"]
           h1 == Free(c.heap, p1)
           h2 == Free(h1, p2)
           h3 == Free(h2, p3)
<1>1. /\ p1 \in 0..Len(c.heap) /\ p2 \in 0..Len(c.heap) /\ p3 \in 0..Len(c.heap)
      /\ \A q : (\E f \in Fields : c.override[f] = q) <=> q \in {p1, p2, p3}
  BY DEF Fields
<1>2. FreeOverrides(c) = h3
  BY DEF FreeOverrides
<1>3. /\ h1 \in Seq(Cell) /\ Len(h1) = Len(c.heap)
      /\ \A q \in 1..Len(c.heap) :
            h1[q].frees = IF q = p1 THEN c.heap[q].frees + 1 ELSE c.heap[q].frees
  BY <1>1, FreeProperties
<1>4. /\ h2 \in Seq(Cell) /\ Len(h2) = Len(c.heap)
      /\ \A q \in 1..Len(c.heap) :
            h2[q].frees = IF q = p2 THEN h1[q].frees + 1 ELSE h1[q].frees
  <2> HIDE DEF h1, p2
  <2> QED BY <1>1, <1>3, FreeProperties
<1>5. /\ h3 \in Seq(Cell) /\ Len(h3) = Len(c.heap)
      /\ \A q \in 1..Len(c.heap) :
            h3[q].frees = IF q = p3 THEN h2[q].frees + 1 ELSE h2[q].frees
  <2> HIDE DEF h2, p3
  <2> QED BY <1>1, <1>4, FreeProperties
<1>6. (\A f, g \in Fields : f # g /\ c.override[f] # 0
                                => c.override[f] # c.override[g])
      => /\ p1 # 0 => p1 # p2 /\ p1 # p3
         /\ p2 # 0 => p2 # p3
  BY DEF Fields
<1> HIDE DEF h1, h2, h3, p1, p2, p3
<1>7. \A q \in 1..Len(c.heap) : q \notin {p1, p2, p3} => h3[q].frees = c.heap[q].frees
  BY <1>3, <1>4, <1>5
<1>8. ASSUME p1 # 0 => p1 # p2 /\ p1 # p3, p2 # 0 => p2 # p3
      PROVE  \A q \in 1..Len(c.heap) :
                q \in {p1, p2, p3} => h3[q].frees = c.heap[q].frees + 1
  BY <1>3, <1>4, <1>5, <1>8
<1> QED BY <1>1, <1>2, <1>5, <1>6, <1>7, <1>8

-----------------------------------------------------------------------------
\* What holds of ZAIControlState between any two steps: the ownership of the
\* override strings, and that only commands that need no opt-in are allowed.
Owned(c) ==
    /\ c.override \in [Fields -> 0..Len(c.heap)]
    /\ \A f \in Fields : c.override[f] # 0 => c.heap[c.override[f]].frees = 0
    /\ \A f, g \in Fields : f # g /\ c.override[f] # 0
                                => c.override[f] # c.override[g]
    /\ \A p \in 1..Len(c.heap) :
          (\A f \in Fields : c.override[f] # p) => c.heap[p].frees = 1

Harmless(c) == ~c.abort_requested /\ c.allowed_commands \subseteq DefaultAllowed

Good(c) == c \in Ctl /\ Owned(c) /\ Harmless(c)

\* z_ai_init leaves a state with no string allocated.
LEMMA InitGood == ASSUME NEW on \in BOOLEAN PROVE Good(InitCtl(on))
<1>1. InitCtl(on) \in Ctl
  BY AIControlAssumption DEF InitCtl, Ctl, NoOverrides, Cell, DefaultAllowed, Kinds
<1>2. Owned(InitCtl(on))
  BY DEF InitCtl, Owned, NoOverrides
<1>3. Harmless(InitCtl(on))
  BY DEF InitCtl, Harmless
<1> QED BY <1>1, <1>2, <1>3 DEF Good

\* An event changes nothing but the size of the feedback table.
LEMMA CountGood == ASSUME NEW c, Good(c) PROVE Good(Count(c))
<1> DEFINE n == IF c.feedback_count < MaxFeedback THEN c.feedback_count + 1
                ELSE c.feedback_count
           d == [c EXCEPT !.feedback_count = n]
<1>1. c \in Ctl /\ Count(c) = d
  BY DEF Good, Count
<1>2. n \in 0..MaxFeedback
  BY <1>1, AIControlAssumption DEF Ctl
<1> HIDE DEF n
<1>3. /\ d \in Ctl
      /\ d.override = c.override /\ d.heap = c.heap
      /\ d.abort_requested = c.abort_requested
      /\ d.allowed_commands = c.allowed_commands
  BY <1>1, <1>2 DEF Ctl
<1> HIDE DEF d
<1> QED BY <1>1, <1>3 DEF Good, Owned, Harmless

\* Neither does the sequence number of an applied command.
LEMMA SeqGood == ASSUME NEW c, Good(c) PROVE Good([c EXCEPT !.command_seq = @ + 1])
<1> DEFINE n == c.command_seq + 1
           d == [c EXCEPT !.command_seq = n]
<1>1. c \in Ctl /\ n \in Nat
  BY DEF Good, Ctl
<1> HIDE DEF n
<1>2. /\ d \in Ctl
      /\ d.override = c.override /\ d.heap = c.heap
      /\ d.abort_requested = c.abort_requested
      /\ d.allowed_commands = c.allowed_commands
  BY <1>1 DEF Ctl
<1> HIDE DEF d
<1>3. Good(d)
  BY <1>2 DEF Good, Owned, Harmless
<1> QED BY <1>3 DEF d, n

\* reset releases each string that has a pointer, once, and clears them all.
LEMMA ResetGood == ASSUME NEW c, Good(c) PROVE Good(Reset(c))
<1> DEFINE d == Reset(c)
           h == FreeOverrides(c)
<1>1. c \in Ctl /\ Owned(c)
  BY DEF Good
<1>2. /\ c.heap \in Seq(Cell) /\ c.override \in [Fields -> 0..Len(c.heap)]
  BY <1>1 DEF Ctl, Owned
<1>3. /\ h \in Seq(Cell) /\ Len(h) = Len(c.heap)
      /\ \A q \in 1..Len(c.heap) : h[q].frees = 1
  <2>1. h \in Seq(Cell) /\ Len(h) = Len(c.heap)
    BY <1>2, FreeOverridesProperties
  <2>2. ASSUME NEW q \in 1..Len(c.heap) PROVE h[q].frees = 1
    <3>1. CASE \A f \in Fields : c.override[f] # q
      <4>1. h[q].frees = c.heap[q].frees
        BY <1>2, <3>1, FreeOverridesProperties
      <4> QED BY <1>1, <3>1, <4>1 DEF Owned
    <3>2. CASE \E f \in Fields : c.override[f] = q
      <4>1. h[q].frees = c.heap[q].frees + 1
        BY <1>1, <1>2, <3>2, FreeOverridesProperties DEF Owned
      <4>2. c.heap[q].frees = 0
        BY <1>1, <3>2 DEF Owned
      <4> QED BY <4>1, <4>2
    <3> QED BY <3>1, <3>2
  <2> QED BY <2>1, <2>2
<1> HIDE DEF h
<1>4. /\ d.heap = h /\ d.override = NoOverrides
      /\ d.abort_requested = FALSE /\ d.allowed_commands = DefaultAllowed
      /\ d \in Ctl
  <2>1. DefaultAllowed \subseteq Kinds BY DEF DefaultAllowed, Kinds
  <2>2. NoOverrides \in [Fields -> Nat] BY DEF NoOverrides
  <2>3. d = [c EXCEPT !.heap = h, !.override = NoOverrides,
                      !.abort_requested = FALSE, !.skip_remaining = FALSE,
                      !.allowed_commands = DefaultAllowed]
    BY DEF Reset, h
  <2> HIDE DEF d
  <2> QED BY <1>1, <1>3, <2>1, <2>2, <2>3 DEF Ctl
<1> HIDE DEF d
<1>5. Owned(d)
  BY <1>3, <1>4 DEF Owned, NoOverrides
<1>6. Good(d)
  BY <1>4, <1>5 DEF Good, Harmless
<1> QED BY <1>6 DEF d

\* An assignment releases the string it replaces and allocates one.
LEMMA SetOverrideGood ==
    ASSUME NEW c, Good(c), NEW f \in Fields, NEW v \in STRING
    PROVE  Good(SetOverride(c, f, v))
<1> DEFINE h == Free(c.heap, c.override[f])
           cell == [val |-> v, frees |-> 0]
           d == SetOverride(c, f, v)
           n == Len(c.heap)
<1>1. c \in Ctl /\ Owned(c) /\ Harmless(c)
  BY DEF Good
<1>2. /\ c.heap \in Seq(Cell) /\ c.override \in [Fields -> 0..n] /\ n \in Nat
  BY <1>1 DEF Ctl, Owned
<1>3. /\ h \in Seq(Cell) /\ Len(h) = n
      /\ \A q \in 1..n : h[q].frees = IF q = c.override[f] THEN c.heap[q].frees + 1
                                       ELSE c.heap[q].frees
  BY <1>2, FreeProperties
<1>4. cell \in Cell /\ cell.frees = 0
  BY DEF Cell
<1> HIDE DEF h, cell
<1>5. d = [c EXCEPT !.heap = Append(h, cell), !.override = [c.override EXCEPT ![f] = n + 1]]
  BY DEF SetOverride, h, cell
<1> HIDE DEF d, n
<1>6. /\ d \in Ctl /\ d.heap = Append(h, cell)
      /\ d.override = [c.override EXCEPT ![f] = n + 1]
      /\ d.abort_requested = c.abort_requested
      /\ d.allowed_commands = c.allowed_commands
  <2>1. Append(h, cell) \in Seq(Cell)
    BY <1>3, <1>4
  <2>2. [c.override EXCEPT ![f] = n + 1] \in [Fields -> Nat]
    BY <1>2
  <2> QED BY <1>1, <1>5, <2>1, <2>2 DEF Ctl
<1>7. Owned(d)
  <2>1. /\ Len(d.heap) = n + 1 /\ d.heap[n + 1].frees = 0
        /\ \A q \in 1..n : d.heap[q] = h[q]
    BY <1>2, <1>3, <1>4, <1>6
  <2>2. /\ d.override \in [Fields -> 0..(n + 1)] /\ d.override[f] = n + 1
        /\ \A g \in Fields : g # f => d.override[g] = c.override[g]
    BY <1>2, <1>6
  <2>3. ASSUME NEW g \in Fields, d.override[g] # 0
        PROVE  d.heap[d.override[g]].frees = 0
    <3>1. CASE g = f
      BY <2>1, <2>2, <3>1
    <3>2. CASE g # f
      <4>1. /\ d.override[g] = c.override[g] /\ c.override[g] \in 1..n
            /\ c.heap[c.override[g]].frees = 0 /\ c.override[g] # c.override[f]
        BY <1>1, <1>2, <2>2, <2>3, <3>2 DEF Owned
      <4>2. h[c.override[g]].frees = 0
        BY <1>3, <4>1
      <4>3. d.heap[c.override[g]] = h[c.override[g]]
        BY <2>1, <4>1
      <4> QED BY <4>1, <4>2, <4>3
    <3> QED BY <3>1, <3>2
  <2>4. ASSUME NEW g \in Fields, NEW k \in Fields, g # k, d.override[g] # 0
        PROVE  d.override[g] # d.override[k]
    <3>1. CASE g = f \/ k = f
      BY <1>2, <2>2, <2>4, <3>1
    <3>2. CASE g # f /\ k # f
      <4>1. d.override[g] = c.override[g] /\ d.override[k] = c.override[k]
        BY <2>2, <3>2
      <4>2. c.override[g] # c.override[k]
        BY <1>1, <2>4, <4>1 DEF Owned
      <4> QED BY <4>1, <4>2
    <3> QED BY <3>1, <3>2
  <2>5. ASSUME NEW q \in 1..(n + 1), \A g \in Fields : d.override[g] # q
        PROVE  d.heap[q].frees = 1
    <3>1. q \in 1..n /\ \A g \in Fields : g # f => c.override[g] # q
      BY <1>2, <2>2, <2>5
    <3>2. CASE q = c.override[f]
      BY SMTT(30), <1>1, <1>2, <1>3, <2>1, <3>1, <3>2 DEF Owned
    <3>3. CASE q # c.override[f]
      BY <1>1, <1>2, <1>3, <2>1, <3>1, <3>3 DEF Owned, n
    <3> QED BY <3>2, <3>3
  <2> QED BY <2>1, <2>2, <2>3, <2>4, <2>5 DEF Owned
<1>8. Good(d)
  BY <1>1, <1>6, <1>7 DEF Good, Harmless
<1> QED BY <1>8 DEF d

\* Every command keeps the state good: one that needs opt-in is not applied.
LEMMA ApplyGood ==
    ASSUME NEW c, Good(c), NEW cmd \in Command
    PROVE  Good(ApplyCommand(c, cmd))
<1>1. ApplyOk(c, cmd) => cmd.kind # "abort"
  BY DEF ApplyOk, CommandAllowed, Good, Harmless, DefaultAllowed
<1>2. CASE ~ApplyOk(c, cmd)
  <2>1. ApplyCommand(c, cmd) = c BY <1>2 DEF ApplyCommand
  <2> QED BY <2>1
<1>3. CASE ApplyOk(c, cmd) /\ Setter(cmd) # {}
  <2> DEFINE s == CHOOSE s \in Setter(cmd) : TRUE
  <2>1. s \in Setter(cmd) BY <1>3
  <2>2. ApplyCommand(c, cmd) = SetOverride(c, s[1], s[2])
    BY <1>3 DEF ApplyCommand
  <2> HIDE DEF s
  <2>3. s[1] \in Fields /\ s[2] \in STRING BY <2>1, SetterType
  <2> QED BY <2>2, <2>3, SetOverrideGood
<1>4. CASE ApplyOk(c, cmd) /\ Setter(cmd) = {} /\ cmd.kind = "skip-phase"
  <2> DEFINE d == [c EXCEPT !.skip_remaining = TRUE]
  <2>1. ApplyCommand(c, cmd) = d BY <1>4 DEF ApplyCommand
  <2>2. c \in Ctl BY DEF Good
  <2>3. /\ d \in Ctl
        /\ d.override = c.override /\ d.heap = c.heap
        /\ d.abort_requested = c.abort_requested
        /\ d.allowed_commands = c.allowed_commands
    BY <2>2 DEF Ctl
  <2> HIDE DEF d
  <2> QED BY <2>1, <2>3 DEF Good, Owned, Harmless
<1>5. CASE ApplyOk(c, cmd) /\ Setter(cmd) = {} /\ cmd.kind = "reset"
  <2>1. ApplyCommand(c, cmd) = Reset(c) BY <1>5 DEF ApplyCommand
  <2> QED BY <2>1, ResetGood
<1>6. CASE ApplyOk(c, cmd) /\ Setter(cmd) = {} /\ cmd.kind \notin {"skip-phase", "reset"}
  <2>1. ApplyCommand(c, cmd) = c BY <1>1, <1>6 DEF ApplyCommand
  <2> QED BY <2>1
<1> QED BY <1>2, <1>3, <1>4, <1>5, <1>6

-----------------------------------------------------------------------------
\* The inductive invariant for the type and the two ownership properties.
\* The types of the variables without ctl come first.
QueueOK ==
    /\ controlFile \in Seq(Entry)
    /\ written \in Nat
    /\ hook \in {"idle", "read", "clear", "lines"}
    /\ phase \in Phases \cup {"init"} /\ (hook # "idle" => phase \in Phases)
    /\ buf \in Seq(Entry)
    /\ pos \in Nat \ {0}
    /\ processed \in 0..MaxPerHook
    /\ emptied \subseteq Phases
    /\ failures \in Nat
    /\ lost \in BOOLEAN

StatusOK == status \in Seq(StatusEvent)

IInv == QueueOK /\ StatusOK /\ Good(ctl)

\* It holds initially.
LEMMA InitIInv == AIInit => IInv
<1> SUFFICES ASSUME AIInit PROVE IInv
  OBVIOUS
<1>1. QueueOK
  <2>1. lost \in BOOLEAN
    BY DEF AIInit
  <2>2. /\ controlFile = <<>> /\ written = 0 /\ hook = "idle" /\ phase = "init"
        /\ buf = <<>> /\ pos = 1 /\ processed = 0 /\ emptied = {} /\ failures = 0
    BY DEF AIInit
  <2> QED BY <2>1, <2>2, AIControlAssumption DEF QueueOK
<1>2. PICK on \in BOOLEAN :
        /\ ctl = InitCtl(on)
        /\ status = IF on THEN <<Event("init", "init", "none", 0)>> ELSE <<>>
  BY DEF AIInit
<1>3. StatusOK
  <2>1. Event("init", "init", "none", 0) \in StatusEvent
    BY DEF Event, StatusEvent
  <2>2. CASE on BY <1>2, <2>1, <2>2 DEF StatusOK
  <2>3. CASE ~on BY <1>2, <2>3 DEF StatusOK
  <2> QED BY <2>2, <2>3
<1>4. Good(ctl)
  BY <1>2, InitGood
<1> QED BY <1>1, <1>3, <1>4 DEF IInv

\* A piece of the arguments is a sequence of strings.
LEMMA CutArgsType ==
    ASSUME NEW args \in Seq(STRING), NEW a \in CutArgs(args)
    PROVE  a \in Seq(STRING)
<1> DEFINE firsts == {SubSeq(args, 1, n) : n \in 0..Len(args)}
<1>1. \A b \in firsts : b \in Seq(STRING)
  OBVIOUS
<1>2. a \in firsts \/ \E b \in firsts : a = Append(b, CutText)
  BY DEF CutArgs
<1> HIDE DEF firsts
<1>3. CutText \in STRING
  BY AIControlAssumption
<1>4. ASSUME NEW S, NEW b \in Seq(S), NEW e \in S PROVE Append(b, e) \in Seq(S)
  OBVIOUS
<1>5. \A b \in firsts : Append(b, CutText) \in Seq(STRING)
  BY <1>1, <1>3, <1>4
<1> QED BY <1>1, <1>2, <1>5

\* What is left of a line the buffer ends in is a line.
LEMMA FragmentType ==
    ASSUME NEW next \in Line, NEW l \in Fragments(next)
    PROVE  l \in Line
<1> DEFINE pieces == IF next.hasArgs THEN CutArgs(next.args) ELSE {}
           cut == {[next EXCEPT !.hasArgs = FALSE, !.args = <<>>]}
                     \cup {[next EXCEPT !.args = a] : a \in pieces}
<1>1. \A a \in pieces : a \in Seq(STRING)
  BY CutArgsType DEF Line
<1>2. l \in cut \/ \E m \in cut : l = [m EXCEPT !.key = "none", !.cmd = "unknown"]
  BY DEF Fragments
<1> HIDE DEF pieces
<1>3. ASSUME NEW m \in cut PROVE m \in Line
  <2>1. CASE m = [next EXCEPT !.hasArgs = FALSE, !.args = <<>>]
    <3>1. <<>> \in Seq(STRING)
      OBVIOUS
    <3> QED BY <2>1, <3>1 DEF Line
  <2>2. ASSUME NEW a \in pieces, m = [next EXCEPT !.args = a] PROVE m \in Line
    <3>1. a \in Seq(STRING)
      BY <1>1
    <3> QED BY <2>2, <3>1 DEF Line
  <2> QED BY <2>1, <2>2
<1> HIDE DEF cut
<1> QED BY <1>2, <1>3 DEF Line

\* What the hook reads are the first lines of the file, whole but for the
\* last one.
LEMMA BufferOfFile ==
    ASSUME NEW file \in Seq(Entry), NEW b \in BufferOf(file)
    PROVE  /\ b \in Seq(Entry)
           /\ \A i \in 1..Len(b) : i \in 1..Len(file) /\ b[i].id = file[i].id
<1>1. PICK n \in BufLines :
        b \in IF Len(file) <= n THEN {file}
              ELSE {Append(SubSeq(file, 1, n), [file[n + 1] EXCEPT !.line = l]) :
                      l \in Fragments(file[n + 1].line)}
  BY DEF BufferOf
<1>2. n \in Nat /\ Len(file) \in Nat
  BY AIControlAssumption
<1>3. CASE Len(file) <= n
  BY <1>1, <1>3
<1>4. CASE ~(Len(file) <= n)
  <2> DEFINE whole == SubSeq(file, 1, n)
             next == file[n + 1]
  <2>1. PICK l \in Fragments(next.line) : b = Append(whole, [next EXCEPT !.line = l])
    BY <1>1, <1>4
  <2>2. next \in Entry /\ next.line \in Line
    <3>1. n + 1 \in 1..Len(file)
      BY <1>2, <1>4
    <3>2. next \in Entry
      BY <3>1
    <3> HIDE DEF next
    <3> QED BY <3>2 DEF Entry
  <2>3. /\ whole \in Seq(Entry) /\ Len(whole) = n
        /\ \A i \in 1..n : whole[i] = file[i]
    BY <1>2, <1>4
  <2> DEFINE last == [next EXCEPT !.line = l]
  <2>4. l \in Line
    BY <2>2, FragmentType
  <2>5. last \in Entry /\ last.id = file[n + 1].id
    BY <2>2, <2>4 DEF Entry
  <2>6. b = Append(whole, last)
    BY <2>1
  <2> HIDE DEF whole, next, last
  <2>7. /\ b \in Seq(Entry) /\ Len(b) = n + 1 /\ b[n + 1] = last
        /\ \A i \in 1..n : b[i] = whole[i]
    BY <1>2, <2>3, <2>5, <2>6
  <2>8. n + 1 <= Len(file)
    BY <1>2, <1>4
  <2> QED BY <1>2, <2>3, <2>5, <2>7, <2>8
<1> QED BY <1>3, <1>4

\* The entry into a hook keeps it.
LEMMA StartHookIInv == ASSUME IInv, NEW p \in Phases, StartHook(p) PROVE IInv'
<1>1. QueueOK'
  BY DEF StartHook, QueueOK, IInv
<1>2. CASE p = "resolve"
  <2>1. StatusOK' /\ Good(ctl)'
    BY <1>2 DEF StartHook, StatusOK, IInv
  <2> QED BY <1>1, <2>1 DEF IInv
<1>3. CASE p # "resolve"
  <2>1. Good(ctl)'
    BY <1>3, CountGood DEF StartHook, IInv
  <2>2. Event(p, "phase", "none", 0) \in StatusEvent
    BY DEF Event, StatusEvent
  <2>3. StatusOK'
    BY <1>3, <2>2 DEF StartHook, StatusOK, IInv
  <2> QED BY <1>1, <2>1, <2>3 DEF IInv
<1> QED BY <1>2, <1>3

\* Every step of the AI, of the driver and of the hook keeps it.
LEMMA NextIInv == IInv /\ [AINext]_aiVars => IInv'
<1> SUFFICES ASSUME IInv, [AINext]_aiVars PROVE IInv'
  OBVIOUS
<1> USE DEF IInv
<1>1. CASE AIWrite
  <2>1. PICK l \in Lines :
          controlFile' = Append(controlFile, [id |-> written + 1, line |-> l])
    BY <1>1 DEF AIWrite
  <2>2. [id |-> written + 1, line |-> l] \in Entry
    BY AIControlAssumption DEF Entry, QueueOK
  <2>3. QueueOK'
    BY <1>1, <2>1, <2>2 DEF AIWrite, QueueOK
  <2>4. StatusOK' /\ Good(ctl)'
    BY <1>1 DEF AIWrite, StatusOK
  <2> QED BY <2>3, <2>4
<1>2. ASSUME NEW p \in Phases, StartHook(p) PROVE IInv'
  BY <1>2, StartHookIInv
<1>3. CASE ReadControl
  <2>1. buf' \in Seq(Entry)
    BY <1>3, BufferOfFile DEF ReadControl, QueueOK
  <2>2. QueueOK'
    BY <1>3, <2>1, AIControlAssumption DEF ReadControl, QueueOK
  <2>3. StatusOK' /\ Good(ctl)'
    BY <1>3 DEF ReadControl, StatusOK
  <2> QED BY <2>2, <2>3
<1>4. CASE ClearControl
  <2>1. lost' \in BOOLEAN
    BY <1>4 DEF ClearControl, QueueOK
  <2>2. QueueOK'
    <3>1. /\ controlFile' \in Seq(Entry) /\ failures' \in Nat
          /\ emptied' \subseteq Phases
      <4>1. CASE controlFile' = <<>> /\ emptied' = emptied \cup {phase} /\ UNCHANGED failures
        BY <1>4, <4>1 DEF ClearControl, QueueOK
      <4>2. CASE failures' = failures + 1 /\ UNCHANGED <<controlFile, emptied>>
        BY <4>2 DEF QueueOK
      <4> QED BY <1>4, <4>1, <4>2 DEF ClearControl
    <3> QED BY <1>4, <2>1, <3>1 DEF ClearControl, QueueOK
  <2>3. StatusOK' /\ Good(ctl)'
    BY <1>4 DEF ClearControl, StatusOK
  <2> QED BY <2>2, <2>3
<1>5. CASE ProcessLine
  <2> DEFINE cmd == ParseCommand(buf, pos)
             ok == CommandAllowed(ctl, cmd.kind)
             msg == IF ok THEN "applied" ELSE "denied"
             ap == ApplyCommand(ctl, cmd)
             seq == IF ok THEN [ap EXCEPT !.command_seq = @ + 1] ELSE ap
             answered == cmd.kind # "unknown" /\ (ok => ApplyOk(ctl, cmd))
             e == Event(phase, msg, cmd.kind, buf[pos].id)
  <2>1. pos \in 1..Len(buf)
    BY <1>5 DEF ProcessLine, MoreLines, QueueOK
  <2>2. cmd \in Command
    BY <2>1, ParseType DEF QueueOK
  <2>3. /\ ctl' = IF answered THEN Count(seq) ELSE seq
        /\ status' = IF answered THEN Append(status, e) ELSE status
    BY <1>5 DEF ProcessLine
  <2> HIDE DEF cmd
  <2>4. Good(seq)
    <3>1. Good(ap)
      BY <2>2, ApplyGood
    <3> HIDE DEF ap
    <3> QED BY <3>1, SeqGood
  <2>5. Good(ctl)'
    <3> HIDE DEF seq, answered
    <3> QED BY <2>3, <2>4, CountGood
  <2>6. QueueOK'
    <3>1. processed' \in 0..MaxPerHook
      <4>1. processed \in 0..MaxPerHook /\ processed < MaxPerHook
            /\ processed' = processed + 1
        BY <1>5 DEF ProcessLine, MoreLines, QueueOK
      <4>2. MaxPerHook \in Nat
        BY AIControlAssumption
      <4> QED BY <4>1, <4>2
    <3> QED BY <1>5, <3>1 DEF ProcessLine, QueueOK
  <2>7. StatusOK'
    <3>1. CASE answered
      <4>1. buf[pos] \in Entry
        BY <2>1 DEF QueueOK
      <4>2. phase # "init" => phase \in Phases
        BY DEF QueueOK
      <4>3. e \in StatusEvent
        BY <2>2, <3>1, <4>1, <4>2 DEF Event, StatusEvent, Command, Entry
      <4> HIDE DEF e, answered
      <4> QED BY <2>3, <3>1, <4>3 DEF StatusOK
    <3>2. CASE ~answered
      BY <2>3, <3>2 DEF StatusOK
    <3> QED BY <3>1, <3>2
  <2> QED BY <2>5, <2>6, <2>7
<1>6. CASE EndHook
  <2>1. QueueOK'
    BY <1>6, AIControlAssumption DEF EndHook, ReturnFromHook, QueueOK
  <2>2. UNCHANGED <<ctl, status>>
    BY <1>6 DEF EndHook, ReturnFromHook, Good, Harmless
  <2> QED BY <2>1, <2>2 DEF StatusOK
<1>7. CASE UNCHANGED aiVars
  BY <1>7 DEF aiVars, QueueOK, StatusOK
<1> QED BY <1>1, <1>2, <1>3, <1>4, <1>5, <1>6, <1>7 DEF AINext, NextHook, HookStep

\* The invariant holds in every state of the control channel, whatever the
\* AI writes and whenever.
LEMMA Inductive == AISpec => []IInv
<1> QED BY InitIInv, NextIInv, PTL DEF AISpec

\* The type invariant, for every set of lines and every bound.
THEOREM TypeCorrect == AISpec => []AITypeOK
<1>1. IInv => AITypeOK
  BY DEF IInv, QueueOK, StatusOK, Good, AITypeOK
<1> QED BY <1>1, Inductive, PTL

\* No sequence of commands makes an override string dangle, leak or be
\* freed twice.
THEOREM OverridesAreOwned == AISpec => []OverridesOwned
<1>1. IInv => OverridesOwned
  BY DEF IInv, Good, Owned, OverridesOwned
<1> QED BY <1>1, Inductive, PTL

-----------------------------------------------------------------------------
(* The order of the answers.  Lines are numbered as they are written.  A    *)
(* line that was answered may be in the file, or in the buffer, once more   *)
(* only if no hook from the one that answered it on emptied the file.       *)

\* The lines in the file and in the buffer.
Numbered ==
    /\ \A i \in 1..Len(controlFile) : controlFile[i].id \in 1..written
    /\ \A i, j \in 1..Len(controlFile) :
          i < j => controlFile[i].id < controlFile[j].id
    /\ \A i \in 1..Len(buf) : buf[i].id \in 1..written
    /\ \A i, j \in 1..Len(buf) : i < j => buf[i].id < buf[j].id
    /\ hook \in {"idle", "read"} => buf = <<>>
    /\ \A k \in 1..Len(status) : status[k].line \in 0..written

\* Answers and emptyings were made by hooks up to this one, and by earlier
\* ones as long as this one has not come to its lines.
Ranked ==
    /\ \A k \in 1..Len(status) :
          status[k].line # 0 => PhaseRank[status[k].phase] <= PhaseRank[phase]
    /\ \A r \in emptied : PhaseRank[r] <= PhaseRank[phase]
    /\ hook \in {"read", "clear"} =>
          /\ \A k \in 1..Len(status) :
                status[k].line # 0 => PhaseRank[status[k].phase] < PhaseRank[phase]
          /\ \A r \in emptied : PhaseRank[r] < PhaseRank[phase]

\* The file.
FileFresh ==
    \A k \in 1..Len(status), i \in 1..Len(controlFile) :
        controlFile[i].id <= status[k].line
        => \A r \in emptied : PhaseRank[r] < PhaseRank[status[k].phase]

\* The lines of the buffer that are still to be answered.
BufferFresh ==
    \A k \in 1..Len(status), i \in 1..Len(buf) :
        i >= pos /\ buf[i].id <= status[k].line
        => /\ PhaseRank[status[k].phase] < PhaseRank[phase]
           /\ ~EmptiedBetween(status[k].phase, phase)

\* What is in the file that this hook emptied was written after it was read.
EmptiedByThis ==
    hook = "lines" /\ phase \in emptied =>
        \A i \in 1..Len(buf), j \in 1..Len(controlFile) : buf[i].id < controlFile[j].id

OrderInv ==
    Numbered /\ Ranked /\ FileFresh /\ BufferFresh /\ EmptiedByThis /\ AnswersInOrder

\* One of the phases in S comes from phase p on and before phase q.
Between(S, p, q) == \E r \in S : PhaseRank[p] <= PhaseRank[r] /\ PhaseRank[r] < PhaseRank[q]

\* The order of the answers after a step.
LEMMA OrderNext ==
    ASSUME \A i, j \in 1..Len(status') :
              /\ i < j /\ status'[i].line # 0 /\ status'[j].line # 0
              /\ status'[j].line <= status'[i].line
              => /\ PhaseRank[status'[i].phase] < PhaseRank[status'[j].phase]
                 /\ ~Between(emptied', status'[i].phase, status'[j].phase)
    PROVE  AnswersInOrder'
BY DEF AnswersInOrder, EmptiedBetween, Between

\* The hook points have different ranks.
LEMMA Ranks ==
    /\ \A p \in Phases \cup {"init"} : PhaseRank[p] \in Nat
    /\ \A p, q \in Phases \cup {"init"} : PhaseRank[p] = PhaseRank[q] => p = q
<1>1. /\ PhaseRank["init"] = 0 /\ PhaseRank["resolve"] = 1 /\ PhaseRank["check"] = 2
      /\ PhaseRank["lower"] = 3 /\ PhaseRank["codegen"] = 4 /\ PhaseRank["link"] = 5
  BY DEF PhaseRank
<1> QED BY <1>1 DEF Phases

\* z_ai_init has answered no line yet.
LEMMA InitOrder == AIInit => OrderInv
<1> SUFFICES ASSUME AIInit PROVE OrderInv
  OBVIOUS
<1>1. controlFile = <<>> /\ buf = <<>> /\ written = 0 /\ hook = "idle" /\ emptied = {}
  BY DEF AIInit
<1>2. status = <<>> \/ status = <<Event("init", "init", "none", 0)>>
  BY DEF AIInit
<1>3. /\ Len(status) \in {0, 1}
      /\ \A k \in 1..Len(status) : status[k].line = 0
  BY <1>2 DEF Event
<1>4. Numbered /\ Ranked
  BY <1>1, <1>3 DEF Numbered, Ranked
<1>5. FileFresh /\ BufferFresh /\ EmptiedByThis
  BY <1>1 DEF FileFresh, BufferFresh, EmptiedByThis
<1>6. AnswersInOrder
  BY <1>3 DEF AnswersInOrder
<1> QED BY <1>4, <1>5, <1>6 DEF OrderInv

\* What the steps of the channel start from.
LEMMA OrderTypes ==
    ASSUME IInv
    PROVE  /\ controlFile \in Seq(Entry) /\ buf \in Seq(Entry)
           /\ status \in Seq(StatusEvent)
           /\ written \in Nat /\ pos \in Nat \ {0}
           /\ phase \in Phases \cup {"init"} /\ emptied \subseteq Phases
           /\ PhaseRank[phase] \in Nat
           /\ \A r \in emptied : PhaseRank[r] \in Nat
           /\ \A k \in 1..Len(status) : /\ PhaseRank[status[k].phase] \in Nat
                                        /\ status[k].line \in Nat
<1>1. /\ controlFile \in Seq(Entry) /\ buf \in Seq(Entry)
      /\ status \in Seq(StatusEvent)
      /\ written \in Nat /\ pos \in Nat \ {0}
      /\ phase \in Phases \cup {"init"} /\ emptied \subseteq Phases
  BY DEF IInv, QueueOK, StatusOK
<1>2. \A k \in 1..Len(status) : /\ status[k].phase \in Phases \cup {"init"}
                                /\ status[k].line \in Nat
  <2>1. \A k \in 1..Len(status) : status[k] \in StatusEvent
    BY <1>1
  <2> QED BY <2>1 DEF StatusEvent
<1> QED BY <1>1, <1>2, Ranks

\* The AI's line is younger than all there are.
LEMMA WriteOrder == ASSUME IInv, OrderInv, AIWrite PROVE OrderInv'
<1>0. /\ controlFile \in Seq(Entry) /\ written \in Nat
      /\ \A k \in 1..Len(status) : status[k].line \in Nat
      /\ Numbered /\ Ranked /\ FileFresh /\ BufferFresh /\ EmptiedByThis /\ AnswersInOrder
  BY OrderTypes DEF OrderInv
<1>1. PICK l \in Lines :
        controlFile' = Append(controlFile, [id |-> written + 1, line |-> l])
  BY DEF AIWrite
<1> DEFINE e == [id |-> written + 1, line |-> l]
<1>2. e \in Entry /\ e.id = written + 1
  BY <1>0, AIControlAssumption DEF Entry
<1> HIDE DEF e
<1>3. \A i \in 1..Len(controlFile') :
        \/ i = Len(controlFile) + 1 /\ controlFile'[i].id = written + 1
        \/ i \in 1..Len(controlFile) /\ controlFile'[i] = controlFile[i]
  BY <1>0, <1>1, <1>2 DEF e
<1>4. /\ written' = written + 1
      /\ UNCHANGED <<hook, phase, buf, pos, status, emptied>>
  BY DEF AIWrite
<1>5. /\ \A i \in 1..Len(controlFile) : controlFile[i].id \in 1..written
      /\ \A i \in 1..Len(buf) : buf[i].id \in 1..written
      /\ \A k \in 1..Len(status) : status[k].line \in 0..written
  BY <1>0 DEF Numbered
<1>6. Numbered'
  <2>1. \A i \in 1..Len(controlFile') : controlFile'[i].id \in 1..written'
    BY <1>0, <1>3, <1>4, <1>5
  <2>2. ASSUME NEW i \in 1..Len(controlFile'), NEW j \in 1..Len(controlFile'), i < j
        PROVE  controlFile'[i].id < controlFile'[j].id
    <3>1. Len(controlFile) \in Nat /\ Len(controlFile') = Len(controlFile) + 1
      BY <1>0, <1>1
    <3>2. i \in 1..Len(controlFile) /\ controlFile'[i] = controlFile[i]
      BY <1>3, <2>2, <3>1
    <3>3. CASE j = Len(controlFile) + 1 /\ controlFile'[j].id = written + 1
      BY <1>0, <1>5, <3>2, <3>3
    <3>4. CASE j \in 1..Len(controlFile) /\ controlFile'[j] = controlFile[j]
      BY <1>0, <2>2, <3>2, <3>4 DEF Numbered
    <3> QED BY <1>3, <3>3, <3>4
  <2>3. /\ \A i \in 1..Len(buf') : buf'[i].id \in 1..written'
        /\ \A k \in 1..Len(status') : status'[k].line \in 0..written'
    BY <1>0, <1>4, <1>5
  <2>4. /\ \A i, j \in 1..Len(buf') : i < j => buf'[i].id < buf'[j].id
        /\ hook' \in {"idle", "read"} => buf' = <<>>
    BY <1>0, <1>4 DEF Numbered
  <2> QED BY <2>1, <2>2, <2>3, <2>4 DEF Numbered
<1>7. FileFresh'
  <2> SUFFICES ASSUME NEW k \in 1..Len(status), NEW i \in 1..Len(controlFile'),
                      controlFile'[i].id <= status[k].line
               PROVE  \A r \in emptied : PhaseRank[r] < PhaseRank[status[k].phase]
    BY <1>4 DEF FileFresh
  <2>1. controlFile'[i].id # written + 1
    BY <1>0, <1>5
  <2>2. i \in 1..Len(controlFile) /\ controlFile'[i] = controlFile[i]
    BY <1>3, <2>1
  <2> QED BY <1>0, <2>2 DEF FileFresh
<1>8. EmptiedByThis'
  <2> SUFFICES ASSUME hook = "lines", phase \in emptied,
                      NEW i \in 1..Len(buf), NEW j \in 1..Len(controlFile')
               PROVE  buf[i].id < controlFile'[j].id
    BY <1>4 DEF EmptiedByThis
  <2>1. CASE j = Len(controlFile) + 1 /\ controlFile'[j].id = written + 1
    BY <1>0, <1>5, <2>1
  <2>2. CASE j \in 1..Len(controlFile) /\ controlFile'[j] = controlFile[j]
    BY <1>0, <2>2 DEF EmptiedByThis
  <2> QED BY <1>3, <2>1, <2>2
<1>9. Ranked' /\ BufferFresh' /\ AnswersInOrder'
  BY <1>0, <1>4 DEF Ranked, BufferFresh, AnswersInOrder, EmptiedBetween
<1> QED BY <1>6, <1>7, <1>8, <1>9 DEF OrderInv

\* The next hook comes later than all that answered or emptied.
LEMMA HookOrdered ==
    ASSUME IInv, OrderInv, NEW p \in Phases, PhaseRank[phase] < PhaseRank[p], StartHook(p)
    PROVE  OrderInv'
<1>0. /\ status \in Seq(StatusEvent) /\ Len(status) \in Nat
      /\ emptied \subseteq Phases
      /\ PhaseRank[phase] \in Nat /\ PhaseRank[p] \in Nat
      /\ \A r \in emptied : PhaseRank[r] \in Nat
      /\ \A k \in 1..Len(status) : /\ PhaseRank[status[k].phase] \in Nat
                                   /\ status[k].line \in Nat
      /\ Numbered /\ Ranked /\ FileFresh /\ BufferFresh /\ EmptiedByThis /\ AnswersInOrder
  BY OrderTypes, Ranks DEF OrderInv
<1>1. /\ UNCHANGED <<controlFile, written, buf, pos, emptied>>
      /\ hook = "idle" /\ hook' = "read" /\ phase' = p
  BY DEF StartHook
<1>2. /\ Len(status') \in Nat
      /\ \A k \in 1..Len(status') : \/ status'[k].line = 0
                                    \/ k \in 1..Len(status) /\ status'[k] = status[k]
  <2>1. CASE p = "resolve"
    BY <1>0, <2>1 DEF StartHook
  <2>2. CASE p # "resolve"
    <3> DEFINE e == Event(p, "phase", "none", 0)
    <3>1. e \in StatusEvent /\ e.line = 0
      BY DEF Event, StatusEvent
    <3>2. status' = Append(status, e)
      BY <2>2 DEF StartHook
    <3> HIDE DEF e
    <3> QED BY <1>0, <3>1, <3>2
  <2> QED BY <2>1, <2>2
<1>3. buf' = <<>> /\ Len(buf') = 0
  BY <1>0, <1>1 DEF Numbered
<1>4. /\ \A i \in 1..Len(controlFile) : controlFile[i].id \in 1..written
      /\ \A k \in 1..Len(status) : status[k].line \in 0..written
  BY <1>0 DEF Numbered
<1>5. Numbered'
  <2>1. written \in Nat
    BY DEF IInv, QueueOK
  <2>2. \A k \in 1..Len(status') : status'[k].line \in 0..written'
    BY <1>1, <1>2, <1>4, <2>1
  <2> QED BY <1>0, <1>1, <1>3, <2>2 DEF Numbered
<1>6. Ranked'
  <2>1. \A k \in 1..Len(status') :
          status'[k].line # 0 => PhaseRank[status'[k].phase] < PhaseRank[p]
    <3> SUFFICES ASSUME NEW k \in 1..Len(status'), status'[k].line # 0
                 PROVE  PhaseRank[status'[k].phase] < PhaseRank[p]
      OBVIOUS
    <3>1. k \in 1..Len(status) /\ status'[k] = status[k]
      BY <1>2
    <3> QED BY <1>0, <3>1 DEF Ranked
  <2>2. \A r \in emptied : PhaseRank[r] < PhaseRank[p]
    BY <1>0 DEF Ranked
  <2>3. \A k \in 1..Len(status') : status'[k].line # 0 => PhaseRank[status'[k].phase] \in Nat
    BY <1>0, <1>2
  <2> QED BY <1>0, <1>1, <2>1, <2>2, <2>3 DEF Ranked
<1>7. FileFresh'
  <2> SUFFICES ASSUME NEW k \in 1..Len(status'), NEW i \in 1..Len(controlFile),
                      controlFile[i].id <= status'[k].line
               PROVE  \A r \in emptied : PhaseRank[r] < PhaseRank[status'[k].phase]
    BY <1>1 DEF FileFresh
  <2>1. status'[k].line # 0
    BY <1>4
  <2>2. k \in 1..Len(status) /\ status'[k] = status[k]
    BY <1>2, <2>1
  <2> QED BY <1>0, <2>2 DEF FileFresh
<1>8. BufferFresh' /\ EmptiedByThis'
  BY <1>1, <1>3 DEF BufferFresh, EmptiedByThis
<1>9. AnswersInOrder'
  <2> SUFFICES ASSUME NEW i \in 1..Len(status'), NEW j \in 1..Len(status'), i < j,
                      status'[i].line # 0, status'[j].line # 0,
                      status'[j].line <= status'[i].line
               PROVE  /\ PhaseRank[status'[i].phase] < PhaseRank[status'[j].phase]
                      /\ ~Between(emptied', status'[i].phase, status'[j].phase)
    BY OrderNext
  <2>1. /\ i \in 1..Len(status) /\ status'[i] = status[i]
        /\ j \in 1..Len(status) /\ status'[j] = status[j]
    BY <1>2
  <2>2. /\ PhaseRank[status[i].phase] < PhaseRank[status[j].phase]
        /\ ~EmptiedBetween(status[i].phase, status[j].phase)
    BY <1>0, <2>1 DEF AnswersInOrder
  <2> QED BY <1>1, <2>1, <2>2 DEF EmptiedBetween, Between
<1> QED BY <1>5, <1>6, <1>7, <1>8, <1>9 DEF OrderInv

\* What was read stands in the file, and is no fresher there.
LEMMA ReadOrder == ASSUME IInv, OrderInv, ReadControl PROVE OrderInv'
<1>0. /\ controlFile \in Seq(Entry) /\ Len(controlFile) \in Nat
      /\ \A k \in 1..Len(status) : /\ PhaseRank[status[k].phase] \in Nat
                                   /\ status[k].line \in Nat
      /\ PhaseRank[phase] \in Nat
      /\ \A r \in emptied : PhaseRank[r] \in Nat
      /\ Numbered /\ Ranked /\ FileFresh /\ BufferFresh /\ EmptiedByThis /\ AnswersInOrder
  BY OrderTypes DEF OrderInv
<1>1. /\ UNCHANGED <<controlFile, written, phase, status, emptied>>
      /\ hook = "read" /\ hook' = IF controlFile = <<>> THEN "lines" ELSE "clear"
  BY DEF ReadControl
<1>2. /\ buf' \in Seq(Entry) /\ Len(buf') \in Nat
      /\ \A i \in 1..Len(buf') :
            i \in 1..Len(controlFile) /\ buf'[i].id = controlFile[i].id
  <2>1. PICK b \in BufferOf(controlFile) : buf' = b
    BY DEF ReadControl
  <2> QED BY <1>0, <2>1, BufferOfFile
<1>3. Numbered'
  <2>1. \A i \in 1..Len(buf') : buf'[i].id \in 1..written
    BY <1>0, <1>2 DEF Numbered
  <2>2. \A i, j \in 1..Len(buf') : i < j => buf'[i].id < buf'[j].id
    BY <1>0, <1>2 DEF Numbered
  <2> QED BY <1>0, <1>1, <2>1, <2>2 DEF Numbered
<1>4. BufferFresh'
  <2> SUFFICES ASSUME NEW k \in 1..Len(status), NEW i \in 1..Len(buf'),
                      buf'[i].id <= status[k].line
               PROVE  /\ PhaseRank[status[k].phase] < PhaseRank[phase]
                      /\ ~EmptiedBetween(status[k].phase, phase)
    BY <1>1 DEF BufferFresh, EmptiedBetween
  <2>1. i \in 1..Len(controlFile) /\ controlFile[i].id <= status[k].line
    BY <1>2
  <2>2. \A r \in emptied : PhaseRank[r] < PhaseRank[status[k].phase]
    BY <1>0, <2>1 DEF FileFresh
  <2>3. status[k].line # 0
    BY <1>0, <2>1 DEF Numbered
  <2>4. PhaseRank[status[k].phase] < PhaseRank[phase]
    BY <1>0, <1>1, <2>3 DEF Ranked
  <2> QED BY <1>0, <2>2, <2>4 DEF EmptiedBetween
<1>5. EmptiedByThis'
  BY <1>0, <1>1 DEF EmptiedByThis
<1>6. Ranked' /\ FileFresh' /\ AnswersInOrder'
  BY <1>0, <1>1 DEF Ranked, FileFresh, AnswersInOrder, EmptiedBetween
<1> QED BY <1>3, <1>4, <1>5, <1>6 DEF OrderInv

\* The file is emptied, or fopen failed and it is as it was.
LEMMA ClearOrder == ASSUME IInv, OrderInv, ClearControl PROVE OrderInv'
<1>0. /\ \A k \in 1..Len(status) : PhaseRank[status[k].phase] \in Nat
      /\ PhaseRank[phase] \in Nat
      /\ \A r \in emptied : PhaseRank[r] \in Nat
      /\ Numbered /\ Ranked /\ FileFresh /\ BufferFresh /\ EmptiedByThis /\ AnswersInOrder
  BY OrderTypes DEF OrderInv
<1>1. /\ UNCHANGED <<written, phase, buf, pos, status>>
      /\ hook = "clear" /\ hook' = "lines"
  BY DEF ClearControl
<1>2. phase \notin emptied
  BY <1>0, <1>1 DEF Ranked
<1>3. CASE controlFile' = <<>> /\ emptied' = emptied \cup {phase}
  <2>1. Numbered' /\ FileFresh' /\ EmptiedByThis'
    BY <1>0, <1>1, <1>3 DEF Numbered, FileFresh, EmptiedByThis
  <2>2. Ranked'
    BY <1>0, <1>1, <1>3 DEF Ranked
  <2>3. \A k \in 1..Len(status) :
          ~EmptiedBetween(status[k].phase, phase)
             => ~EmptiedBetween(status[k].phase, phase)'
    BY <1>0, <1>1, <1>3 DEF EmptiedBetween
  <2>4. BufferFresh'
    BY <1>0, <1>1, <2>3 DEF BufferFresh
  <2>5. AnswersInOrder'
    <3> SUFFICES ASSUME NEW i \in 1..Len(status), NEW j \in 1..Len(status), i < j,
                        status[i].line # 0, status[j].line # 0,
                        status[j].line <= status[i].line
                 PROVE  /\ PhaseRank[status[i].phase] < PhaseRank[status[j].phase]
                        /\ ~Between(emptied', status[i].phase, status[j].phase)
      BY <1>1, OrderNext
    <3>1. /\ PhaseRank[status[i].phase] < PhaseRank[status[j].phase]
          /\ ~EmptiedBetween(status[i].phase, status[j].phase)
      BY <1>0 DEF AnswersInOrder
    <3>2. PhaseRank[status[j].phase] < PhaseRank[phase]
      BY <1>0, <1>1 DEF Ranked
    <3> QED BY <1>0, <1>1, <1>3, <3>1, <3>2 DEF EmptiedBetween, Between
  <2> QED BY <2>1, <2>2, <2>4, <2>5 DEF OrderInv
<1>4. CASE UNCHANGED <<controlFile, emptied>>
  <2>1. Numbered' /\ FileFresh' /\ EmptiedByThis'
    BY <1>0, <1>1, <1>2, <1>4 DEF Numbered, FileFresh, EmptiedByThis
  <2>2. Ranked' /\ BufferFresh' /\ AnswersInOrder'
    BY <1>0, <1>1, <1>4 DEF Ranked, BufferFresh, AnswersInOrder, EmptiedBetween
  <2> QED BY <2>1, <2>2 DEF OrderInv
<1> QED BY <1>3, <1>4 DEF ClearControl

\* A line is answered: what the file holds of it, or of an older one, is
\* there because this hook could not empty the file.
LEMMA LineOrder == ASSUME IInv, OrderInv, ProcessLine PROVE OrderInv'
<1>0. /\ controlFile \in Seq(Entry) /\ buf \in Seq(Entry)
      /\ status \in Seq(StatusEvent) /\ Len(status) \in Nat
      /\ written \in Nat /\ pos \in Nat \ {0} /\ Len(buf) \in Nat
      /\ phase \in Phases \cup {"init"} /\ emptied \subseteq Phases
      /\ PhaseRank[phase] \in Nat
      /\ \A r \in emptied : PhaseRank[r] \in Nat
      /\ \A k \in 1..Len(status) : /\ PhaseRank[status[k].phase] \in Nat
                                   /\ status[k].line \in Nat
      /\ Numbered /\ Ranked /\ FileFresh /\ BufferFresh /\ EmptiedByThis /\ AnswersInOrder
  BY OrderTypes DEF OrderInv
<1>1. /\ UNCHANGED <<controlFile, written, hook, phase, buf, emptied>>
      /\ pos' = pos + 1 /\ hook = "lines" /\ pos \in 1..Len(buf)
  BY <1>0 DEF ProcessLine, MoreLines
<1>2. /\ \A i \in 1..Len(controlFile) : controlFile[i].id \in 1..written
      /\ \A i \in 1..Len(buf) : buf[i].id \in 1..written
      /\ \A k \in 1..Len(status) : status[k].line \in 0..written
  BY <1>0 DEF Numbered
<1>3. CASE status' = status
  <2>1. Numbered' /\ Ranked' /\ FileFresh' /\ EmptiedByThis'
    BY <1>0, <1>1, <1>3 DEF Numbered, Ranked, FileFresh, EmptiedByThis
  <2>2. AnswersInOrder'
    BY <1>0, <1>1, <1>3 DEF AnswersInOrder, EmptiedBetween
  <2>3. BufferFresh'
    <3> SUFFICES ASSUME NEW k \in 1..Len(status), NEW i \in 1..Len(buf),
                        i >= pos + 1, buf[i].id <= status[k].line
                 PROVE  /\ PhaseRank[status[k].phase] < PhaseRank[phase]
                        /\ ~EmptiedBetween(status[k].phase, phase)
      BY <1>1, <1>3 DEF BufferFresh, EmptiedBetween
    <3>1. i >= pos
      BY <1>0
    <3> QED BY <1>0, <3>1 DEF BufferFresh
  <2> QED BY <2>1, <2>2, <2>3 DEF OrderInv
<1>4. CASE status' # status
  <2> DEFINE cmd == ParseCommand(buf, pos)
             ok == CommandAllowed(ctl, cmd.kind)
             msg == IF ok THEN "applied" ELSE "denied"
             e == Event(phase, msg, cmd.kind, buf[pos].id)
  <2>1. status' = Append(status, e) /\ cmd.kind # "unknown"
    BY <1>4 DEF ProcessLine
  <2>2. e \in StatusEvent /\ e.line = buf[pos].id /\ e.phase = phase
    <3>1. cmd \in Command
      BY <1>0, <1>1, ParseType
    <3>2. buf[pos].id \in Nat
      BY <1>1, <1>2
    <3> HIDE DEF cmd, ok
    <3> QED BY <1>0, <2>1, <3>1, <3>2 DEF Event, StatusEvent, Command
  <2> HIDE DEF e
  <2>3. /\ Len(status') = Len(status) + 1 /\ status'[Len(status) + 1] = e
        /\ \A k \in 1..Len(status) : status'[k] = status[k]
    BY <1>0, <2>1, <2>2
  <2>4. \A k \in 1..Len(status') : \/ status'[k] = e
                                   \/ k \in 1..Len(status) /\ status'[k] = status[k]
    BY <1>0, <2>3
  <2>5. buf[pos].id \in 1..written
    BY <1>1, <1>2
  <2>6. Numbered'
    <3>1. \A k \in 1..Len(status') : status'[k].line \in 0..written
      <4> TAKE k \in 1..Len(status')
      <4>1. CASE status'[k] = e
        BY <1>0, <2>2, <2>5, <4>1
      <4>2. CASE k \in 1..Len(status) /\ status'[k] = status[k]
        BY <1>2, <4>2
      <4> QED BY <2>4, <4>1, <4>2
    <3> QED BY <1>0, <1>1, <3>1 DEF Numbered
  <2>7. Ranked'
    <3>1. \A k \in 1..Len(status') :
            status'[k].line # 0 => PhaseRank[status'[k].phase] <= PhaseRank[phase]
      <4> TAKE k \in 1..Len(status')
      <4>1. CASE status'[k] = e
        BY <1>0, <2>2, <4>1
      <4>2. CASE k \in 1..Len(status) /\ status'[k] = status[k]
        BY <1>0, <4>2 DEF Ranked
      <4> QED BY <2>4, <4>1, <4>2
    <3> QED BY <1>0, <1>1, <3>1 DEF Ranked
  <2>8. FileFresh'
    <3> SUFFICES ASSUME NEW k \in 1..Len(status'), NEW i \in 1..Len(controlFile),
                        controlFile[i].id <= status'[k].line, NEW r \in emptied
                 PROVE  PhaseRank[r] < PhaseRank[status'[k].phase]
      BY <1>1 DEF FileFresh
    <3>1. CASE status'[k] = e
      <4>1. phase \notin emptied
        <5>1. controlFile[i].id \in Nat /\ buf[pos].id \in Nat
          BY <1>2, <2>5
        <5>2. ~(buf[pos].id < controlFile[i].id)
          BY <2>2, <3>1, <5>1
        <5> QED BY <1>0, <1>1, <5>2 DEF EmptiedByThis
      <4>2. PhaseRank[r] # PhaseRank[phase]
        BY <1>0, <4>1, Ranks
      <4> QED BY <1>0, <2>2, <3>1, <4>2 DEF Ranked
    <3>2. CASE k \in 1..Len(status) /\ status'[k] = status[k]
      BY <1>0, <3>2 DEF FileFresh
    <3> QED BY <2>4, <3>1, <3>2
  <2>9. BufferFresh'
    <3> SUFFICES ASSUME NEW k \in 1..Len(status'), NEW i \in 1..Len(buf),
                        i >= pos + 1, buf[i].id <= status'[k].line
                 PROVE  /\ PhaseRank[status'[k].phase] < PhaseRank[phase]
                        /\ ~EmptiedBetween(status'[k].phase, phase)
      BY <1>1 DEF BufferFresh, EmptiedBetween
    <3>1. buf[pos].id < buf[i].id
      BY <1>0, <1>1 DEF Numbered
    <3>2. status'[k] # e
      BY <1>2, <2>2, <2>5, <3>1
    <3>3. k \in 1..Len(status) /\ status'[k] = status[k]
      BY <2>4, <3>2
    <3>4. i >= pos
      BY <1>0
    <3> QED BY <1>0, <3>3, <3>4 DEF BufferFresh
  <2>10. EmptiedByThis'
    BY <1>0, <1>1 DEF EmptiedByThis
  <2>11. AnswersInOrder'
    <3> SUFFICES ASSUME NEW i \in 1..Len(status'), NEW j \in 1..Len(status'), i < j,
                        status'[i].line # 0, status'[j].line # 0,
                        status'[j].line <= status'[i].line
                 PROVE  /\ PhaseRank[status'[i].phase] < PhaseRank[status'[j].phase]
                        /\ ~Between(emptied', status'[i].phase, status'[j].phase)
      BY OrderNext
    <3>1. i \in 1..Len(status) /\ status'[i] = status[i]
      BY <1>0, <2>3
    <3>2. CASE j \in 1..Len(status) /\ status'[j] = status[j]
      <4>1. /\ PhaseRank[status[i].phase] < PhaseRank[status[j].phase]
            /\ ~EmptiedBetween(status[i].phase, status[j].phase)
        BY <1>0, <3>1, <3>2 DEF AnswersInOrder
      <4> QED BY <1>1, <3>1, <3>2, <4>1 DEF EmptiedBetween, Between
    <3>3. CASE status'[j] = e
      <4>1. /\ PhaseRank[status[i].phase] < PhaseRank[phase]
            /\ ~EmptiedBetween(status[i].phase, phase)
        BY <1>0, <1>1, <2>2, <3>1, <3>3 DEF BufferFresh
      <4> QED BY <1>1, <2>2, <3>1, <3>3, <4>1 DEF EmptiedBetween, Between
    <3> QED BY <2>4, <3>2, <3>3
  <2> QED BY <2>6, <2>7, <2>8, <2>9, <2>10, <2>11 DEF OrderInv
<1> QED BY <1>3, <1>4

\* Reading, clearing and answering keep the lines in order.
LEMMA NextOrder == IInv /\ OrderInv /\ [AINext]_aiVars => OrderInv'
<1> SUFFICES ASSUME IInv, OrderInv, [AINext]_aiVars PROVE OrderInv'
  OBVIOUS
<1>1. CASE AIWrite
  BY <1>1, WriteOrder
<1>2. CASE NextHook
  BY <1>2, HookOrdered DEF NextHook
<1>3. CASE ReadControl \/ ClearControl \/ ProcessLine
  BY <1>3, ReadOrder, ClearOrder, LineOrder
<1>4. CASE EndHook
  <2>1. /\ buf' = <<>> /\ hook' = "idle"
        /\ UNCHANGED <<controlFile, written, phase, status, emptied>>
    BY <1>4 DEF EndHook, ReturnFromHook, IInv, Good, Harmless
  <2>2. Numbered' /\ BufferFresh' /\ EmptiedByThis'
    BY <2>1 DEF OrderInv, Numbered, BufferFresh, EmptiedByThis
  <2>3. Ranked' /\ FileFresh' /\ AnswersInOrder'
    BY <2>1 DEF OrderInv, Ranked, FileFresh, AnswersInOrder, EmptiedBetween
  <2> QED BY <2>2, <2>3 DEF OrderInv
<1>5. CASE UNCHANGED aiVars
  BY <1>5 DEF aiVars, OrderInv, Numbered, Ranked, FileFresh, BufferFresh, EmptiedByThis,
              AnswersInOrder, EmptiedBetween
<1> QED BY <1>1, <1>2, <1>3, <1>4, <1>5 DEF AINext, HookStep

\* Over all hooks, a line that was answered, or one older than it, is answered
\* again only by a later hook and only while every attempt to empty the file
\* since then has failed.
THEOREM AnswersAreInOrder == AISpec => []AnswersInOrder
<1>1. OrderInv => AnswersInOrder
  BY DEF OrderInv
<1> QED BY <1>1, Inductive, InitOrder, NextOrder, PTL DEF AISpec

----------------------------------------------------------------------------
(* The driver. *)

\* Where main() is, a hook counting as the place it was entered at.
Place == IF pc = "hook" THEN phase ELSE pc

BeforeEmission ==
    {"resolve", "override", "compile", "check", "validate", "report", "lower",
     "lowering", "selectObject", "selectExe", "size"}

AfterPreflight ==
    {"codegen", "emitObject", "emitRuntime", "emitExe", "compileRuntime",
     "compileCrypto", "compileHttp", "link", "linking", "execute"}

\* The places, and which commands get to some of them.
PlaceOK ==
    /\ Place \in BeforeEmission \cup AfterPreflight \cup {"done"}
    /\ pc = "hook" => phase \in Phases
    /\ pc # "hook" => hook = "idle"
    /\ pc = "report" => job.command \in Reports
    /\ pc = "size" => job.command = "size"
    /\ pc = "emitExe" => job.command \in Artifact

\* What was emitted so far, and from what.
EmissionOK ==
    /\ Place \in BeforeEmission => ~emitted
    /\ Place \in AfterPreflight => ir = "valid"
    /\ emitted => ir = "valid"

\* The inductive invariant.
DriverInv ==
    /\ PlaceOK
    /\ EmissionOK
    /\ SuccessMeansArtifact
    /\ pc # "done" => IInv
    /\ pc = "done" => OverridesOwned

-----------------------------------------------------------------------------
\* z_ai_init, and the first place.
LEMMA InitDriver == DriverInit => DriverInv
<1> SUFFICES ASSUME DriverInit PROVE DriverInv
  OBVIOUS
<1>1. IInv
  BY InitIInv DEF DriverInit
<1>2. hook = "idle" /\ pc = "resolve" /\ ~emitted
  BY DEF DriverInit, AIInit
<1>3. Place = "resolve" /\ pc # "done" /\ "resolve" \in BeforeEmission
      /\ "resolve" \notin AfterPreflight
  BY <1>2 DEF Place, BeforeEmission, AfterPreflight
<1>4. PlaceOK /\ EmissionOK
  BY <1>2, <1>3 DEF PlaceOK, EmissionOK
<1>5. SuccessMeansArtifact
  BY <1>2 DEF SuccessMeansArtifact
<1> QED BY <1>1, <1>2, <1>4, <1>5 DEF DriverInv

\* return and AI_RETURN: the strings stay with their owners, or are released.
LEMMA Exits ==
    ASSUME DriverInv, pc # "done", hook = "idle", NEW code,
           Exit(code) \/ AIReturn(code),
           emitted' => ir' = "valid", SuccessMeansArtifact'
    PROVE  DriverInv'
<1>1. pc' = "done" /\ hook' = "idle"
  BY DEF Exit, AIReturn, aiVars
<1>2. Good(ctl)
  BY DEF DriverInv, IInv
<1>3. OverridesOwned'
  <2>1. CASE Exit(code)
    BY <1>2, <2>1 DEF Exit, aiVars, Good, Owned, OverridesOwned
  <2>2. CASE AIReturn(code)
    <3> DEFINE h == FreeOverrides(ctl)
    <3>1. ctl.heap \in Seq(Cell) /\ Owned(ctl)
      BY <1>2 DEF Good, Ctl
    <3>2. /\ h \in Seq(Cell) /\ Len(h) = Len(ctl.heap)
          /\ \A q \in 1..Len(ctl.heap) : h[q].frees = 1
      <4>1. ASSUME NEW q \in 1..Len(ctl.heap), \A f \in Fields : ctl.override[f] # q
            PROVE  h[q].frees = 1
        BY <3>1, <4>1, FreeOverridesProperties DEF Owned
      <4>2. ASSUME NEW q \in 1..Len(ctl.heap), NEW f \in Fields, ctl.override[f] = q
            PROVE  h[q].frees = 1
        <5>1. ctl.heap[q].frees = 0
          BY <3>1, <4>2 DEF Owned
        <5>2. h[q].frees = ctl.heap[q].frees + 1
          BY <3>1, <4>2, FreeOverridesProperties DEF Owned
        <5> QED BY <5>1, <5>2
      <4> QED BY <3>1, <4>1, <4>2, FreeOverridesProperties DEF Owned
    <3> HIDE DEF h
    <3>3. ctl'.heap = h /\ ctl'.override = NoOverrides
      BY <2>2 DEF AIReturn, InitCtl, h
    <3> QED BY <3>2, <3>3 DEF OverridesOwned, NoOverrides, Fields
  <2> QED BY <2>1, <2>2
<1> QED BY <1>1, <1>3
    DEF DriverInv, PlaceOK, Place, EmissionOK, BeforeEmission, AfterPreflight

\* From one place to the next: what the next place asks for.
LEMMA Goes ==
    ASSUME DriverInv, pc # "done", hook = "idle",
           NEW next \in BeforeEmission \cup AfterPreflight, Goto(next), job' = job,
           next \in BeforeEmission => ~emitted',
           next \in AfterPreflight => ir' = "valid",
           emitted' => ir' = "valid",
           next = "report" => job.command \in Reports,
           next = "size" => job.command = "size",
           next = "emitExe" => job.command \in Artifact,
           next = "execute" => artifact' \in WriteSucceeds
    PROVE  DriverInv'
<1>1. pc' = next /\ hook' = "idle" /\ next # "hook" /\ next # "done"
  BY DEF Goto, aiVars, BeforeEmission, AfterPreflight
<1>2. IInv'
  BY DEF DriverInv, IInv, QueueOK, StatusOK, Goto, aiVars
<1> QED BY <1>1, <1>2
    DEF DriverInv, PlaceOK, Place, EmissionOK, SuccessMeansArtifact

\* Past a hook point: the place after it asks for what the one before did.
LEMMA AfterHookStep ==
    ASSUME DriverInv, pc # "done", hook = "idle", NEW p \in Phases, Place = p,
           Goto(AfterHook(p)), UNCHANGED <<job, ir, artifact, emitted>>
    PROVE  DriverInv'
<1> DEFINE next == AfterHook(p)
<1>1. /\ next \in {"override", "validate", "lowering", "emitObject", "emitRuntime", "linking"}
      /\ next = "override" => p = "resolve"
      /\ next \in {"validate", "lowering"} => p \in {"check", "lower"}
      /\ next \in {"emitObject", "emitRuntime", "linking"} => p \in {"codegen", "link"}
  BY DEF AfterHook, Phases
<1> HIDE DEF next
<1>2. EmissionOK
  BY DEF DriverInv
<1>3. /\ next \in BeforeEmission \cup AfterPreflight
      /\ next \in BeforeEmission => p \in BeforeEmission
      /\ next \in AfterPreflight => p \in AfterPreflight
  BY <1>1 DEF BeforeEmission, AfterPreflight
<1>4. /\ next \in BeforeEmission => ~emitted
      /\ next \in AfterPreflight => ir = "valid"
      /\ emitted => ir = "valid"
  BY <1>2, <1>3 DEF EmissionOK
<1>5. Goto(next) /\ UNCHANGED <<job, ir, artifact, emitted>>
  BY DEF next
<1> QED BY <1>1, <1>3, <1>4, <1>5, Goes

-----------------------------------------------------------------------------
\* The AI's writes reach the control file only.
LEMMA WriteStep ==
    ASSUME DriverInv, pc # "done", AIWrite, UNCHANGED driverVars PROVE DriverInv'
<1>1. UNCHANGED <<hook, phase, pc, job, ir, artifact, emitted, rc>>
  BY DEF AIWrite, driverVars
<1>2. Place' = Place
  BY <1>1 DEF Place
<1>3. PlaceOK' /\ EmissionOK' /\ SuccessMeansArtifact'
  BY <1>1, <1>2 DEF DriverInv, PlaceOK, EmissionOK, SuccessMeansArtifact
<1>4. IInv'
  BY NextIInv DEF AINext, DriverInv
<1> QED BY <1>1, <1>3, <1>4 DEF DriverInv

\* Entering a hook, or passing its place without --ai-control.
LEMMA EnterStep == ASSUME DriverInv, NEW p \in Phases, EnterHook(p) PROVE DriverInv'
<1>1. /\ pc = p /\ pc # "hook" /\ pc # "done" /\ hook = "idle" /\ Place = p
      /\ UNCHANGED <<job, ir, artifact, emitted, rc>>
  BY DEF EnterHook, DriverInv, PlaceOK, Place, Phases
<1>2. IInv /\ EmissionOK
  BY <1>1 DEF DriverInv
<1>3. CASE ai
  <2>1. StartHook(p) /\ pc' = "hook"
    BY <1>3 DEF EnterHook
  <2>2. phase' = p /\ Place' = Place
    BY <1>1, <2>1 DEF StartHook, Place
  <2>3. IInv'
    BY <1>2, <2>1, StartHookIInv
  <2>4. PlaceOK'
    BY <1>1, <2>1, <2>2 DEF PlaceOK, DriverInv
  <2>5. EmissionOK'
    BY <1>1, <1>2, <2>2 DEF EmissionOK
  <2>6. SuccessMeansArtifact'
    BY <2>1 DEF SuccessMeansArtifact
  <2> QED BY <2>1, <2>3, <2>4, <2>5, <2>6 DEF DriverInv
<1>4. CASE ~ai
  <2>1. Goto(AfterHook(p))
    BY <1>1, <1>4 DEF EnterHook, Goto
  <2> QED BY <1>1, <2>1, AfterHookStep
<1> QED BY <1>3, <1>4

\* The steps of a hook.
LEMMA InHookStep == ASSUME DriverInv, InHook PROVE DriverInv'
<1>1. /\ pc = "hook" /\ HookStep /\ pc # "done"
      /\ UNCHANGED <<pc, job, ir, artifact, emitted, rc>>
  BY DEF InHook, driverVars
<1>2. phase' = phase
  BY <1>1 DEF HookStep, ReadControl, ClearControl, ProcessLine, EndHook, ReturnFromHook
<1>3. Place' = Place /\ pc' = "hook"
  BY <1>1, <1>2 DEF Place
<1>4. IInv /\ PlaceOK /\ EmissionOK
  BY <1>1 DEF DriverInv
<1>5. IInv'
  BY <1>1, <1>4, NextIInv DEF AINext
<1>6. PlaceOK'
  BY <1>1, <1>2, <1>3, <1>4 DEF PlaceOK
<1>7. EmissionOK' /\ SuccessMeansArtifact'
  BY <1>1, <1>3, <1>4 DEF EmissionOK, SuccessMeansArtifact
<1> QED BY <1>3, <1>5, <1>6, <1>7 DEF DriverInv

\* The hook returned.
LEMMA LeaveStep == ASSUME DriverInv, LeaveHook PROVE DriverInv'
<1>1. /\ pc = "hook" /\ hook = "idle" /\ pc # "done" /\ Place = phase
      /\ UNCHANGED <<job, ir, artifact, emitted>>
  BY DEF LeaveHook, Place
<1>2. phase \in Phases /\ IInv
  BY <1>1 DEF DriverInv, PlaceOK
<1>3. ~ctl.abort_requested
  BY <1>2 DEF IInv, Good, Harmless
<1>4. Goto(AfterHook(phase))
  BY <1>3 DEF LeaveHook
<1> QED BY <1>1, <1>2, <1>4, AfterHookStep

\* The resolve hook's overrides.
LEMMA OverrideStep == ASSUME DriverInv, ApplyOverrides PROVE DriverInv'
<1>1. /\ pc = "override" /\ pc # "done" /\ hook = "idle" /\ Place = "override"
      /\ UNCHANGED <<job, ir, artifact, emitted>>
  BY DEF ApplyOverrides, DriverInv, PlaceOK, Place
<1>2. ~emitted
  BY <1>1 DEF DriverInv, EmissionOK, BeforeEmission
<1>3. AIReturn(1) \/ Goto("compile")
  BY DEF ApplyOverrides
<1>4. CASE AIReturn(1)
  <2>1. pc' = "done" /\ rc' = 1
    BY <1>4 DEF AIReturn
  <2>2. SuccessMeansArtifact'
    BY <2>1 DEF SuccessMeansArtifact
  <2> QED BY <1>1, <1>2, <1>4, <2>2, Exits
<1>5. CASE Goto("compile")
  <2>1. "compile" \in BeforeEmission /\ "compile" \notin AfterPreflight
    BY DEF BeforeEmission, AfterPreflight
  <2> QED BY <1>1, <1>2, <1>5, <2>1, Goes
<1> QED BY <1>3, <1>4, <1>5

\* A return that emits nothing and starts nothing.
LEMMA PlainExit ==
    ASSUME DriverInv, pc \notin {"done", "hook"}, NEW code, Exit(code) \/ AIReturn(code),
           UNCHANGED <<job, artifact, emitted, ir>> \/ (~emitted' /\ job' = job),
           code = 0 => job.command \notin {"build", "ship"}
    PROVE  DriverInv'
<1>1. hook = "idle" /\ EmissionOK
  BY DEF DriverInv, PlaceOK
<1>2. emitted' => ir' = "valid"
  BY <1>1 DEF EmissionOK
<1>3. pc' = "done" /\ rc' = code /\ job' = job
  BY DEF Exit, AIReturn
<1>4. SuccessMeansArtifact'
  BY <1>3 DEF SuccessMeansArtifact
<1> QED BY <1>1, <1>2, <1>4, Exits

\* A step to the next place that leaves what was emitted and written alone.
LEMMA PlainGo ==
    ASSUME DriverInv, pc \notin {"done", "hook"},
           NEW next \in BeforeEmission \cup AfterPreflight, Goto(next),
           UNCHANGED <<job, artifact, emitted>>,
           next \in BeforeEmission => pc \in BeforeEmission,
           next \in AfterPreflight => ir' = "valid",
           ir' = ir \/ pc \in BeforeEmission,
           next = "report" => job.command \in Reports,
           next = "size" => job.command = "size",
           next = "emitExe" => job.command \in Artifact,
           next = "execute" => artifact \in WriteSucceeds
    PROVE  DriverInv'
<1>1. hook = "idle" /\ EmissionOK /\ Place = pc
  BY DEF DriverInv, PlaceOK, Place
<1>2. /\ next \in BeforeEmission => ~emitted'
      /\ emitted' => ir' = "valid"
  BY <1>1 DEF EmissionOK
<1> QED BY <1>1, <1>2, Goes

\* compile_input.
LEMMA CompileStep == ASSUME DriverInv, CompileInput PROVE DriverInv'
<1>1. pc = "compile" /\ UNCHANGED <<job, target, profile, ir, artifact, emitted>>
  BY DEF CompileInput
<1>2. CASE Goto("check")
  BY <1>1, <1>2, PlainGo DEF BeforeEmission, AfterPreflight
<1>3. CASE Exit(1)
  BY <1>1, <1>3, PlainExit
<1>4. CASE job.command = "fix" /\ Exit(0)
  BY <1>1, <1>4, PlainExit
<1> QED BY <1>2, <1>3, <1>4 DEF CompileInput

\* The validations: only a command that reports goes on to a report.
LEMMA ValidateStep == ASSUME DriverInv, Validate PROVE DriverInv'
<1>1. pc = "validate" /\ UNCHANGED <<job, target, profile, ir, artifact, emitted>>
  BY DEF Validate
<1>2. CASE Goto(IF job.command \in Reports THEN "report" ELSE "lower")
  <2>1. CASE job.command \in Reports
    BY <1>1, <1>2, <2>1, PlainGo DEF BeforeEmission, AfterPreflight
  <2>2. CASE job.command \notin Reports
    BY <1>1, <1>2, <2>2, PlainGo DEF BeforeEmission, AfterPreflight
  <2> QED BY <2>1, <2>2
<1>3. CASE Exit(1)
  BY <1>1, <1>3, PlainExit
<1>4. CASE job.command = "fix" /\ Exit(0)
  BY <1>1, <1>4, PlainExit
<1> QED BY <1>2, <1>3, <1>4 DEF Validate

\* A report: its exit code says nothing of an output file.
LEMMA ReportStep == ASSUME DriverInv, Report PROVE DriverInv'
<1>1. pc = "report" /\ UNCHANGED <<job, target, profile, ir, artifact, emitted>>
  BY DEF Report
<1>2. job.command \notin {"build", "ship"}
  BY <1>1 DEF DriverInv, PlaceOK, Reports
<1> QED BY <1>1, <1>2, PlainExit DEF Report

\* Lowering: nothing was emitted from an earlier program.
LEMMA LowerStep == ASSUME DriverInv, Lower PROVE DriverInv'
<1>1. pc = "lowering" /\ UNCHANGED <<job, target, profile, artifact, emitted>>
  BY DEF Lower
<1>2. ~emitted' /\ pc \in BeforeEmission
  BY <1>1 DEF DriverInv, EmissionOK, Place, BeforeEmission
<1>3. CASE job.command = "mem" /\ Exit(0)
  BY <1>1, <1>2, <1>3, PlainExit
<1>4. CASE Exit(1)
  BY <1>1, <1>2, <1>4, PlainExit
<1>5. CASE Goto("selectObject")
  BY <1>1, <1>2, <1>5, PlainGo DEF BeforeEmission, AfterPreflight
<1>6. CASE Goto("selectExe")
  BY <1>1, <1>2, <1>6, PlainGo DEF BeforeEmission, AfterPreflight
<1> QED BY <1>3, <1>4, <1>5, <1>6 DEF Lower

\* --emit obj: only a valid MIR gets past the preflight.
LEMMA SelectObjectStep == ASSUME DriverInv, SelectObject PROVE DriverInv'
<1>1. pc = "selectObject" /\ UNCHANGED <<job, target, profile, ir, artifact, emitted>>
  BY DEF SelectObject
<1>2. CASE Exit(1) \/ AIReturn(1)
  BY <1>1, <1>2, PlainExit
<1>3. CASE Preflight /\ Goto("codegen")
  BY <1>1, <1>3, PlainGo DEF Preflight, BeforeEmission, AfterPreflight
<1> QED BY <1>2, <1>3 DEF SelectObject

\* --emit exe: whichever of the four ways main() takes.
LEMMA SelectExeStep == ASSUME DriverInv, SelectExe PROVE DriverInv'
<1>1. pc = "selectExe" /\ UNCHANGED <<job, target, profile, ir, artifact, emitted>>
  BY DEF SelectExe
<1>2. \/ Exit(1) \/ AIReturn(1)
      \/ Preflight /\ Goto("codegen")
      \/ job.command \in Artifact /\ Preflight /\ Goto("emitExe")
      \/ job.command = "size" /\ Goto("size")
  BY DEF SelectExe, WantsDirectExe
<1>3. CASE Exit(1) \/ AIReturn(1)
  BY <1>1, <1>3, PlainExit
<1>4. CASE Preflight /\ Goto("codegen")
  BY <1>1, <1>4, PlainGo DEF Preflight, BeforeEmission, AfterPreflight
<1>5. CASE job.command \in Artifact /\ Preflight /\ Goto("emitExe")
  BY <1>1, <1>5, PlainGo DEF Preflight, BeforeEmission, AfterPreflight
<1>6. CASE job.command = "size" /\ Goto("size")
  BY <1>1, <1>6, PlainGo DEF BeforeEmission, AfterPreflight
<1> QED BY <1>2, <1>3, <1>4, <1>5, <1>6


\* A return from a place only a valid MIR gets to: exit code 0 needs the file.
LEMMA EmittingExit ==
    ASSUME DriverInv, pc \in AfterPreflight, NEW code, Exit(code) \/ AIReturn(code),
           UNCHANGED <<job, ir>>, code = 0 => artifact' \in WriteSucceeds
    PROVE  DriverInv'
<1>1. pc # "done" /\ hook = "idle" /\ ir' = "valid"
  BY DEF DriverInv, PlaceOK, EmissionOK, Place, AfterPreflight
<1>2. pc' = "done" /\ rc' = code
  BY DEF Exit, AIReturn
<1>3. SuccessMeansArtifact'
  BY <1>2 DEF SuccessMeansArtifact
<1> QED BY <1>1, <1>3, Exits

\* The next place after one of them.
LEMMA EmittingGo ==
    ASSUME DriverInv, pc \in AfterPreflight, UNCHANGED <<job, ir>>,
           NEW next \in AfterPreflight, Goto(next),
           next = "emitExe" => job.command \in Artifact,
           next = "execute" => artifact' \in WriteSucceeds
    PROVE  DriverInv'
<1>1. /\ pc # "done" /\ hook = "idle" /\ ir' = "valid" /\ Place = pc
  BY DEF DriverInv, PlaceOK, EmissionOK, Place, AfterPreflight
<1>2. next \notin {"report", "size"} /\ next \notin BeforeEmission
  BY DEF BeforeEmission, AfterPreflight
<1> QED BY <1>1, <1>2, Goes

\* The object file.
LEMMA EmitObjectStep == ASSUME DriverInv, EmitObject PROVE DriverInv'
<1>1. pc = "emitObject" /\ UNCHANGED <<job, target, profile, ir>>
      /\ pc \in AfterPreflight
  BY DEF EmitObject, AfterPreflight
<1>2. AIReturn(1) \/ (artifact' \in WriteSucceeds /\ Exit(0))
  BY DEF EmitObject
<1> QED BY <1>1, <1>2, EmittingExit

\* The program's object of a runtime link.
LEMMA EmitRuntimeStep == ASSUME DriverInv, EmitRuntime PROVE DriverInv'
<1>1. pc = "emitRuntime" /\ UNCHANGED <<job, target, profile, ir, artifact>>
      /\ pc \in AfterPreflight
  BY DEF EmitRuntime, AfterPreflight
<1>2. AIReturn(1) \/ Goto("compileRuntime")
  BY DEF EmitRuntime
<1>3. CASE AIReturn(1)
  BY <1>1, <1>3, EmittingExit
<1>4. CASE Goto("compileRuntime")
  BY <1>1, <1>4, EmittingGo DEF AfterPreflight
<1> QED BY <1>2, <1>3, <1>4

\* The runtime objects.
LEMMA CompileObjectStep ==
    ASSUME DriverInv, NEW s \in {"compileRuntime", "compileCrypto", "compileHttp"},
           CompileObject(s)
    PROVE  DriverInv'
<1>1. pc = s /\ UNCHANGED <<job, target, profile, ir, artifact, emitted>>
      /\ pc \in AfterPreflight
  BY DEF CompileObject, AfterPreflight
<1>2. CASE AIReturn(1)
  BY <1>1, <1>2, EmittingExit
<1>3. CASE Goto(NextObject(s))
  <2>1. NextObject(s) \in {"compileCrypto", "compileHttp", "link"}
    BY DEF NextObject
  <2>2. NextObject(s) \in AfterPreflight /\ NextObject(s) \notin {"emitExe", "execute"}
    BY <2>1 DEF AfterPreflight
  <2> QED BY <1>1, <1>3, <2>2, EmittingGo
<1> QED BY <1>2, <1>3 DEF CompileObject

\* The host linker.
LEMMA LinkStep == ASSUME DriverInv, Link PROVE DriverInv'
<1>1. pc = "linking" /\ UNCHANGED <<job, target, profile, ir, emitted>>
      /\ pc \in AfterPreflight
  BY DEF Link, AfterPreflight
<1>2. CASE AIReturn(1)
  BY <1>1, <1>2, EmittingExit
<1>3. CASE artifact' = "complete" /\ Goto("execute")
  BY <1>1, <1>3, EmittingGo DEF AfterPreflight, WriteSucceeds
<1>4. CASE artifact' = "complete" /\ Exit(0)
  BY <1>1, <1>4, EmittingExit DEF WriteSucceeds
<1> QED BY <1>2, <1>3, <1>4 DEF Link

\* A direct executable: the program is started, and success reported, only
\* after the write.
LEMMA EmitExeStep == ASSUME DriverInv, EmitExe PROVE DriverInv'
<1>1. pc = "emitExe" /\ UNCHANGED <<job, target, profile, ir>>
      /\ pc \in AfterPreflight
  BY DEF EmitExe, AfterPreflight
<1>2. job.command \in {"build", "run", "ship"}
  BY <1>1 DEF DriverInv, PlaceOK, Artifact
<1>3. \/ Exit(1)
      \/ artifact' \in WriteSucceeds /\ (Goto("execute") \/ Exit(0) \/ AIReturn(0))
  <2>1. CASE job.command = "build" BY <2>1 DEF EmitExe
  <2>2. CASE job.command = "run" BY <2>2 DEF EmitExe
  <2>3. CASE job.command = "ship" BY <2>3 DEF EmitExe
  <2> QED BY <1>2, <2>1, <2>2, <2>3
<1>4. CASE Exit(1)
  BY <1>1, <1>4, EmittingExit
<1>5. CASE artifact' \in WriteSucceeds /\ Goto("execute")
  BY <1>1, <1>5, EmittingGo DEF AfterPreflight
<1>6. CASE artifact' \in WriteSucceeds /\ (Exit(0) \/ AIReturn(0))
  BY <1>1, <1>6, EmittingExit
<1> QED BY <1>3, <1>4, <1>5, <1>6

\* The program ran: the file it was started from is still there.
LEMMA ExecuteStep == ASSUME DriverInv, Execute PROVE DriverInv'
<1>1. pc = "execute" /\ UNCHANGED <<job, target, profile, ir, artifact, emitted>>
      /\ pc \in AfterPreflight
  BY DEF Execute, AfterPreflight
<1>2. artifact' \in WriteSucceeds
  BY <1>1 DEF DriverInv, SuccessMeansArtifact
<1> QED BY <1>1, <1>2, EmittingExit DEF Execute

\* size writes a report, not an output of build or ship.
LEMMA SizeStep == ASSUME DriverInv, Size PROVE DriverInv'
<1>1. pc = "size" /\ UNCHANGED <<job, target, profile, ir, emitted>>
  BY DEF Size
<1>2. job.command = "size" /\ ~emitted'
  BY <1>1 DEF DriverInv, PlaceOK, EmissionOK, Place, BeforeEmission
<1>3. Exit(1) \/ AIReturn(0)
  BY DEF Size
<1> QED BY <1>1, <1>2, <1>3, PlainExit

-----------------------------------------------------------------------------
\* Every step of main(), of its hooks and of the AI keeps the invariant.
LEMMA NextDriver == DriverInv /\ [DriverNext]_vars => DriverInv'
<1> SUFFICES ASSUME DriverInv, [DriverNext]_vars PROVE DriverInv'
  OBVIOUS
<1>1. CASE UNCHANGED vars
  <2>1. UNCHANGED aiVars /\ UNCHANGED driverVars
    BY <1>1 DEF vars
  <2>2. UNCHANGED <<hook, phase, ctl, status, pc, job, ir, artifact, emitted, rc>>
    BY <2>1 DEF aiVars, driverVars
  <2>3. IInv => IInv'
    BY <2>1, NextIInv
  <2> QED BY <2>2, <2>3
      DEF DriverInv, PlaceOK, Place, EmissionOK, SuccessMeansArtifact, OverridesOwned
<1>2. CASE pc # "done" /\ AIWrite /\ UNCHANGED driverVars
  BY <1>2, WriteStep
<1>3. ASSUME NEW p \in Phases, EnterHook(p) PROVE DriverInv'
  BY <1>3, EnterStep
<1>4. CASE InHook \/ LeaveHook \/ ApplyOverrides
  BY <1>4, InHookStep, LeaveStep, OverrideStep
<1>5. CASE CompileInput \/ Validate \/ Report \/ Lower
  BY <1>5, CompileStep, ValidateStep, ReportStep, LowerStep
<1>6. CASE SelectObject \/ SelectExe \/ EmitObject \/ EmitRuntime
  BY <1>6, SelectObjectStep, SelectExeStep, EmitObjectStep, EmitRuntimeStep
<1>7. ASSUME NEW s \in {"compileRuntime", "compileCrypto", "compileHttp"}, CompileObject(s)
      PROVE  DriverInv'
  BY <1>7, CompileObjectStep
<1>8. CASE Link \/ EmitExe \/ Execute \/ Size
  BY <1>8, LinkStep, EmitExeStep, ExecuteStep, SizeStep
<1> QED BY <1>1, <1>2, <1>3, <1>4, <1>5, <1>6, <1>7, <1>8 DEF DriverNext, DriverStep

LEMMA DriverInductive == DriverSpec => []DriverInv
BY InitDriver, NextDriver, PTL DEF DriverSpec

\* Machine code is emitted only from a lowered program with a valid MIR, for
\* every job, every target and every sequence of AI commands.
THEOREM EmitsValidMirOnly == DriverSpec => []OnlyValidMirEmitted
<1>1. DriverInv => OnlyValidMirEmitted
  BY DEF DriverInv, EmissionOK, OnlyValidMirEmitted
<1> QED BY <1>1, DriverInductive, PTL

\* Exit code 0 of build and ship, and starting the program in run, mean that
\* this compilation wrote the output file.
THEOREM SuccessIsWritten == DriverSpec => []SuccessMeansArtifact
<1>1. DriverInv => SuccessMeansArtifact
  BY DEF DriverInv
<1> QED BY <1>1, DriverInductive, PTL

\* Every override string has one owner or was released once, at all
\* places of main() and after its exits: AI_RETURN releases each that is left
\* exactly once, a plain return leaves them owned.
THEOREM OwnedInDriver == DriverSpec => []OverridesOwned
<1>1. DriverInv => OverridesOwned
  BY DEF DriverInv, IInv, Good, Owned, OverridesOwned
<1> QED BY <1>1, DriverInductive, PTL


-----------------------------------------------------------------------------
\* Which hooks main() may have passed when it is at a place.
HookOrder ==
    /\ pc = "resolve" => phase = "init"
    /\ pc \in {"override", "compile", "check"} => phase \in {"init", "resolve"}
    /\ pc \in {"validate", "lower"} => phase \in {"init", "resolve", "check"}
    /\ pc \in {"lowering", "selectObject", "selectExe", "codegen"}
          => phase \in {"init", "resolve", "check", "lower"}
    /\ pc \in {"emitRuntime", "compileRuntime", "compileCrypto", "compileHttp", "link"}
          => phase \in {"init", "resolve", "check", "lower", "codegen"}

\* main() passes the hook points in the order of their ranks.
LEMMA NextHookOrder == DriverInv /\ HookOrder /\ [DriverNext]_vars => HookOrder'
<1> SUFFICES ASSUME DriverInv, HookOrder, [DriverNext]_vars PROVE HookOrder'
  OBVIOUS
<1>1. CASE UNCHANGED vars
  BY <1>1 DEF vars, aiVars, driverVars, HookOrder
<1>2. CASE pc # "done" /\ AIWrite /\ UNCHANGED driverVars
  BY <1>2 DEF AIWrite, driverVars, HookOrder
<1>3. ASSUME NEW p \in Phases, EnterHook(p) PROVE HookOrder'
  <2>1. CASE ai
    <3>1. pc' = "hook"
      BY <1>3, <2>1 DEF EnterHook
    <3> QED BY <3>1 DEF HookOrder
  <2>2. CASE ~ai
    <3>1. pc = p /\ pc' = AfterHook(p) /\ phase' = phase
      BY <1>3, <2>2 DEF EnterHook, aiVars
    <3> QED BY <3>1 DEF HookOrder, AfterHook, Phases
  <2> QED BY <2>1, <2>2
<1>4. CASE InHook
  <2>1. pc' = "hook"
    BY <1>4 DEF InHook, driverVars
  <2> QED BY <2>1 DEF HookOrder
<1>5. CASE LeaveHook
  <2>1. phase \in Phases /\ phase' = phase
    BY <1>5 DEF LeaveHook, AIReturn, Goto, aiVars, DriverInv, PlaceOK
  <2>2. pc' = "done" \/ pc' = AfterHook(phase)
    BY <1>5 DEF LeaveHook, AIReturn, Goto
  <2>3. CASE pc' = "done"
    BY <2>3 DEF HookOrder
  <2>4. CASE pc' = AfterHook(phase)
    BY <2>1, <2>4 DEF HookOrder, AfterHook, Phases
  <2> QED BY <2>2, <2>3, <2>4
<1>6. CASE ApplyOverrides
  <2>1. phase' = phase /\ pc = "override" /\ pc' \in {"compile", "done"}
    BY <1>6 DEF ApplyOverrides, AIReturn, Goto, aiVars
  <2> QED BY <2>1 DEF HookOrder
<1>7. CASE CompileInput \/ Validate \/ Report \/ Lower
  <2>1. /\ phase' = phase
        /\ \/ pc = "compile" /\ pc' \in {"check", "done"}
           \/ pc = "validate" /\ pc' \in {"report", "lower", "done"}
           \/ pc = "report" /\ pc' = "done"
           \/ pc = "lowering" /\ pc' \in {"selectObject", "selectExe", "done"}
    BY <1>7 DEF CompileInput, Validate, Report, Lower, Exit, Goto, aiVars
  <2> QED BY <2>1 DEF HookOrder
<1>8. CASE SelectObject \/ SelectExe
  <2>1. /\ phase' = phase /\ pc \in {"selectObject", "selectExe"}
        /\ pc' \in {"codegen", "emitExe", "size", "done"}
    BY <1>8 DEF SelectObject, SelectExe, Exit, AIReturn, Goto, aiVars
  <2> QED BY <2>1 DEF HookOrder
<1>9. CASE EmitObject \/ EmitRuntime
  <2>1. /\ phase' = phase
        /\ \/ pc' = "done"
           \/ pc = "emitRuntime" /\ pc' = "compileRuntime"
    BY <1>9 DEF EmitObject, EmitRuntime, Exit, AIReturn, Goto, aiVars
  <2> QED BY <2>1 DEF HookOrder
<1>10. ASSUME NEW s \in {"compileRuntime", "compileCrypto", "compileHttp"}, CompileObject(s)
       PROVE  HookOrder'
  <2>1. /\ phase' = phase /\ pc = s
        /\ pc' \in {"compileCrypto", "compileHttp", "link", "done"}
    BY <1>10 DEF CompileObject, NextObject, AIReturn, Goto, aiVars
  <2> QED BY <2>1 DEF HookOrder
<1>11. CASE Link \/ EmitExe \/ Execute \/ Size
  <2>1. pc = "emitExe" => job.command \in {"build", "run", "ship"}
    BY DEF DriverInv, PlaceOK, Artifact
  <2>2. pc' \in {"execute", "done"}
    <3>1. CASE Link \/ Execute \/ Size
      BY <3>1 DEF Link, Execute, Size, Exit, AIReturn, Goto
    <3>2. CASE EmitExe
      BY <2>1, <3>2 DEF EmitExe, Exit, AIReturn, Goto
    <3> QED BY <1>11, <3>1, <3>2
  <2> QED BY <2>2 DEF HookOrder
<1> QED BY <1>1, <1>2, <1>3, <1>4, <1>5, <1>6, <1>7, <1>8, <1>9, <1>10, <1>11
    DEF DriverNext, DriverStep

\* A step of main() that does not return leaves the control channel alone,
\* is a step of the hook, or enters the next hook.
LEMMA ChannelStep ==
    ASSUME DriverInv, HookOrder, [DriverNext]_vars, pc' # "done"
    PROVE  [AINext]_aiVars
<1>1. CASE UNCHANGED vars
  BY <1>1 DEF vars
<1>2. CASE pc # "done" /\ AIWrite /\ UNCHANGED driverVars
  BY <1>2 DEF AINext
<1>3. ASSUME NEW p \in Phases, EnterHook(p) PROVE [AINext]_aiVars
  <2>1. CASE ai
    <3>1. pc = p /\ StartHook(p)
      BY <1>3, <2>1 DEF EnterHook
    <3>2. PhaseRank[phase] < PhaseRank[p]
      BY <3>1 DEF HookOrder, Phases, PhaseRank
    <3> QED BY <3>1, <3>2 DEF AINext, NextHook
  <2>2. CASE ~ai
    BY <1>3, <2>2 DEF EnterHook
  <2> QED BY <2>1, <2>2
<1>4. CASE InHook
  BY <1>4 DEF InHook, AINext
<1>5. CASE LeaveHook \/ ApplyOverrides
  BY <1>5 DEF LeaveHook, ApplyOverrides, AIReturn, Goto
<1>6. CASE CompileInput \/ Validate \/ Report \/ Lower
  BY <1>6 DEF CompileInput, Validate, Report, Lower, Exit, Goto
<1>7. CASE SelectObject \/ SelectExe \/ EmitObject \/ EmitRuntime
  BY <1>7 DEF SelectObject, SelectExe, EmitObject, EmitRuntime, Exit, AIReturn, Goto
<1>8. ASSUME NEW s \in {"compileRuntime", "compileCrypto", "compileHttp"}, CompileObject(s)
      PROVE  [AINext]_aiVars
  BY <1>8 DEF CompileObject, AIReturn, Goto
<1>9. CASE Link \/ EmitExe \/ Execute \/ Size
  <2>1. pc = "emitExe" => job.command \in {"build", "run", "ship"}
    BY DEF DriverInv, PlaceOK, Artifact
  <2>2. CASE Link \/ Execute \/ Size
    BY <2>2 DEF Link, Execute, Size, Exit, AIReturn, Goto
  <2>3. CASE EmitExe
    BY <2>1, <2>3 DEF EmitExe, Exit, AIReturn, Goto
  <2> QED BY <1>9, <2>2, <2>3
<1> QED BY <1>1, <1>2, <1>3, <1>4, <1>5, <1>6, <1>7, <1>8, <1>9 DEF DriverNext, DriverStep

LEMMA InitHookOrder == DriverInit => HookOrder
BY DEF DriverInit, AIInit, HookOrder

\* main() is the driver AIControl assumes: each hook point is entered at most
\* once, in the order of the phases, never while a hook runs, and until main()
\* returns it touches the control channel in no other way.
THEOREM MainDrivesChannel == DriverSpec => [][pc' # "done" => [AINext]_aiVars]_vars
<1>1. DriverInv /\ HookOrder /\ [DriverNext]_vars => [pc' # "done" => [AINext]_aiVars]_vars
  BY ChannelStep
<1> QED BY <1>1, DriverInductive, InitHookOrder, NextHookOrder, PTL DEF DriverSpec

\* So the lines are answered in order inside the compiler as well: the status
\* file is not touched after main() returned.
THEOREM AnswersInOrderInDriver == DriverSpec => []AnswersInOrder
<1> DEFINE O == (pc # "done" => OrderInv) /\ AnswersInOrder
<1>1. DriverInit => O
  BY InitOrder DEF DriverInit, OrderInv
<1>2. DriverInv /\ HookOrder /\ O /\ [DriverNext]_vars => O'
  <2> SUFFICES ASSUME DriverInv, HookOrder, O, [DriverNext]_vars PROVE O'
    OBVIOUS
  <2>1. CASE pc' # "done"
    <3>1. pc # "done"
      BY <2>1 DEF DriverNext, DriverStep, vars, driverVars, EnterHook, InHook, LeaveHook,
            ApplyOverrides, CompileInput, Validate, Report, Lower, SelectObject, SelectExe,
            EmitObject, EmitRuntime, CompileObject, Link, EmitExe, Execute, Size, Phases
    <3>2. IInv /\ OrderInv
      BY <3>1 DEF DriverInv
    <3>3. OrderInv'
      BY <2>1, <3>2, ChannelStep, NextOrder
    <3> QED BY <3>3 DEF OrderInv
  <2>2. CASE pc' = "done"
    <3>1. UNCHANGED <<status, emptied>>
      <4>1. CASE UNCHANGED vars \/ (pc # "done" /\ AIWrite /\ UNCHANGED driverVars)
        BY <4>1 DEF vars, aiVars, AIWrite
      <4>2. ASSUME NEW p \in Phases, EnterHook(p) PROVE FALSE
        BY <2>2, <4>2 DEF EnterHook, AfterHook, Phases
      <4>3. CASE InHook
        BY <2>2, <4>3 DEF InHook, driverVars
      <4>4. CASE LeaveHook \/ ApplyOverrides \/ CompileInput \/ Validate \/ Report \/ Lower
        BY <4>4 DEF LeaveHook, ApplyOverrides, CompileInput, Validate, Report, Lower,
                    Exit, AIReturn, Goto, aiVars
      <4>5. CASE SelectObject \/ SelectExe \/ EmitObject \/ EmitRuntime
        BY <4>5 DEF SelectObject, SelectExe, EmitObject, EmitRuntime, Exit, AIReturn,
                    Goto, aiVars
      <4>6. ASSUME NEW s \in {"compileRuntime", "compileCrypto", "compileHttp"},
                   CompileObject(s)
            PROVE  UNCHANGED <<status, emptied>>
        BY <4>6 DEF CompileObject, AIReturn, Goto, aiVars
      <4>7. CASE Link \/ Execute \/ Size
        BY <4>7 DEF Link, Execute, Size, Exit, AIReturn, Goto, aiVars
      <4>8. CASE EmitExe
        <5>1. job.command \in {"build", "run", "ship"}
          BY <4>8 DEF EmitExe, DriverInv, PlaceOK, Artifact
        <5> QED BY <4>8, <5>1 DEF EmitExe, Exit, AIReturn, Goto, aiVars
      <4> QED BY <4>1, <4>2, <4>3, <4>4, <4>5, <4>6, <4>7, <4>8 DEF DriverNext, DriverStep
    <3> QED BY <2>2, <3>1 DEF AnswersInOrder, EmptiedBetween
  <2> QED BY <2>1, <2>2
<1>3. O => AnswersInOrder
  OBVIOUS
<1> QED BY <1>1, <1>2, <1>3, DriverInductive, InitHookOrder, NextHookOrder, PTL DEF DriverSpec
=============================================================================
