--------------------------- MODULE RuntimeLinkProofs ---------------------------
(***************************************************************************)
(* RuntimeLink for any number of compilations, any needs of theirs and any *)
(* versions: what a compilation that has the output to itself links, why   *)
(* it fails, and what it leaves.                                           *)
(*                                                                         *)
(* The argument: a compilation that is not marked "shared" is the only one *)
(* that acts (Alone), so that what is known of its files (Holds) is        *)
(* disturbed by its own steps only.                                        *)
(***************************************************************************)
EXTENDS RuntimeLink, TLAPS

----------------------------------------------------------------------------
(* The inductive invariant *)

Content == [by : Compilations \cup {NoOne}, sound : BOOLEAN]
Courses == {"smooth", "faulty", "lossy", "shared"}
Writing == {"header", "source", "crypto.h"}
Building == {"dir", "cc"} \cup Writing
Steps == {"idle", "object", "link", "removing"} \cup Building \cup Ended

(* What runtime_compile_inputs_free has still to remove at a stage. *)
Inputs(s) == {<< <<s, "source">>, <<s, "header">>, <<s, "dir">> >>,
              << <<s, "header">>, <<s, "dir">> >>, << <<s, "dir">> >>, <<>>}

Types ==
    /\ step \in [Compilations -> Steps]
    /\ stage \in [Compilations -> StageNames \cup {"none"}]
    /\ doomed \in [Compilations -> BOOLEAN]
    /\ pending \in [Compilations -> Seq(Paths)]
    /\ disk \in [Paths -> Content]
    /\ course \in [Compilations -> Courses]

(* Where a compilation is determines what it builds and may remove. *)
Shape(c) ==
    /\ step[c] = "idle" => /\ stage[c] = "program" /\ ~ doomed[c]
                           /\ pending[c] = <<>> /\ course[c] = "smooth"
    /\ step[c] = "object" => stage[c] = "program" /\ ~ doomed[c]
    /\ step[c] \in Building => stage[c] \in {"runtime"} \cup Needs[c] /\ ~ doomed[c]
    /\ step[c] = "crypto.h" => stage[c] = "crypto"
    /\ step[c] \in {"link", "success"} => stage[c] = "none" /\ ~ doomed[c]
    /\ step[c] = "removing" =>
          \/ stage[c] \in {"runtime"} \cup Needs[c] /\ pending[c] \in Inputs(stage[c])
          \/ /\ stage[c] = "none"
             /\ Elements(pending[c]) \subseteq Elements(Objects(c))
    /\ doomed[c] \/ step[c] = "failure" => course[c] # "smooth"

Shapes == \A c \in Compilations : Shape(c)

(* Files of other names are never written. *)
EverWritten == {Exe, <<"crypto", "crypto.h">>} \cup {ObjectOf(s) : s \in StageNames}
              \cup ({"runtime", "crypto", "http"} \X {"dir", "header", "source"})
NoOthers == \A path \in Paths \ EverWritten : ~ Exists(path)

(* A compilation that is not shared is the only one that acts. *)
Solo(c) == step[c] # "idle" /\ course[c] # "shared"
Alone == \A c, d \in Compilations : Solo(c) /\ Active(d) => c = d

(* The stages a compilation is done with. *)
Before(s) ==
    CASE s = "program" -> {}
      [] s = "runtime" -> {"program"}
      [] s = "crypto" -> {"program", "runtime"}
      [] s = "http" -> {"program", "runtime", "crypto"}
      [] s = "none" -> StageNames
Behind(c) == Needed(c) \cap Before(stage[c])
Temporary(s) == {<<s, "source">>, <<s, "header">>}
                  \cup (IF s = "crypto" THEN {} ELSE {<<s, "dir">>})

(* The texts of the stage that are written. *)
Ready(c) ==
    CASE step[c] = "source" -> {Here(c, "header")}
      [] step[c] = "crypto.h" -> {Here(c, "header"), Here(c, "source")}
      [] step[c] = "cc" -> Texts(c)
      [] OTHER -> {}

Lossless(c) == course[c] \in {"smooth", "faulty"}
Freeing(c) == step[c] = "removing" /\ stage[c] # "none"
Linked(c) == stage[c] = "none" /\ step[c] \in {"removing", "success"} /\ ~ doomed[c]

(* Its texts and objects are its own, and so is what it links. *)
Own(c) ==
    Lossless(c) =>
        /\ \A path \in Ready(c) : disk[path] = Sound(c)
        /\ step[c] \in Building \cup {"link"} \/ Freeing(c) =>
              \A s \in Behind(c) : disk[ObjectOf(s)] = Sound(c)
        /\ Freeing(c) /\ ~ doomed[c] =>
              disk[Here(c, "object")] = Sound(c)
        /\ Linked(c) => disk[Exe] = Sound(c)

(* What is done with is removed. *)
Cleaned(c) ==
    /\ Active(c) \/ step[c] = "success" =>
          \A s \in Behind(c) \ {"program"} : \A path \in Temporary(s) : ~ Exists(path)
    /\ Freeing(c) =>
          \A path \in Temporary(stage[c]) : path \in Elements(pending[c]) \/ ~ Exists(path)
    /\ step[c] = "removing" /\ stage[c] = "none" =>
          \A s \in Needed(c) : ObjectOf(s) \in Elements(pending[c]) \/ ~ Exists(ObjectOf(s))
    /\ step[c] = "success" => \A s \in Needed(c) : ~ Exists(ObjectOf(s))

Holds(c) == Solo(c) => Own(c) /\ Cleaned(c)

LinkInv ==
    /\ Types /\ Shapes /\ NoOthers /\ Alone
    /\ \A c \in Compilations : Holds(c)

----------------------------------------------------------------------------
(* Objects and paths *)

LEMMA PathFacts ==
    /\ \A s \in StageNames, p \in Parts : <<s, p>> \in Paths
    /\ Exe \in Paths
    /\ \A s \in StageNames : ObjectOf(s) \in Paths /\ ObjectOf(s) # Exe
    /\ \A c \in Compilations : Needed(c) \subseteq StageNames /\ Needs[c] \subseteq {"crypto", "http"}
BY RuntimeLinkAssumption DEF RuntimeLinkAssumption, Paths, Exe, ObjectOf, StageNames, Parts, Needed

LEMMA TemporaryPaths ==
    ASSUME NEW s \in StageNames
    PROVE  /\ \A path \in Temporary(s) : path \in Paths /\ path[1] = s
           /\ ObjectOf(s) \in Paths /\ ObjectOf(s)[1] = s
           /\ ObjectOf(s) \notin Temporary(s) /\ Exe \notin Temporary(s)
<1>1. \A path \in Temporary(s) : \E p \in {"source", "header", "dir"} : path = <<s, p>>
  BY DEF Temporary
<1>2. \A p \in {"source", "header", "dir"} :
         <<s, p>> \in Paths /\ <<s, p>>[1] = s /\ <<s, p>> # ObjectOf(s) /\ <<s, p>> # Exe
  BY PathFacts DEF Parts, ObjectOf, Exe
<1>3. ObjectOf(s) \in Paths /\ ObjectOf(s)[1] = s
  BY PathFacts DEF ObjectOf
<1> QED BY <1>1, <1>2, <1>3

LEMMA ElementsOfConcat ==
    ASSUME NEW S, NEW u \in Seq(S), NEW v \in Seq(S)
    PROVE  u \o v \in Seq(S) /\ Elements(u \o v) = Elements(u) \cup Elements(v)
<1>1. /\ u \o v \in Seq(S) /\ Len(u \o v) = Len(u) + Len(v)
      /\ Len(u) \in Nat /\ Len(v) \in Nat
      /\ \A i \in 1 .. Len(u) + Len(v) :
            (u \o v)[i] = IF i <= Len(u) THEN u[i] ELSE v[i - Len(u)]
  OBVIOUS
<1> DEFINE w == u \o v
<1> HIDE DEF w
<1>2. ASSUME NEW x \in Elements(w) PROVE x \in Elements(u) \cup Elements(v)
  <2>1. PICK i \in 1 .. Len(w) : x = w[i]
    BY <1>2 DEF Elements
  <2>2. CASE i <= Len(u)
    BY <1>1, <2>1, <2>2 DEF Elements, w
  <2>3. CASE ~ (i <= Len(u))
    <3>1. i - Len(u) \in 1 .. Len(v) /\ x = v[i - Len(u)]
      BY <1>1, <2>1, <2>3 DEF w
    <3> QED BY <3>1 DEF Elements
  <2> QED BY <2>2, <2>3
<1>3. ASSUME NEW x \in Elements(u) PROVE x \in Elements(w)
  <2>1. PICK i \in 1 .. Len(u) : x = u[i]
    BY <1>3 DEF Elements
  <2>2. i \in 1 .. Len(w) /\ w[i] = x
    BY <1>1, <2>1 DEF w
  <2> QED BY <2>2 DEF Elements
<1>4. ASSUME NEW x \in Elements(v) PROVE x \in Elements(w)
  <2>1. PICK i \in 1 .. Len(v) : x = v[i]
    BY <1>4 DEF Elements
  <2>2. /\ Len(u) + i \in 1 .. Len(w) /\ ~ (Len(u) + i <= Len(u))
        /\ (Len(u) + i) - Len(u) = i
    BY <1>1, <2>1 DEF w
  <2>3. w[Len(u) + i] = x
    BY <1>1, <2>1, <2>2 DEF w
  <2> QED BY <2>2, <2>3 DEF Elements
<1>5. Elements(w) = Elements(u) \cup Elements(v)
  BY <1>2, <1>3, <1>4
<1> QED BY <1>1, <1>5 DEF w

LEMMA ElementsOfFew ==
    /\ Elements(<<>>) = {}
    /\ \A x : Elements(<<x>>) = {x}
    /\ \A x, y : Elements(<<x, y>>) = {x, y}
    /\ \A x, y, z : Elements(<<x, y, z>>) = {x, y, z}
<1>1. Elements(<<>>) = {}
  BY DEF Elements
<1>2. ASSUME NEW x PROVE Elements(<<x>>) = {x}
  <2>1. 1 .. Len(<<x>>) = {1} /\ <<x>>[1] = x
    OBVIOUS
  <2> QED BY <2>1 DEF Elements
<1>3. ASSUME NEW x, NEW y PROVE Elements(<<x, y>>) = {x, y}
  <2> DEFINE w == <<x, y>>
  <2>1. 1 .. Len(w) = {1, 2} /\ w[1] = x /\ w[2] = y
    OBVIOUS
  <2> HIDE DEF w
  <2>2. Elements(w) = {x, y}
    BY <2>1 DEF Elements
  <2> QED BY <2>2 DEF w
<1>4. ASSUME NEW x, NEW y, NEW z PROVE Elements(<<x, y, z>>) = {x, y, z}
  <2> DEFINE w == <<x, y, z>>
  <2>1. 1 .. Len(w) = {1, 2, 3} /\ w[1] = x /\ w[2] = y /\ w[3] = z
    OBVIOUS
  <2> HIDE DEF w
  <2>2. Elements(w) = {x, y, z}
    BY <2>1 DEF Elements
  <2> QED BY <2>2 DEF w
<1> QED BY <1>1, <1>2, <1>3, <1>4

(* The objects that are linked and removed are those of the stages. *)
LEMMA ObjectsAre ==
    ASSUME NEW c \in Compilations
    PROVE  /\ Objects(c) \in Seq(Paths)
           /\ Elements(Objects(c)) = {ObjectOf(s) : s \in Needed(c)}
<1>0. /\ \A s \in StageNames : ObjectOf(s) \in Paths
      /\ Needs[c] \subseteq {"crypto", "http"} /\ {"crypto", "http"} \subseteq StageNames
  BY PathFacts DEF StageNames
<1> DEFINE both == <<ObjectOf("program"), ObjectOf("runtime")>>
<1>1. both \in Seq(Paths) /\ Elements(both) = {ObjectOf("program"), ObjectOf("runtime")}
  BY <1>0, ElementsOfFew DEF StageNames
<1> HIDE DEF both
<1>2. ASSUME NEW s \in {"crypto", "http"}
      PROVE  /\ Optional(c, s) \in Seq(Paths)
             /\ Elements(Optional(c, s)) = IF s \in Needs[c] THEN {ObjectOf(s)} ELSE {}
  <2>1. s \in StageNames /\ ObjectOf(s) \in Paths
    BY <1>0
  <2>2. CASE s \in Needs[c]
    <3>1. Optional(c, s) = <<ObjectOf(s)>>
      BY <2>2 DEF Optional
    <3> QED BY <2>1, <2>2, <3>1, ElementsOfFew
  <2>3. CASE s \notin Needs[c]
    <3>1. Optional(c, s) = <<>>
      BY <2>3 DEF Optional
    <3> QED BY <2>3, <3>1, ElementsOfFew
  <2> QED BY <2>2, <2>3
<1>3. /\ both \o Optional(c, "crypto") \in Seq(Paths)
      /\ Elements(both \o Optional(c, "crypto")) = Elements(both) \cup Elements(Optional(c, "crypto"))
  BY <1>1, <1>2, ElementsOfConcat
<1>4. /\ Objects(c) \in Seq(Paths)
      /\ Elements(Objects(c)) = (Elements(both) \cup Elements(Optional(c, "crypto")))
                                   \cup Elements(Optional(c, "http"))
  <2> DEFINE w == both \o Optional(c, "crypto")
  <2>1. Objects(c) = w \o Optional(c, "http")
    BY DEF Objects, both
  <2> HIDE DEF w
  <2>2. w \in Seq(Paths)
    BY <1>3 DEF w
  <2>3. /\ Objects(c) \in Seq(Paths)
        /\ Elements(Objects(c)) = Elements(w) \cup Elements(Optional(c, "http"))
    BY <1>2, <2>1, <2>2, ElementsOfConcat
  <2> QED BY <1>3, <2>3 DEF w
<1>5. /\ Elements(Optional(c, "crypto")) = IF "crypto" \in Needs[c] THEN {ObjectOf("crypto")} ELSE {}
      /\ Elements(Optional(c, "http")) = IF "http" \in Needs[c] THEN {ObjectOf("http")} ELSE {}
  BY <1>2
<1> QED BY <1>0, <1>1, <1>4, <1>5 DEF Needed

(* Contents *)
LEMMA ContentFacts ==
    ASSUME NEW c \in Compilations
    PROVE  /\ Absent \in Content /\ Sound(c) \in Content /\ Broken(c) \in Content
           /\ Sound(c) # Absent /\ Broken(c) # Absent
<1>1. c # NoOne
  BY RuntimeLinkAssumption DEF RuntimeLinkAssumption
<1>2. Broken(c).by = c /\ Sound(c).by = c /\ Absent.by = NoOne
  BY DEF Absent, Sound, Broken
<1>3. Absent \in Content /\ Sound(c) \in Content /\ Broken(c) \in Content
  BY DEF Content, Absent, Sound, Broken
<1> QED BY <1>1, <1>2, <1>3

----------------------------------------------------------------------------
(* Steps of one compilation *)

(* A step of c leaves what the others know of themselves. *)
Acts(c) ==
    /\ Active(c)
    /\ course[c] = "shared" => course'[c] = "shared"
    /\ \A d \in Compilations : d # c =>
          /\ step'[d] = step[d] /\ stage'[d] = stage[d] /\ doomed'[d] = doomed[d]
          /\ pending'[d] = pending[d] /\ course'[d] = course[d]

LEMMA LocalStep ==
    ASSUME LinkInv, NEW c \in Compilations, Acts(c),
           Types', Shape(c)', NoOthers', Holds(c)'
    PROVE  LinkInv'
<1>0. Types /\ Shapes /\ Alone
  BY DEF LinkInv
<1>1. \A d \in Compilations : d # c => ~ Solo(d)
  BY <1>0 DEF Alone, Acts
<1>2. \A d \in Compilations : d # c => ~ Solo(d)'
  BY <1>1 DEF Solo, Acts
<1>3. Solo(c)' => Solo(c)
  BY DEF Solo, Acts, Active, Ended
<1>4. \A d \in Compilations : d # c /\ Active(d)' => Active(d)
  BY DEF Acts, Active
<1>5. Alone'
  BY <1>0, <1>2, <1>3, <1>4 DEF Alone
<1>6. Shapes'
  BY <1>0 DEF Shapes, Shape, Acts
<1>7. \A d \in Compilations : Holds(d)'
  BY <1>2 DEF Holds
<1> QED BY <1>5, <1>6, <1>7 DEF LinkInv

(* What Fill writes. *)
LEMMA FillFacts ==
    ASSUME Types, NEW c \in Compilations, stage[c] \in StageNames,
           NEW part \in {"object"} \cup Writing, NEW content \in Content,
           Fill(c, part, content)
    PROVE  /\ disk' \in [Paths -> Content]
           /\ disk'[Here(c, part)] = content
           /\ \A path \in Paths :
                 path # Here(c, part) /\ (InDir(part) => path # Here(c, "dir")) =>
                    disk'[path] = disk[path]
<1>1. Here(c, part) \in Paths /\ Here(c, "dir") \in Paths /\ Here(c, part) # Here(c, "dir")
  BY PathFacts DEF Here, Parts, Writing
<1>2. \A path \in Paths :
         disk'[path] = CASE path = Here(c, part) -> content
                         [] path = Here(c, "dir") /\ InDir(part) /\ ~ Exists(path) -> Sound(c)
                         [] OTHER -> disk[path]
  BY DEF Fill
<1>3. \A path \in Paths : disk'[path] \in {content, Sound(c), disk[path]}
  BY <1>1, <1>2
<1>4. disk' = [path \in Paths |-> disk'[path]]
  BY DEF Fill
<1>5. disk' \in [Paths -> Content]
  BY <1>3, <1>4, ContentFacts DEF Types
<1> QED BY <1>1, <1>2, <1>5

(* What a stage writes has one of the names that are written. *)
LEMMA WrittenNames ==
    ASSUME NEW c \in Compilations, Shape(c)
    PROVE  /\ step[c] = "object" => Here(c, "object") \in EverWritten
           /\ step[c] \in Building => /\ Here(c, "object") \in EverWritten
                                      /\ Here(c, "dir") \in EverWritten
                                      /\ Here(c, "header") \in EverWritten
                                      /\ Here(c, "source") \in EverWritten
           /\ step[c] = "crypto.h" => Here(c, "crypto.h") \in EverWritten
           /\ step[c] \in Building \cup {"object"} => stage[c] \in StageNames
BY PathFacts DEF Shape, Here, EverWritten, ObjectOf, StageNames, Building, Writing

(* A stage is not among those before it. *)
LEMMA StageFacts ==
    ASSUME NEW c \in Compilations
    PROVE  /\ Before("program") = {} /\ Before("runtime") = {"program"}
           /\ Before("crypto") = {"program", "runtime"}
           /\ Before("http") = {"program", "runtime", "crypto"}
           /\ Before("none") = StageNames
           /\ stage[c] \in StageNames => stage[c] \notin Behind(c)
           /\ Behind(c) \subseteq Needed(c) /\ Behind(c) \subseteq StageNames
           /\ {"program", "runtime"} \subseteq Needed(c)
<1>1. /\ Before("program") = {} /\ Before("runtime") = {"program"}
      /\ Before("crypto") = {"program", "runtime"}
      /\ Before("http") = {"program", "runtime", "crypto"}
      /\ Before("none") = StageNames
  BY DEF Before
<1> QED BY <1>1, PathFacts DEF Behind, StageNames, Needed

(* A compilation that failed or was killed promises nothing of its files. *)
LEMMA EndedHolds ==
    ASSUME LinkInv, NEW c \in Compilations, Active(c), NEW how \in {"failure", "killed"},
           End(c, how), disk' \in [Paths -> Content],
           \/ Fault(c)
           \/ course' = course /\ (how = "failure" => course[c] # "smooth")
    PROVE  Types' /\ Shape(c)' /\ Holds(c)' /\ Acts(c)
<1>0. Types /\ Shape(c)
  BY DEF LinkInv, Shapes
<1>1. /\ step' = [step EXCEPT ![c] = how] /\ stage' = [stage EXCEPT ![c] = "none"]
      /\ doomed' = [doomed EXCEPT ![c] = FALSE] /\ pending' = [pending EXCEPT ![c] = <<>>]
  BY DEF End, Go
<1>2. /\ course' \in [Compilations -> Courses]
      /\ \A d \in Compilations : d # c => course'[d] = course[d]
      /\ course[c] = "shared" => course'[c] = "shared"
      /\ how = "failure" => course'[c] # "smooth"
  BY <1>0 DEF Fault, Mark, Types, Courses
<1>3. Types'
  <2>1. pending' \in [Compilations -> Seq(Paths)]
    BY <1>0, <1>1 DEF Types
  <2>2. step' \in [Compilations -> Steps]
    BY <1>0, <1>1 DEF Types, Steps, Ended
  <2> QED BY <1>0, <1>1, <1>2, <2>1, <2>2 DEF Types
<1>4. step'[c] = how /\ stage'[c] = "none" /\ ~ doomed'[c]
  BY <1>0, <1>1 DEF Types
<1>5. Acts(c)
  BY <1>0, <1>1, <1>2 DEF Acts, Types
<1>6. Shape(c)'
  BY <1>2, <1>4 DEF Shape, Building, Writing
<1>7. Ready(c)' = {}
  BY <1>4 DEF Ready
<1>8. Holds(c)'
  BY <1>4, <1>7 DEF Holds, Own, Cleaned, Building, Writing, Freeing, Linked, Active, Ended
<1> QED BY <1>3, <1>5, <1>6, <1>8

(* What a step of c does to the history. *)
Marks(c) ==
    /\ course' \in [Compilations -> Courses]
    /\ \A d \in Compilations : d # c => course'[d] = course[d]
    /\ course[c] \in {"shared", "lossy"} => course'[c] = course[c]

LEMMA MarkFacts ==
    ASSUME Types, NEW c \in Compilations
    PROVE  /\ Fault(c) => Marks(c) /\ course'[c] # "smooth"
           /\ Unnoticed(c) => Marks(c) /\ ~ Lossless(c)' /\ course'[c] # "smooth"
           /\ course' = course => Marks(c)
BY DEF Types, Courses, Fault, Unnoticed, Mark, Marks, Lossless

(* From one text to the next: the objects and what was cleaned stay. *)
LEMMA TextStep ==
    ASSUME LinkInv, NEW c \in Compilations, step[c] \in Building,
           NEW name \in Writing \cup {"cc"}, name = "crypto.h" => stage[c] = "crypto",
           Go(c, name), UNCHANGED <<stage, doomed, pending>>, Marks(c),
           disk' \in [Paths -> Content],
           \A path \in Paths : path \notin {Here(c, p) : p \in {"dir"} \cup Writing}
                                  => disk'[path] = disk[path],
           step[c] # "crypto.h" => disk'[Here(c, "crypto.h")] = disk[Here(c, "crypto.h")],
           Solo(c) /\ Lossless(c)' => \A path \in Ready(c)' : disk'[path] = Sound(c)
    PROVE  LinkInv'
<1>0. Types /\ Shape(c) /\ NoOthers /\ Holds(c)
  BY DEF LinkInv, Shapes
<1>1. stage[c] \in {"runtime"} \cup Needs[c] /\ ~ doomed[c] /\ stage[c] \in StageNames
      /\ stage[c] # "none" /\ stage[c] # "program" /\ (step[c] = "crypto.h" => stage[c] = "crypto")
  BY <1>0, PathFacts DEF Shape, StageNames
<1>2. /\ step' \in [Compilations -> Steps] /\ step'[c] = name
      /\ \A d \in Compilations : d # c => step'[d] = step[d]
  BY <1>0 DEF Types, Go, Steps, Building
<1>3. Types'
  BY <1>0, <1>2 DEF Types, Marks
<1>4. Acts(c)
  BY <1>2 DEF Acts, Marks, Active, Building, Writing, Ended
<1>5. Shape(c)'
  BY <1>0, <1>1, <1>2 DEF Shape, Building, Writing, Ended
<1>6. NoOthers'
  <2> SUFFICES ASSUME NEW path \in Paths \ EverWritten PROVE disk'[path] = disk[path]
    BY <1>0 DEF NoOthers, Exists
  <2>1. path \notin {Here(c, "dir"), Here(c, "header"), Here(c, "source")}
    BY <1>0, WrittenNames
  <2>2. CASE path = Here(c, "crypto.h")
    <3>1. step[c] # "crypto.h"
      BY <1>0, <2>2, WrittenNames
    <3> QED BY <2>2, <3>1
  <2>3. CASE path # Here(c, "crypto.h")
    BY <2>1, <2>3 DEF Writing
  <2> QED BY <2>2, <2>3
<1>7. \A s \in StageNames : disk'[ObjectOf(s)] = disk[ObjectOf(s)]
  BY PathFacts DEF ObjectOf, Here, Writing
<1>8. \A s \in Behind(c) : \A path \in Temporary(s) : disk'[path] = disk[path]
  <2> TAKE s \in Behind(c)
  <2>1. s \in StageNames /\ s # stage[c]
    BY <1>1, StageFacts
  <2>2. \A path \in Temporary(s) : path \in Paths /\ path[1] = s
    BY <2>1, TemporaryPaths
  <2> QED BY <2>1, <2>2 DEF Here
<1>9. Solo(c)' => Solo(c)
  BY <1>4 DEF Solo, Acts, Active, Ended
<1>10. ASSUME Solo(c)' PROVE Own(c)'
  <2> SUFFICES ASSUME Lossless(c)' PROVE Own(c)'
    BY DEF Own
  <2>1. Solo(c) /\ Lossless(c) /\ Own(c)
    BY <1>0, <1>9, <1>10 DEF Holds, Lossless, Marks, Types, Courses
  <2>2. \A path \in Ready(c)' : disk'[path] = Sound(c)
    BY <2>1
  <2>3. Behind(c)' = Behind(c)
    BY DEF Behind
  <2>4. \A s \in Behind(c) : disk'[ObjectOf(s)] = Sound(c)
    BY <1>7, <2>1, StageFacts DEF Own
  <2> QED BY <1>1, <1>2, <2>2, <2>3, <2>4 DEF Own, Freeing, Linked, Writing
<1>11. ASSUME Solo(c)' PROVE Cleaned(c)'
  <2>1. Behind(c)' = Behind(c)
    BY DEF Behind
  <2>2. \A s \in Behind(c) \ {"program"} : \A path \in Temporary(s) : ~ Exists(path)
    BY <1>0, <1>4, <1>9, <1>11 DEF Holds, Cleaned, Acts
  <2>3. \A s \in Behind(c) \ {"program"} : \A path \in Temporary(s) : ~ Exists(path)'
    BY <1>8, <2>2 DEF Exists
  <2> QED BY <1>2, <2>1, <2>3 DEF Cleaned, Freeing, Writing
<1> QED BY <1>3, <1>4, <1>5, <1>6, <1>10, <1>11, LocalStep DEF Holds

(* The texts are freed: the object is there unless the stage failed. *)
LEMMA FreeStep ==
    ASSUME LinkInv, NEW c \in Compilations, step[c] \in Building,
           NEW failed \in BOOLEAN, FreeInputs(c, failed), UNCHANGED stage, Marks(c),
           failed => course'[c] # "smooth",
           disk' \in [Paths -> Content],
           \A path \in Paths : path # Here(c, "object") => disk'[path] = disk[path],
           Solo(c) /\ Lossless(c)' /\ ~ failed => disk'[Here(c, "object")] = Sound(c)
    PROVE  LinkInv'
<1>0. Types /\ Shape(c) /\ NoOthers /\ Holds(c)
  BY DEF LinkInv, Shapes
<1>1. stage[c] \in {"runtime"} \cup Needs[c] /\ stage[c] \in StageNames
      /\ stage[c] # "none" /\ stage[c] # "program"
  BY <1>0, PathFacts DEF Shape, StageNames
<1> DEFINE three == <<Here(c, "source"), Here(c, "header"), Here(c, "dir")>>
<1>2. /\ three \in Seq(Paths) /\ three \in Inputs(stage[c])
      /\ Elements(three) = {Here(c, "source"), Here(c, "header"), Here(c, "dir")}
  <2>1. \A p \in {"source", "header", "dir"} : Here(c, p) \in Paths
    BY <1>1, PathFacts DEF Here, Parts
  <2>2. three \in Inputs(stage[c])
    BY DEF Here, Inputs
  <2> QED BY <2>1, <2>2, ElementsOfFew
<1> HIDE DEF three
<1>3. /\ step' = [step EXCEPT ![c] = "removing"] /\ doomed' = [doomed EXCEPT ![c] = failed]
      /\ pending' = [pending EXCEPT ![c] = three]
  BY DEF FreeInputs, Go, three
<1>4. /\ step'[c] = "removing" /\ doomed'[c] = failed /\ pending'[c] = three
      /\ \A d \in Compilations : d # c =>
            step'[d] = step[d] /\ doomed'[d] = doomed[d] /\ pending'[d] = pending[d]
  BY <1>0, <1>3 DEF Types
<1>5. Types'
  <2>1. pending' \in [Compilations -> Seq(Paths)]
    BY <1>0, <1>2, <1>3 DEF Types
  <2>2. step' \in [Compilations -> Steps] /\ doomed' \in [Compilations -> BOOLEAN]
    BY <1>0, <1>3 DEF Types, Steps
  <2> QED BY <1>0, <2>1, <2>2 DEF Types, Marks
<1>6. Acts(c)
  BY <1>4 DEF Acts, Marks, Active, Building, Writing, Ended
<1>7. Shape(c)'
  BY <1>0, <1>1, <1>2, <1>4 DEF Shape, Building, Writing, Ended
<1>8. NoOthers'
  <2>1. Here(c, "object") \in EverWritten
    BY <1>0, WrittenNames
  <2> QED BY <1>0, <2>1 DEF NoOthers, Exists
<1>9. \A s \in Behind(c) : /\ disk'[ObjectOf(s)] = disk[ObjectOf(s)]
                           /\ \A path \in Temporary(s) : disk'[path] = disk[path]
  <2> TAKE s \in Behind(c)
  <2>1. s \in StageNames /\ s # stage[c]
    BY <1>1, StageFacts
  <2>2. \A path \in Temporary(s) \cup {ObjectOf(s)} : path \in Paths /\ path[1] = s
    BY <2>1, TemporaryPaths
  <2> QED BY <2>1, <2>2 DEF Here
<1>10. Solo(c)' => Solo(c)
  BY <1>6 DEF Solo, Acts, Active, Ended
<1>11. Behind(c)' = Behind(c)
  BY DEF Behind
<1>12. ASSUME Solo(c)' PROVE Own(c)'
  <2> SUFFICES ASSUME Lossless(c)' PROVE Own(c)'
    BY DEF Own
  <2>1. Solo(c) /\ Lossless(c) /\ Own(c)
    BY <1>0, <1>10, <1>12 DEF Holds, Lossless, Marks, Types, Courses
  <2>2. Ready(c)' = {}
    BY <1>4 DEF Ready
  <2>3. \A s \in Behind(c) : disk'[ObjectOf(s)] = Sound(c)
    BY <1>9, <2>1 DEF Own
  <2>4. ~ failed => disk'[Here(c, "object")] = Sound(c)
    BY <2>1
  <2> QED BY <1>1, <1>4, <1>11, <2>2, <2>3, <2>4 DEF Own, Linked, Here
<1>13. ASSUME Solo(c)' PROVE Cleaned(c)'
  <2>1. \A s \in Behind(c) \ {"program"} : \A path \in Temporary(s) : ~ Exists(path)
    BY <1>0, <1>6, <1>10, <1>13 DEF Holds, Cleaned, Acts
  <2>2. \A s \in Behind(c) \ {"program"} : \A path \in Temporary(s) : ~ Exists(path)'
    BY <1>9, <2>1 DEF Exists
  <2>3. \A path \in Temporary(stage[c]) : path \in Elements(pending'[c])
    BY <1>2, <1>4 DEF Temporary, Here
  <2> QED BY <1>1, <1>4, <1>11, <2>2, <2>3 DEF Cleaned, Freeing
<1> QED BY <1>5, <1>6, <1>7, <1>8, <1>12, <1>13, LocalStep DEF Holds

----------------------------------------------------------------------------
(* One lemma per action *)

LEMMA WriteObjectHolds == ASSUME LinkInv, NEW c \in Compilations, WriteObject(c) PROVE LinkInv'
<1>0. Types /\ Shape(c) /\ NoOthers /\ At(c, "object")
  BY DEF LinkInv, Shapes, WriteObject
<1>1. /\ step[c] = "object" /\ stage[c] = "program" /\ ~ doomed[c] /\ Active(c)
      /\ stage[c] \in StageNames /\ Here(c, "object") \in EverWritten
      /\ Here(c, "object") = ObjectOf("program")
  BY <1>0, WrittenNames DEF At, Shape, Active, Ended, StageNames, Here, ObjectOf
<1>2. ASSUME NEW content \in {Sound(c), Broken(c)}, Fill(c, "object", content)
      PROVE  /\ disk' \in [Paths -> Content] /\ disk'[Here(c, "object")] = content
             /\ NoOthers'
  <2>1. content \in Content /\ ~ InDir("object")
    BY ContentFacts DEF InDir
  <2>2. /\ disk' \in [Paths -> Content] /\ disk'[Here(c, "object")] = content
        /\ \A path \in Paths : path # Here(c, "object") => disk'[path] = disk[path]
    BY <1>0, <1>1, <1>2, <2>1, FillFacts
  <2> QED BY <1>0, <1>1, <2>2 DEF NoOthers, Exists
<1>3. CASE /\ Written(c, "object") \/ Lost(c, "object")
           /\ Go(c, "dir") /\ stage' = [stage EXCEPT ![c] = "runtime"]
           /\ UNCHANGED <<doomed, pending>>
  <2>1. /\ disk' \in [Paths -> Content] /\ NoOthers' /\ Marks(c)
        /\ Lossless(c)' => disk'[ObjectOf("program")] = Sound(c)
    BY <1>0, <1>1, <1>2, <1>3, MarkFacts DEF Written, Lost
  <2>2. /\ step' \in [Compilations -> Steps] /\ stage' \in [Compilations -> StageNames \cup {"none"}]
        /\ step'[c] = "dir" /\ stage'[c] = "runtime"
        /\ \A d \in Compilations : d # c => step'[d] = step[d] /\ stage'[d] = stage[d]
    BY <1>0, <1>3 DEF Types, Go, Steps, Building, StageNames
  <2>3. Types'
    BY <1>0, <1>3, <2>1, <2>2 DEF Types, Marks
  <2>4. Acts(c)
    BY <1>1, <1>3, <2>1, <2>2 DEF Acts, Marks
  <2>5. Shape(c)'
    BY <1>1, <1>3, <2>2 DEF Shape, Building, Writing
  <2>6. Behind(c)' = {"program"} /\ Ready(c)' = {}
    BY <2>2 DEF Behind, Before, Needed, Ready
  <2>7. Holds(c)'
    BY <2>1, <2>2, <2>6 DEF Holds, Own, Cleaned, Freeing, Linked
  <2> QED BY <2>1, <2>3, <2>4, <2>5, <2>7, LocalStep
<1>4. CASE /\ (Fault(c) /\ UNCHANGED disk) \/ Short(c, "object")
           /\ End(c, "failure")
  <2>1. /\ disk' \in [Paths -> Content] /\ NoOthers' /\ Fault(c)
    BY <1>0, <1>2, <1>4 DEF Types, Short, NoOthers, Exists
  <2>2. Types' /\ Shape(c)' /\ Holds(c)' /\ Acts(c)
    BY <1>1, <1>4, <2>1, EndedHolds
  <2> QED BY <2>1, <2>2, LocalStep
<1> QED BY <1>3, <1>4 DEF WriteObject

LEMMA MakeDirHolds == ASSUME LinkInv, NEW c \in Compilations, MakeDir(c) PROVE LinkInv'
<1>0. Types /\ Shape(c) /\ step[c] = "dir" /\ step[c] \in Building
  BY DEF LinkInv, Shapes, MakeDir, At, Building
<1>1. stage[c] \in StageNames /\ Here(c, "dir") \in Paths
  BY <1>0, WrittenNames, PathFacts DEF Here, Parts
<1>2. CASE /\ Put(Here(c, "dir"), IF Exists(Here(c, "dir")) THEN disk[Here(c, "dir")] ELSE Sound(c))
           /\ Go(c, "header") /\ UNCHANGED <<doomed, pending, course>>
  <2>1. /\ disk' \in [Paths -> Content]
        /\ \A path \in Paths : path # Here(c, "dir") => disk'[path] = disk[path]
    BY <1>0, <1>1, <1>2, ContentFacts DEF Types, Put
  <2>2. Ready(c)' = {}
    BY <1>0, <1>2 DEF Types, Go, Ready
  <2>3. Here(c, "crypto.h") \in Paths /\ Here(c, "crypto.h") # Here(c, "dir")
    BY <1>1, PathFacts DEF Here, Parts
  <2>4. Marks(c) /\ UNCHANGED <<stage, doomed, pending>>
    BY <1>0, <1>2, MarkFacts DEF MakeDir
  <2> QED BY <1>0, <1>2, <2>1, <2>2, <2>3, <2>4, TextStep DEF Writing
<1>3. CASE ~ Exists(Here(c, "dir")) /\ Fault(c) /\ UNCHANGED disk /\ FreeInputs(c, TRUE)
  <2>1. Marks(c) /\ course'[c] # "smooth" /\ UNCHANGED stage
    BY <1>0, <1>3, MarkFacts DEF MakeDir
  <2>2. disk' \in [Paths -> Content]
    BY <1>0, <1>3 DEF Types
  <2> QED BY <1>0, <1>3, <2>1, <2>2, FreeStep
<1> QED BY <1>2, <1>3 DEF MakeDir

LEMMA WriteTextHolds ==
    ASSUME LinkInv, NEW c \in Compilations, NEW part \in Writing, WriteText(c, part)
    PROVE  LinkInv'
<1>0. Types /\ Shape(c) /\ Holds(c) /\ step[c] = part /\ step[c] \in Building /\ UNCHANGED stage
  BY DEF LinkInv, Shapes, WriteText, At, Building
<1>1. /\ stage[c] \in StageNames
      /\ \A p \in Parts : Here(c, p) \in Paths /\ \A q \in Parts : p # q => Here(c, p) # Here(c, q)
  BY <1>0, WrittenNames, PathFacts DEF Here
<1>2. CASE /\ Written(c, part) \/ Lost(c, part)
           /\ Go(c, AfterText(c)) /\ UNCHANGED <<doomed, pending>>
  <2>1. PICK content \in {Sound(c), Broken(c)} :
           /\ Fill(c, part, content)
           /\ Marks(c) /\ (Lossless(c)' => content = Sound(c))
    BY <1>0, <1>2, MarkFacts DEF Written, Lost
  <2>2. /\ disk' \in [Paths -> Content] /\ disk'[Here(c, part)] = content
        /\ \A path \in Paths :
              path # Here(c, part) /\ path # Here(c, "dir") => disk'[path] = disk[path]
    BY <1>0, <1>1, <2>1, FillFacts, ContentFacts
  <2>3. /\ AfterText(c) \in Writing \cup {"cc"}
        /\ AfterText(c) = "crypto.h" => stage[c] = "crypto"
        /\ part = "header" => AfterText(c) = "source"
        /\ part = "source" => AfterText(c) = IF stage[c] = "crypto" THEN "crypto.h" ELSE "cc"
        /\ part = "crypto.h" => AfterText(c) = "cc"
    BY <1>0 DEF AfterText, Writing
  <2>4. step'[c] = AfterText(c)
    BY <1>0, <1>2 DEF Types, Go
  <2>5. ASSUME Solo(c), Lossless(c)' PROVE \A path \in Ready(c)' : disk'[path] = Sound(c)
    <3>1. Lossless(c) /\ disk'[Here(c, part)] = Sound(c)
      BY <1>0, <2>1, <2>2, <2>5 DEF Lossless, Marks, Types, Courses
    <3>2. \A path \in Ready(c) : disk[path] = Sound(c)
      BY <1>0, <2>5, <3>1 DEF Holds, Own
    <3>3. CASE part = "header"
      <4>1. Ready(c)' = {Here(c, "header")}
        BY <1>0, <2>3, <2>4, <3>3 DEF Ready, Here
      <4> QED BY <3>1, <3>3, <4>1
    <3>4. CASE part = "source"
      <4>1. Ready(c) = {Here(c, "header")}
        BY <1>0, <3>4 DEF Ready
      <4>2. Ready(c)' \subseteq {Here(c, "header"), Here(c, "source")}
        BY <1>0, <2>3, <2>4, <3>4 DEF Ready, Texts, Here
      <4>3. disk'[Here(c, "header")] = disk[Here(c, "header")]
        BY <1>1, <2>2, <3>4 DEF Parts
      <4> QED BY <3>1, <3>2, <3>4, <4>1, <4>2, <4>3
    <3>5. CASE part = "crypto.h"
      <4>1. Ready(c) = {Here(c, "header"), Here(c, "source")}
        BY <1>0, <3>5 DEF Ready
      <4>2. Ready(c)' \subseteq {Here(c, "header"), Here(c, "source"), Here(c, "crypto.h")}
        BY <1>0, <2>3, <2>4, <3>5 DEF Ready, Texts, Here
      <4>3. /\ disk'[Here(c, "header")] = disk[Here(c, "header")]
            /\ disk'[Here(c, "source")] = disk[Here(c, "source")]
        BY <1>1, <2>2, <3>5 DEF Parts
      <4> QED BY <3>1, <3>2, <3>5, <4>1, <4>2, <4>3
    <3> QED BY <3>3, <3>4, <3>5 DEF Writing
  <2>6. step[c] # "crypto.h" => disk'[Here(c, "crypto.h")] = disk[Here(c, "crypto.h")]
    BY <1>0, <1>1, <2>2 DEF Parts, Writing
  <2>7. \A path \in Paths : path \notin {Here(c, p) : p \in {"dir"} \cup Writing}
                               => disk'[path] = disk[path]
    BY <2>2
  <2> QED BY <1>0, <1>2, <2>1, <2>2, <2>3, <2>5, <2>6, <2>7, TextStep
<1>3. CASE part = "crypto.h" /\ Unnoticed(c) /\ Go(c, "cc") /\ UNCHANGED <<doomed, pending>>
           /\ UNCHANGED disk
  <2>1. Marks(c) /\ ~ Lossless(c)' /\ disk' \in [Paths -> Content]
    BY <1>0, <1>3, MarkFacts DEF Types
  <2> QED BY <1>0, <1>3, <2>1, TextStep
<1>4. CASE part # "crypto.h" /\ Fault(c) /\ FreeInputs(c, TRUE) /\ UNCHANGED disk
  <2>1. Marks(c) /\ course'[c] # "smooth" /\ disk' \in [Paths -> Content]
    BY <1>0, <1>4, MarkFacts DEF Types
  <2> QED BY <1>0, <1>4, <2>1, FreeStep
<1> QED BY <1>2, <1>3, <1>4 DEF WriteText

LEMMA CompileHolds == ASSUME LinkInv, NEW c \in Compilations, Compile(c) PROVE LinkInv'
<1>0. Types /\ Shape(c) /\ Holds(c) /\ step[c] = "cc" /\ step[c] \in Building /\ UNCHANGED stage
  BY DEF LinkInv, Shapes, Compile, At, Building
<1>1. Here(c, "object") \in Paths
  BY <1>0, WrittenNames, PathFacts DEF Here, Parts
<1>2. Solo(c) /\ Lossless(c) => \A t \in Texts(c) : Usable(c, t)
  <2>1. Ready(c) = Texts(c)
    BY <1>0 DEF Ready
  <2>2. \A t : disk[t] = Sound(c) => Usable(c, t)
    BY ContentFacts DEF Usable, Exists, Sound
  <2> QED BY <1>0, <2>1, <2>2 DEF Holds, Own
<1>3. CASE Compiled(c) /\ FreeInputs(c, FALSE) /\ UNCHANGED course
  <2>1. PICK content \in {Sound(c), Broken(c)} :
           /\ Put(Here(c, "object"), content)
           /\ (\A t \in Texts(c) : Usable(c, t)) => content = Sound(c)
    BY <1>3 DEF Compiled
  <2>2. /\ disk' \in [Paths -> Content] /\ disk'[Here(c, "object")] = content
        /\ \A path \in Paths : path # Here(c, "object") => disk'[path] = disk[path]
    BY <1>0, <1>1, <2>1, ContentFacts DEF Types, Put
  <2>3. Marks(c) /\ (Lossless(c)' => Lossless(c))
    BY <1>0, <1>3, MarkFacts DEF Lossless
  <2> QED BY <1>0, <1>2, <1>3, <2>1, <2>2, <2>3, FreeStep
<1>4. CASE CompileFails(c) /\ FreeInputs(c, TRUE)
  <2>1. /\ disk' \in [Paths -> Content]
        /\ \A path \in Paths : path # Here(c, "object") => disk'[path] = disk[path]
    BY <1>0, <1>1, <1>4, ContentFacts DEF CompileFails, Types, Put
  <2>2. Marks(c) /\ course'[c] # "smooth"
    <3>1. course[c] = "smooth" => \A t \in Texts(c) : Usable(c, t)
      BY <1>0, <1>2 DEF Solo, Lossless
    <3>2. CASE \A t \in Texts(c) : Usable(c, t)
      BY <1>0, <1>4, <3>2, MarkFacts DEF CompileFails
    <3>3. CASE ~ \A t \in Texts(c) : Usable(c, t)
      BY <1>0, <1>4, <3>1, <3>3, MarkFacts DEF CompileFails
    <3> QED BY <3>2, <3>3
  <2> QED BY <1>0, <1>4, <2>1, <2>2, FreeStep
<1> QED BY <1>3, <1>4 DEF Compile

LEMMA ElementsOfTail ==
    ASSUME NEW S, NEW w \in Seq(S), w # <<>>
    PROVE  /\ Head(w) \in S /\ Tail(w) \in Seq(S)
           /\ Elements(w) = {Head(w)} \cup Elements(Tail(w))
<1>1. /\ Len(w) \in Nat /\ Len(w) > 0 /\ Tail(w) \in Seq(S) /\ Len(Tail(w)) = Len(w) - 1
      /\ \A i \in 1 .. Len(w) - 1 : Tail(w)[i] = w[i + 1]
      /\ Head(w) = w[1] /\ Head(w) \in S
  OBVIOUS
<1>2. ASSUME NEW x \in Elements(w), x # Head(w) PROVE x \in Elements(Tail(w))
  <2>1. PICK i \in 1 .. Len(w) : x = w[i]
    BY DEF Elements
  <2>2. i # 1
    BY <1>1, <1>2, <2>1
  <2>3. i - 1 \in 1 .. Len(w) - 1 /\ (i - 1) + 1 = i
    BY <1>1, <2>1, <2>2
  <2>4. Tail(w)[i - 1] = x
    BY <1>1, <2>1, <2>3
  <2> QED BY <1>1, <2>3, <2>4 DEF Elements
<1>3. Head(w) \in Elements(w)
  BY <1>1 DEF Elements
<1>4. ASSUME NEW x \in Elements(Tail(w)) PROVE x \in Elements(w)
  <2>1. PICK i \in 1 .. Len(w) - 1 : x = Tail(w)[i]
    BY <1>1 DEF Elements
  <2>2. i + 1 \in 1 .. Len(w) /\ x = w[i + 1]
    BY <1>1, <2>1
  <2> QED BY <2>2 DEF Elements
<1> QED BY <1>1, <1>2, <1>3, <1>4

LEMMA HeadsAndTails ==
    /\ \A x : Head(<<x>>) = x /\ Tail(<<x>>) = <<>>
    /\ \A x, y : Head(<<x, y>>) = x /\ Tail(<<x, y>>) = <<y>>
    /\ \A x, y, z : Head(<<x, y, z>>) = x /\ Tail(<<x, y, z>>) = <<y, z>>
OBVIOUS

(* A directory is empty once the header is removed, but for the one of the *)
(* crypto runtime.                                                         *)
LEMMA DirIsEmpty ==
    ASSUME NoOthers, NEW s \in {"runtime", "http"}, ~ Exists(<<s, "header">>)
    PROVE  ~ \E p \in Inside(<<s, "dir">>) : Exists(p)
<1>1. ASSUME NEW p \in Inside(<<s, "dir">>) PROVE ~ Exists(p)
  <2>1. p \in Paths /\ p \in {<<s, "header">>, <<s, "crypto.h">>}
    BY DEF Inside, InDir, Paths
  <2>2. <<s, "crypto.h">> \notin EverWritten
    BY DEF EverWritten, Exe, ObjectOf
  <2> QED BY <2>1, <2>2 DEF NoOthers
<1> QED BY <1>1

LEMMA RemoveHolds == ASSUME LinkInv, NEW c \in Compilations, Remove(c) PROVE LinkInv'
<1>0. /\ Types /\ Shape(c) /\ NoOthers /\ Holds(c) /\ step[c] = "removing" /\ pending[c] # <<>>
      /\ pending' = [pending EXCEPT ![c] = Tail(pending[c])]
      /\ UNCHANGED <<step, stage, doomed, course>>
  BY DEF LinkInv, Shapes, Remove, At
<1>p. PICK path : path = Head(pending[c])
  OBVIOUS
<1>1. /\ path \in Paths /\ Tail(pending[c]) \in Seq(Paths)
      /\ Elements(pending[c]) = {path} \cup Elements(Tail(pending[c]))
  BY <1>0, <1>p, ElementsOfTail DEF Types
<1>2. IF path[2] = "dir" /\ \E p \in Inside(path) : Exists(p)
      THEN disk' = disk ELSE disk' = [disk EXCEPT ![path] = Absent]
  BY <1>p DEF Remove, Put
<1>3. /\ disk' \in [Paths -> Content]
      /\ \A q \in Paths : q # path => disk'[q] = disk[q]
      /\ \A q \in Paths : ~ Exists(q) => ~ Exists(q)'
      /\ (path[2] = "dir" => ~ \E p \in Inside(path) : Exists(p)) => ~ Exists(path)'
  <2>1. CASE path[2] = "dir" /\ \E p \in Inside(path) : Exists(p)
    BY <1>0, <1>2, <2>1 DEF Types, Exists
  <2>2. CASE ~ (path[2] = "dir" /\ \E p \in Inside(path) : Exists(p))
    <3>1. disk' = [disk EXCEPT ![path] = Absent]
      BY <1>2, <2>2
    <3>2. disk'[path] = Absent /\ \A q \in Paths : q # path => disk'[q] = disk[q]
      BY <1>0, <1>1, <3>1 DEF Types
    <3>3. disk' \in [Paths -> Content]
      BY <1>0, <3>1, ContentFacts DEF Types
    <3> QED BY <3>2, <3>3 DEF Exists
  <2> QED BY <2>1, <2>2
<1>4. /\ pending'[c] = Tail(pending[c])
      /\ \A d \in Compilations : d # c => pending'[d] = pending[d]
  BY <1>0 DEF Types
<1>5. Types'
  <2>1. pending' \in [Compilations -> Seq(Paths)]
    BY <1>0, <1>1 DEF Types
  <2> QED BY <1>0, <1>3, <2>1 DEF Types
<1>6. Acts(c)
  BY <1>0, <1>4 DEF Acts, Active, Ended
<1>7. NoOthers'
  BY <1>0, <1>3 DEF NoOthers
<1>8. Behind(c)' = Behind(c) /\ Ready(c)' = {}
  BY <1>0 DEF Behind, Ready
<1>9. Solo(c)' = Solo(c) /\ Lossless(c)' = Lossless(c)
  BY <1>0 DEF Solo, Lossless
<1>10. Solo(c) => \A s \in Behind(c) \ {"program"} : \A q \in Temporary(s) : ~ Exists(q)'
  BY <1>0, <1>3, <1>6, StageFacts, TemporaryPaths DEF Holds, Cleaned, Acts
<1>11. CASE stage[c] # "none"
  <2>1. /\ stage[c] \in {"runtime"} \cup Needs[c] /\ stage[c] \in StageNames
        /\ pending[c] \in Inputs(stage[c])
    BY <1>0, <1>11, PathFacts DEF Shape, StageNames
  <2> DEFINE source == Here(c, "source")
             header == Here(c, "header")
             dir == Here(c, "dir")
  <2>2. \/ path = source /\ Tail(pending[c]) = <<header, dir>>
        \/ path = header /\ Tail(pending[c]) = <<dir>>
        \/ path = dir /\ Tail(pending[c]) = <<>>
    <3>1. \/ pending[c] = <<source, header, dir>> \/ pending[c] = <<header, dir>>
          \/ pending[c] = <<dir>>
      BY <1>0, <2>1 DEF Inputs, Here
    <3> HIDE DEF source, header, dir
    <3>2. CASE pending[c] = <<source, header, dir>>
      BY <1>p, <3>2, HeadsAndTails
    <3>3. CASE pending[c] = <<header, dir>>
      BY <1>p, <3>3, HeadsAndTails
    <3>4. CASE pending[c] = <<dir>>
      BY <1>p, <3>4, HeadsAndTails
    <3> QED BY <3>1, <3>2, <3>3, <3>4
  <2>3. Tail(pending[c]) \in Inputs(stage[c])
    BY <2>2 DEF Inputs, Here
  <2>4. Shape(c)'
    BY <1>0, <1>4, <2>1, <2>3 DEF Shape, Building, Writing
  <2>5. /\ \A s \in StageNames : ObjectOf(s) # path /\ ObjectOf(s) \in Paths
        /\ Here(c, "object") # path /\ Here(c, "object") \in Paths
    BY <2>1, <2>2, PathFacts DEF ObjectOf, Here, Parts
  <2>6. ASSUME Solo(c) PROVE Own(c)'
    <3> SUFFICES ASSUME Lossless(c) PROVE Own(c)'
      BY <1>9 DEF Own
    <3>1. Own(c) /\ Freeing(c)
      BY <1>0, <1>11, <2>6 DEF Holds, Freeing
    <3>2. \A s \in Behind(c) : disk'[ObjectOf(s)] = Sound(c)
      BY <1>3, <2>5, <3>1, StageFacts DEF Own
    <3>3. ~ doomed[c] => disk'[Here(c, "object")] = Sound(c)
      BY <1>3, <2>5, <3>1 DEF Own
    <3> QED BY <1>0, <1>8, <1>11, <3>2, <3>3 DEF Own, Freeing, Linked, Here
  <2>7. ASSUME Solo(c) PROVE Cleaned(c)'
    <3>1. ASSUME NEW q \in Temporary(stage[c])
          PROVE  q \in Elements(pending'[c]) \/ ~ Exists(q)'
      <4>0. q \in Elements(pending[c]) \/ ~ Exists(q)
        BY <1>0, <1>11, <2>7, <3>1 DEF Holds, Cleaned, Freeing
      <4>1. q \in Paths
        BY <2>1, <3>1, TemporaryPaths
      <4>2. CASE q # path
        BY <1>1, <1>3, <1>4, <4>0, <4>1, <4>2
      <4>3. CASE q = path /\ path # dir
        BY <1>3, <2>2, <4>3 DEF Here
      <4>4. CASE q = path /\ path = dir
        <5>1. stage[c] \in {"runtime", "http"}
          <6>1. stage[c] # "crypto"
            BY <3>1, <4>4 DEF Temporary, Here
          <6> QED BY <2>1, <6>1, PathFacts
        <5>2. header \in Temporary(stage[c])
          BY DEF Temporary, Here
        <5>3. header \notin Elements(pending[c])
          <6>1. dir # header /\ dir # source
            BY DEF Here
          <6>2. Tail(pending[c]) = <<>>
            BY <2>2, <4>4, <6>1
          <6> QED BY <1>1, <4>4, <6>1, <6>2, ElementsOfFew
        <5>4. ~ Exists(header)
          BY <1>0, <1>11, <2>7, <5>2, <5>3 DEF Holds, Cleaned, Freeing
        <5>5. ~ \E p \in Inside(dir) : Exists(p)
          BY <1>0, <5>1, <5>4, DirIsEmpty DEF Here
        <5> QED BY <1>3, <4>4, <5>5
      <4> QED BY <4>2, <4>3, <4>4
    <3> QED BY <1>0, <1>8, <1>10, <1>11, <2>7, <3>1 DEF Cleaned
  <2>8. Holds(c)'
    BY <1>9, <2>6, <2>7 DEF Holds
  <2> QED BY <1>5, <1>6, <1>7, <2>4, <2>8, LocalStep
<1>12. CASE stage[c] = "none"
  <2>1. Elements(pending[c]) \subseteq Elements(Objects(c))
    BY <1>0, <1>12, PathFacts DEF Shape
  <2>2. PICK s \in Needed(c) : path = ObjectOf(s)
    BY <1>1, <2>1, ObjectsAre
  <2>3. path # Exe /\ path[2] # "dir" /\ ~ Exists(path)'
    BY <1>3, <2>2, PathFacts DEF ObjectOf
  <2>4. Shape(c)'
    BY <1>0, <1>1, <1>4, <1>12, <2>1 DEF Shape, Building, Writing
  <2>5. ASSUME Solo(c) PROVE Own(c)'
    BY <1>0, <1>3, <1>8, <1>9, <1>12, <2>3, <2>5, PathFacts DEF Holds, Own, Freeing, Linked, Building, Writing
  <2>6. ASSUME Solo(c) PROVE Cleaned(c)'
    <3>1. ASSUME NEW r \in Needed(c)
          PROVE  ObjectOf(r) \in Elements(pending'[c]) \/ ~ Exists(ObjectOf(r))'
      <4>1. ObjectOf(r) \in Elements(pending[c]) \/ ~ Exists(ObjectOf(r))
        BY <1>0, <1>12, <2>6, <3>1 DEF Holds, Cleaned
      <4>2. ObjectOf(r) \in Paths
        BY <3>1, PathFacts
      <4>3. CASE ObjectOf(r) = path
        BY <2>3, <4>3
      <4>4. CASE ObjectOf(r) # path
        BY <1>1, <1>3, <1>4, <4>1, <4>2, <4>4
      <4> QED BY <4>3, <4>4
    <3> QED BY <1>0, <1>8, <1>10, <1>12, <2>6, <3>1 DEF Cleaned, Freeing
  <2>7. Holds(c)'
    BY <1>9, <2>5, <2>6 DEF Holds
  <2> QED BY <1>5, <1>6, <1>7, <2>4, <2>7, LocalStep
<1> QED BY <1>11, <1>12

LEMMA RemovedHolds == ASSUME LinkInv, NEW c \in Compilations, Removed(c) PROVE LinkInv'
<1>0. /\ Types /\ Shape(c) /\ NoOthers /\ Holds(c) /\ step[c] = "removing" /\ pending[c] = <<>>
      /\ Active(c) /\ UNCHANGED <<disk, course>> /\ Elements(pending[c]) = {}
  BY ElementsOfFew DEF LinkInv, Shapes, Removed, At, Active, Ended
<1>1. NoOthers' /\ disk' \in [Paths -> Content]
  BY <1>0 DEF NoOthers, Exists, Types
<1>2. CASE doomed[c] /\ End(c, "failure")
  <2>1. course[c] # "smooth"
    BY <1>0, <1>2 DEF Shape
  <2>2. Types' /\ Shape(c)' /\ Holds(c)' /\ Acts(c)
    BY <1>0, <1>1, <1>2, <2>1, EndedHolds
  <2> QED BY <1>1, <2>2, LocalStep
<1>3. CASE ~ doomed[c] /\ stage[c] = "none" /\ End(c, "success")
  <2>1. /\ step' = [step EXCEPT ![c] = "success"] /\ stage' = [stage EXCEPT ![c] = "none"]
        /\ doomed' = [doomed EXCEPT ![c] = FALSE] /\ pending' = [pending EXCEPT ![c] = <<>>]
    BY <1>3 DEF End, Go
  <2>2. pending' \in [Compilations -> Seq(Paths)]
    BY <1>0, <2>1 DEF Types
  <2>3. Types'
    BY <1>0, <2>1, <2>2 DEF Types, Steps, Ended
  <2>4. /\ step'[c] = "success" /\ stage'[c] = "none" /\ ~ doomed'[c]
    BY <1>0, <2>1 DEF Types
  <2>5. Acts(c)
    BY <1>0, <2>1 DEF Acts, Types
  <2>6. Shape(c)'
    BY <2>4 DEF Shape, Building, Writing
  <2>7. Behind(c)' = Behind(c) /\ Ready(c)' = {} /\ Solo(c)' = Solo(c) /\ Lossless(c)' = Lossless(c)
    BY <1>0, <1>3, <2>4 DEF Behind, Ready, Solo, Lossless
  <2>8. ASSUME Solo(c) PROVE Own(c)'
    BY <1>0, <1>3, <2>4, <2>7, <2>8 DEF Holds, Own, Linked, Freeing, Building, Writing
  <2>9. ASSUME Solo(c) PROVE Cleaned(c)'
    BY <1>0, <1>3, <2>4, <2>7, <2>9 DEF Holds, Cleaned, Freeing, Exists
  <2>10. Holds(c)'
    BY <2>7, <2>8, <2>9 DEF Holds
  <2> QED BY <1>1, <2>3, <2>5, <2>6, <2>10, LocalStep
<1>4. CASE /\ ~ doomed[c] /\ stage[c] # "none"
           /\ stage' = [stage EXCEPT ![c] = NextStage(c, stage[c])]
           /\ Go(c, IF stage'[c] = "none" THEN "link" ELSE "dir")
           /\ UNCHANGED <<doomed, pending>>
  <2>1. stage[c] \in {"runtime"} \cup Needs[c] /\ stage[c] \in {"runtime", "crypto", "http"}
    BY <1>0, <1>4, PathFacts DEF Shape
  <2> DEFINE next == NextStage(c, stage[c])
  <2>2. /\ next \in {"crypto", "http", "none"} /\ (next # "none" => next \in Needs[c])
        /\ next \in StageNames \cup {"none"}
        /\ Needed(c) \cap Before(next) \subseteq (Needed(c) \cap Before(stage[c])) \cup {stage[c]}
    <3>1. /\ next \in {"crypto", "http", "none"} /\ (next # "none" => next \in Needs[c])
          /\ next \in StageNames \cup {"none"}
      BY DEF NextStage, StageNames
    <3>2. CASE stage[c] = "runtime"
      BY <3>2, StageFacts, PathFacts DEF NextStage, Needed, StageNames
    <3>3. CASE stage[c] = "crypto"
      BY <3>3, StageFacts, PathFacts DEF NextStage, Needed, StageNames
    <3>4. CASE stage[c] = "http"
      BY <3>4, StageFacts, PathFacts DEF NextStage, Needed, StageNames
    <3> QED BY <2>1, <3>1, <3>2, <3>3, <3>4
  <2> HIDE DEF next
  <2>3. /\ stage' = [stage EXCEPT ![c] = next]
        /\ stage'[c] = next /\ step'[c] = IF next = "none" THEN "link" ELSE "dir"
        /\ \A d \in Compilations : d # c => step'[d] = step[d] /\ stage'[d] = stage[d]
        /\ step' \in [Compilations -> Steps]
    BY <1>0, <1>4 DEF Types, Go, Steps, Building, next
  <2>4. Types'
    BY <1>0, <1>4, <2>2, <2>3 DEF Types
  <2>5. Acts(c)
    BY <1>0, <1>4, <2>3 DEF Acts
  <2>6. Shape(c)'
    BY <1>0, <1>4, <2>2, <2>3 DEF Shape, Building, Writing
  <2>7. /\ Behind(c)' \subseteq Behind(c) \cup {stage[c]}
        /\ Ready(c)' = {} /\ Solo(c)' = Solo(c) /\ Lossless(c)' = Lossless(c)
    BY <1>0, <2>2, <2>3 DEF Behind, Ready, Solo, Lossless
  <2>8. ASSUME Solo(c) PROVE Own(c)'
    <3> SUFFICES ASSUME Lossless(c) PROVE Own(c)'
      BY <2>7 DEF Own
    <3>1. Own(c) /\ Freeing(c)
      BY <1>0, <1>4, <2>8 DEF Holds, Freeing
    <3>2. \A s \in Behind(c) \cup {stage[c]} : disk'[ObjectOf(s)] = Sound(c)
      BY <1>0, <1>4, <3>1 DEF Own, Here, ObjectOf
    <3> QED BY <2>3, <2>7, <3>2 DEF Own, Freeing, Linked
  <2>9. ASSUME Solo(c) PROVE Cleaned(c)'
    <3>1. \A s \in Behind(c) \ {"program"} : \A q \in Temporary(s) : ~ Exists(q)'
      BY <1>0, <2>9 DEF Holds, Cleaned, Exists
    <3>2. \A q \in Temporary(stage[c]) : ~ Exists(q)'
      BY <1>0, <1>4, <2>9 DEF Holds, Cleaned, Freeing, Exists
    <3> QED BY <2>3, <2>7, <3>1, <3>2 DEF Cleaned, Freeing
  <2>10. Holds(c)'
    BY <2>7, <2>8, <2>9 DEF Holds
  <2> QED BY <1>1, <2>4, <2>5, <2>6, <2>10, LocalStep
<1> QED BY <1>2, <1>3, <1>4 DEF Removed

LEMMA AbortLinkHolds == ASSUME LinkInv, NEW c \in Compilations, AbortLink(c) PROVE LinkInv'
<1>0. /\ Types /\ NoOthers /\ Active(c) /\ disk' = disk /\ Fault(c) /\ End(c, "failure")
  BY DEF LinkInv, AbortLink, At, Active, Ended
<1>1. NoOthers' /\ disk' \in [Paths -> Content]
  BY <1>0 DEF NoOthers, Exists, Types
<1>2. Types' /\ Shape(c)' /\ Holds(c)' /\ Acts(c)
  BY <1>0, <1>1, EndedHolds
<1> QED BY <1>1, <1>2, LocalStep

LEMMA LinkHolds == ASSUME LinkInv, NEW c \in Compilations, Link(c) PROVE LinkInv'
<1>0. /\ Types /\ Shape(c) /\ NoOthers /\ Holds(c) /\ step[c] = "link" /\ UNCHANGED stage
      /\ stage[c] = "none" /\ Exe \in Paths /\ Exe \in EverWritten
  BY PathFacts DEF LinkInv, Shapes, Shape, Link, At, EverWritten
<1>1. Behind(c) = Needed(c)
  BY <1>0, PathFacts, StageFacts DEF Behind
<1>2. Solo(c) /\ Lossless(c) => OwnObjects(c)
  BY <1>0, <1>1, ObjectsAre DEF Holds, Own, OwnObjects
<1>3. PICK failed \in BOOLEAN :
         /\ FreeObjects(c, failed) /\ Marks(c) /\ (failed => course'[c] # "smooth")
         /\ \E content \in {Absent, Sound(c), Broken(c), disk[Exe]} : Put(Exe, content)
         /\ Solo(c) /\ Lossless(c)' /\ ~ failed => Put(Exe, Sound(c))
  <2>1. CASE /\ Put(Exe, IF OwnObjects(c) THEN Sound(c) ELSE Broken(c))
             /\ FreeObjects(c, FALSE) /\ UNCHANGED course
    <3>1. Marks(c) /\ (Lossless(c)' => Lossless(c))
      BY <1>0, <2>1, MarkFacts DEF Lossless
    <3> QED BY <1>2, <2>1, <3>1
  <2>2. CASE /\ \E left \in {Absent, Broken(c), disk[Exe]} : Put(Exe, left)
             /\ IF OwnObjects(c) THEN Fault(c) ELSE UNCHANGED course
             /\ FreeObjects(c, TRUE)
    <3>1. course[c] = "smooth" => OwnObjects(c)
      BY <1>0, <1>2 DEF Solo, Lossless
    <3>2. Marks(c) /\ course'[c] # "smooth"
      <4>1. CASE OwnObjects(c)
        BY <1>0, <2>2, <4>1, MarkFacts
      <4>2. CASE ~ OwnObjects(c)
        BY <1>0, <2>2, <3>1, <4>2, MarkFacts
      <4> QED BY <4>1, <4>2
    <3> QED BY <2>2, <3>2
  <2> QED BY <2>1, <2>2 DEF Link
<1>4. /\ disk' \in [Paths -> Content]
      /\ \A path \in Paths : path # Exe => disk'[path] = disk[path]
      /\ Solo(c) /\ Lossless(c)' /\ ~ failed => disk'[Exe] = Sound(c)
  BY <1>0, <1>3, ContentFacts DEF Types, Put
<1>5. /\ step' = [step EXCEPT ![c] = "removing"] /\ doomed' = [doomed EXCEPT ![c] = failed]
      /\ pending' = [pending EXCEPT ![c] = Objects(c)]
  BY <1>3 DEF FreeObjects, Go, LinkedObjects
<1>6. /\ step'[c] = "removing" /\ doomed'[c] = failed /\ pending'[c] = Objects(c)
      /\ \A d \in Compilations : d # c =>
            step'[d] = step[d] /\ doomed'[d] = doomed[d] /\ pending'[d] = pending[d]
  BY <1>0, <1>5 DEF Types
<1>7. Types'
  <2>1. pending' \in [Compilations -> Seq(Paths)]
    BY <1>0, <1>5, ObjectsAre DEF Types
  <2>2. step' \in [Compilations -> Steps] /\ doomed' \in [Compilations -> BOOLEAN]
    BY <1>0, <1>5 DEF Types, Steps
  <2> QED BY <1>0, <1>3, <1>4, <2>1, <2>2 DEF Types, Marks
<1>8. Acts(c)
  BY <1>0, <1>3, <1>6 DEF Acts, Marks, Active, Ended
<1>9. Shape(c)'
  BY <1>0, <1>3, <1>6 DEF Shape, Building, Writing
<1>10. NoOthers'
  BY <1>0, <1>4 DEF NoOthers, Exists
<1>11. Behind(c)' = Behind(c) /\ Ready(c)' = {} /\ Solo(c)' = Solo(c)
  <2>1. Solo(c)' = Solo(c)
    BY <1>0, <1>3, <1>6 DEF Solo, Marks, Types, Courses, Fault, Mark, Link
  <2> QED BY <1>0, <1>6, <2>1 DEF Behind, Ready
<1>12. ASSUME Solo(c) PROVE Own(c)'
  BY <1>0, <1>4, <1>6, <1>11, <1>12 DEF Own, Freeing, Linked, Building, Writing
<1>13. ASSUME Solo(c) PROVE Cleaned(c)'
  <2>1. \A s \in Behind(c) \ {"program"} : \A path \in Temporary(s) :
           ~ Exists(path) /\ path \in Paths /\ path # Exe
    BY <1>0, <1>13, StageFacts, TemporaryPaths DEF Holds, Cleaned, Active, Ended
  <2>2. \A s \in Behind(c) \ {"program"} : \A path \in Temporary(s) : ~ Exists(path)'
    BY <1>4, <2>1 DEF Exists
  <2> QED BY <1>0, <1>6, <1>11, <2>2, ObjectsAre DEF Cleaned, Freeing
<1>14. Holds(c)'
  BY <1>11, <1>12, <1>13 DEF Holds
<1> QED BY <1>7, <1>8, <1>9, <1>10, <1>14, LocalStep

LEMMA KillHolds == ASSUME LinkInv, NEW c \in Compilations, Kill(c) PROVE LinkInv'
<1>0. /\ Types /\ Shape(c) /\ NoOthers /\ Active(c) /\ End(c, "killed") /\ course' = course
  BY DEF LinkInv, Shapes, Kill
<1>1. disk' \in [Paths -> Content] /\ NoOthers'
  <2>1. CASE disk' = disk
    BY <1>0, <2>1 DEF Types, NoOthers, Exists
  <2>2. CASE step[c] \in Parts \ {"dir"} /\ Fill(c, step[c], Broken(c))
    <3>1. step[c] \in {"object"} \cup Writing
      BY <1>0, <2>2 DEF Types, Steps, Parts, Building, Writing, Ended
    <3>2. /\ stage[c] \in StageNames /\ Here(c, step[c]) \in EverWritten
          /\ InDir(step[c]) => Here(c, "dir") \in EverWritten
      BY <1>0, <3>1, WrittenNames DEF Building, Writing, InDir
    <3>3. /\ disk' \in [Paths -> Content]
          /\ \A path \in Paths :
                path # Here(c, step[c]) /\ (InDir(step[c]) => path # Here(c, "dir")) =>
                    disk'[path] = disk[path]
      BY <1>0, <2>2, <3>1, <3>2, FillFacts, ContentFacts
    <3> QED BY <1>0, <3>2, <3>3 DEF NoOthers, Exists
  <2>3. CASE step[c] = "cc" /\ Put(Here(c, "object"), Broken(c))
    <3>1. Here(c, "object") \in EverWritten
      BY <1>0, <2>3, WrittenNames DEF Building
    <3> QED BY <1>0, <2>3, <3>1, ContentFacts DEF Put, Types, NoOthers, Exists
  <2>4. CASE step[c] = "link" /\ Put(Exe, Broken(c))
    BY <1>0, <2>4, ContentFacts DEF Put, Types, NoOthers, Exists, EverWritten
  <2> QED BY <2>1, <2>2, <2>3, <2>4 DEF Kill
<1>2. Types' /\ Shape(c)' /\ Holds(c)' /\ Acts(c)
  BY <1>0, <1>1, EndedHolds
<1> QED BY <1>1, <1>2, LocalStep

(* A compilation starts: those that are under way or have ended share. *)
LEMMA StartHolds == ASSUME LinkInv, NEW c \in Compilations, Start(c) PROVE LinkInv'
<1>0. /\ Types /\ Shapes /\ NoOthers /\ step[c] = "idle" /\ step' = [step EXCEPT ![c] = "object"]
      /\ UNCHANGED <<stage, doomed, pending, disk>>
      /\ course' = [d \in Compilations |->
                      IF step[d] # "idle" \/ (d = c /\ \E e \in Compilations : Active(e))
                      THEN "shared" ELSE course[d]]
  BY DEF LinkInv, Start, Go
<1>1. /\ step'[c] = "object" /\ \A d \in Compilations : d # c => step'[d] = step[d]
      /\ \A d \in Compilations : d # c /\ step[d] # "idle" => course'[d] = "shared"
      /\ course'[c] # "shared" => course'[c] = course[c] /\ ~ \E e \in Compilations : Active(e)
      /\ \A d \in Compilations : step[d] = "idle" /\ d # c => course'[d] = course[d]
  BY <1>0 DEF Types
<1>2. Types'
  BY <1>0 DEF Types, Steps, Courses
<1>3. \A d \in Compilations : d # c => ~ Solo(d)'
  BY <1>1 DEF Solo
<1>4. Alone'
  BY <1>1, <1>3 DEF Alone, Solo, Active
<1>5. ASSUME NEW d \in Compilations PROVE Shape(d)'
  <2>1. CASE d = c
    BY <1>0, <1>1, <2>1 DEF Shapes, Shape, Building, Writing
  <2>2. CASE d # c /\ step[d] = "idle"
    BY <1>0, <1>1, <2>2 DEF Shapes, Shape
  <2>3. CASE d # c /\ step[d] # "idle"
    BY <1>0, <1>1, <2>3 DEF Shapes, Shape
  <2> QED BY <2>1, <2>2, <2>3
<1>6. NoOthers'
  BY <1>0 DEF NoOthers, Exists
<1>7. Holds(c)'
  <2>1. stage'[c] = "program"
    BY <1>0 DEF Shapes, Shape
  <2>2. Behind(c)' = {} /\ Ready(c)' = {}
    BY <1>1, <2>1 DEF Behind, Before, Ready
  <2> QED BY <1>1, <2>1, <2>2 DEF Holds, Own, Cleaned, Freeing, Linked, Building, Writing
<1> QED BY <1>2, <1>3, <1>4, <1>5, <1>6, <1>7 DEF LinkInv, Shapes, Holds

----------------------------------------------------------------------------
LEMMA InitHolds == Init => LinkInv
<1> SUFFICES ASSUME Init PROVE LinkInv
  OBVIOUS
<1>1. Types
  BY ContentFacts, RuntimeLinkAssumption DEF Init, Types, Steps, Courses, StageNames, Content, Absent
<1>2. \A c \in Compilations : step[c] = "idle" /\ ~ Solo(c) /\ Shape(c)
  BY DEF Init, Solo, Shape, Building, Writing
<1>3. NoOthers
  BY DEF Init, NoOthers, Exists
<1> QED BY <1>1, <1>2, <1>3 DEF LinkInv, Shapes, Alone, Holds

LEMMA NextHolds == LinkInv /\ [Next]_vars => LinkInv'
<1> SUFFICES ASSUME LinkInv, [Next]_vars PROVE LinkInv'
  OBVIOUS
<1>1. ASSUME NEW c \in Compilations, Step(c) PROVE LinkInv'
  BY <1>1, WriteObjectHolds, MakeDirHolds, WriteTextHolds, CompileHolds, RemoveHolds,
     RemovedHolds, AbortLinkHolds, LinkHolds DEF Step, Writing
<1>2. CASE UNCHANGED vars
  <2>1. UNCHANGED <<step, stage, doomed, pending, disk, course>>
    BY <1>2 DEF vars
  <2>2. Types' /\ NoOthers' /\ Alone'
    BY <2>1 DEF LinkInv, Types, NoOthers, Exists, Alone, Solo, Active
  <2>3. Shapes'
    BY <2>1 DEF LinkInv, Shapes, Shape
  <2>4. ASSUME NEW c \in Compilations PROVE Holds(c)'
    <3>1. Ready(c)' = Ready(c)
      BY <2>1 DEF Ready, Texts, Here
    <3>2. Holds(c) /\ Behind(c)' = Behind(c) /\ \A path : Exists(path)' = Exists(path)
      BY <2>1 DEF LinkInv, Behind, Exists
    <3>3. Own(c)' = Own(c)
      BY <2>1, <3>1, <3>2 DEF Own, Lossless, Freeing, Linked, Here
    <3>4. Cleaned(c)' = Cleaned(c)
      BY <2>1, <3>2 DEF Cleaned, Active, Freeing
    <3> QED BY <2>1, <3>2, <3>3, <3>4 DEF Holds, Solo
  <2> QED BY <2>2, <2>3, <2>4 DEF LinkInv
<1> QED BY <1>1, <1>2, StartHolds, KillHolds DEF Next

LEMMA LinkInvariant == Spec => []LinkInv
BY InitHolds, NextHolds, PTL DEF Spec

(* For any compilations, needs and versions: a compilation that reports    *)
(* success, had the output to itself and lost no write has linked its own  *)
(* objects, whatever killed or failed compilations left.                   *)
THEOREM OwnObjectsLinked == Spec => []LinkedFromOwn
<1>1. LinkInv => LinkedFromOwn
  <2> SUFFICES ASSUME LinkInv, NEW c \in Compilations,
                      step[c] = "success", course[c] \notin {"shared", "lossy"}
               PROVE  disk[Exe] = Sound(c)
    BY DEF LinkedFromOwn
  <2>1. Solo(c) /\ Lossless(c)
    BY DEF LinkInv, Types, Courses, Solo, Lossless
  <2>2. Linked(c)
    BY DEF LinkInv, Shapes, Shape, Linked
  <2> QED BY <2>1, <2>2 DEF LinkInv, Holds, Own
<1> QED BY <1>1, LinkInvariant, PTL

(* It fails only if one of its own steps failed.                           *)
THEOREM FailuresHaveCause == Spec => []FailsForCause
<1>1. LinkInv => FailsForCause
  BY DEF LinkInv, Shapes, Shape, FailsForCause
<1> QED BY <1>1, LinkInvariant, PTL

(* After a success nothing temporary is left, but for zerox_crypto.h and   *)
(* its directory, also not what an earlier compilation left.               *)
THEOREM TemporariesAreGone == Spec => []NothingLeft
<1>1. LinkInv => NothingLeft
  <2> SUFFICES ASSUME LinkInv, NEW c \in Compilations, step[c] = "success", course[c] # "shared",
                      NEW s \in Needed(c), NEW p \in Parts, <<s, p>> \notin MayStay
               PROVE  ~ Exists(<<s, p>>)
    BY DEF NothingLeft
  <2>0. /\ NoOthers /\ Cleaned(c) /\ s \in StageNames /\ <<s, p>> \in Paths
        /\ Behind(c) = Needed(c)
    BY PathFacts, StageFacts DEF LinkInv, Holds, Solo, Shapes, Shape, Behind
  <2>1. CASE p = "object"
    BY <2>0, <2>1 DEF Cleaned, ObjectOf
  <2>2. CASE p \in {"source", "header", "dir"} /\ s # "program"
    <3>1. <<s, p>> \in Temporary(s)
      BY <2>2 DEF Temporary, MayStay
    <3> QED BY <2>0, <2>2, <3>1 DEF Cleaned
  <2>3. CASE p # "object" /\ (p \in {"source", "header", "dir"} => s = "program")
    <3>1. <<s, p>> \notin EverWritten
      BY <2>3 DEF EverWritten, MayStay, ObjectOf, Exe
    <3> QED BY <2>0, <3>1 DEF NoOthers
  <2> QED BY <2>1, <2>2, <2>3
<1> QED BY <1>1, LinkInvariant, PTL
=============================================================================
