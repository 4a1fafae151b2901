-------------------------- MODULE SpecializeProofs --------------------------
(***************************************************************************)
(* Proofs about Specialize: the function table has one function per name,  *)
(* it holds an instance for every call the worklist has passed, and so     *)
(* every call is compiled to its own instance.  What is refused is refused *)
(* for a reason, and what is accepted has types of bounded depth.          *)
(***************************************************************************)
EXTENDS Specialize, SeqLemmas

Early == phase \in {"checking", "rejected", "cloning"}

\* The plain functions come first, then the planned instances in order.
TableFollowsPlan ==
    /\ \A i \in 1 .. Len(functions) :
          i <= Len(Plain) => functions[i].source = Plain[i]
    /\ \A i \in 1 .. Len(plan) : Len(Plain) + i <= Len(functions) =>
          /\ functions[Len(Plain) + i].source = plan[i].to
          /\ functions[Len(Plain) + i].arg = plan[i].arg

NamesDistinct ==
    \A i, j \in 1 .. Len(functions) : NameOf(functions[i]) = NameOf(functions[j]) => i = j

\* What the worklist has passed is planned.
PassedArePlanned ==
    ~ Early /\ ~ cut =>
        /\ \A i \in 1 .. Len(functions) : i < at =>
              \A n \in 1 .. Len(functions[i].calls) : Planned(functions[i].calls[n])
        /\ at <= Len(functions) =>
              \A n \in 1 .. Len(functions[at].calls) : n < stmt => Planned(functions[at].calls[n])

\* An error ends the walk; lowering starts after its last function.
Outcome ==
    /\ phase \notin {"rejected", "unsupported"} => error = "none"
    /\ phase = "lowered" => at = Len(functions) + 1
    /\ phase \in {"checking", "cloning"} => at = 1 /\ stmt = 1 /\ ~ cut
    /\ error = "missing" => cut

SpecInv ==
    SpecTypeOK /\ TableFollowsPlan /\ NamesDistinct /\ PassedArePlanned /\ Outcome

LEMMA PlainFacts ==
    /\ Len(Plain) \in Nat
    /\ \A i \in 1 .. Len(Plain) : Plain[i] \in PlainNames
    /\ \A i, j \in 1 .. Len(Plain) : Plain[i] = Plain[j] => i = j
    /\ Generics \cap PlainNames = {}
<1>1. Len(Plain) \in Nat /\ DOMAIN Plain = 1 .. Len(Plain)
  BY SpecializeAssumption
<1>2. \A i \in 1 .. Len(Plain) : Plain[i] \in PlainNames
  BY <1>1 DEF PlainNames, Range
<1> QED BY <1>1, <1>2, SpecializeAssumption DEF SpecializeAssumption

LEMMA InitHolds == Init => SpecInv
<1> SUFFICES ASSUME Init PROVE SpecInv
  OBVIOUS
<1>1. program \in [Generics \cup PlainNames -> Seq(Calls)] /\ limit \in Nat
  BY SpecializeAssumption DEF SpecializeAssumption, Init
<1>2. functions \in Seq(Instances) /\ plan \in Seq(Calls) /\ Len(functions) = 0 /\ Len(plan) = 0
  BY DEF Init
<1>3. /\ phase = "checking" /\ error = "none" /\ cap = 0 /\ at = 1 /\ stmt = 1
      /\ moved = FALSE /\ cut = FALSE
  BY DEF Init
<1>4. SpecTypeOK
  <2>1. Len(plan) = 0 /\ Len(functions) <= Len(Plain) /\ Len(functions) <= cap
    BY <1>2, <1>3, PlainFacts
  <2>2. phase \in {"checking", "rejected", "cloning"} /\ at <= Len(functions) + 1
    BY <1>2, <1>3
  <2>3. /\ at \in Nat \ {0} /\ stmt \in Nat \ {0} /\ cap \in Nat
        /\ error \in {"none", "recursion", "limit", "collision", "existing", "missing"}
        /\ phase \in {"checking", "rejected", "cloning",
                      "collecting", "unsupported", "crashed", "lowered"}
    BY <1>3
  <2>4. moved \in BOOLEAN /\ cut \in BOOLEAN
    BY <1>3
  <2> QED BY <1>1, <1>2, <2>1, <2>2, <2>3, <2>4 DEF SpecTypeOK
<1>5. TableFollowsPlan /\ NamesDistinct
  BY <1>2 DEF TableFollowsPlan, NamesDistinct
<1>6. PassedArePlanned /\ Outcome
  BY <1>3 DEF PassedArePlanned, Outcome, Early
<1> QED BY <1>4, <1>5, <1>6 DEF SpecInv

\* Appending an instance with a new name keeps the names distinct.
LEMMA NamesStayDistinct ==
    ASSUME SpecTypeOK, NamesDistinct, NEW f \in Instances,
           functions' = Append(functions, f), ~ HasName(NameOf(f))
    PROVE  NamesDistinct'
<1>1. Len(functions) \in Nat /\ Len(functions') = Len(functions) + 1
  BY DEF SpecTypeOK
<1>2. \A i \in 1 .. Len(functions) : functions'[i] = functions[i]
  BY DEF SpecTypeOK
<1>3. functions'[Len(functions) + 1] = f
  BY DEF SpecTypeOK
<1>4. \A i \in 1 .. Len(functions) : NameOf(functions[i]) # NameOf(f)
  BY DEF HasName
<1> SUFFICES ASSUME NEW i \in 1 .. Len(functions'), NEW j \in 1 .. Len(functions'),
                    NameOf(functions'[i]) = NameOf(functions'[j])
             PROVE  i = j
  BY DEF NamesDistinct, NameOf, SpecializedName
<1>5. CASE i \in 1 .. Len(functions) /\ j \in 1 .. Len(functions)
  BY <1>2, <1>5 DEF NamesDistinct
<1>6. CASE i = Len(functions) + 1 \/ j = Len(functions) + 1
  BY <1>1, <1>2, <1>3, <1>4, <1>6
<1> QED BY <1>1, <1>5, <1>6

\* A vector that grows for one more item has room for it.
LEMMA GrownHolds ==
    ASSUME SpecTypeOK
    PROVE  Grown(cap, Len(functions) + 1) \in Nat
           /\ Len(functions) + 1 <= Grown(cap, Len(functions) + 1)
<1>1. Len(functions) \in Nat /\ cap \in Nat /\ Len(functions) <= cap
  BY DEF SpecTypeOK
<1>2. FirstCap \in Nat \ {0}
  BY SpecializeAssumption DEF SpecializeAssumption
<1> QED BY <1>1, <1>2 DEF Grown

LEMMA CheckHolds == SpecInv /\ Check => SpecInv'
<1> SUFFICES ASSUME SpecInv, Check PROVE SpecInv'
  OBVIOUS
<1> USE DEF SpecInv, Check
<1>1. SpecTypeOK'
  BY DEF SpecTypeOK
<1>2. TableFollowsPlan' /\ NamesDistinct'
  BY DEF TableFollowsPlan, NamesDistinct, NameOf, SpecializedName
<1>3. PassedArePlanned' /\ Outcome'
  BY DEF PassedArePlanned, Outcome, Early
<1> QED BY <1>1, <1>2, <1>3

\* Substituting the type argument leaves calls of generic functions.
LEMMA SubstitutedCalls ==
    ASSUME SpecTypeOK, NEW c \in Calls
    PROVE  Substituted(c) \in Seq(Calls)
<1>1. program[c.to] \in Seq(Calls) /\ c.to \in Generics /\ c.arg \in Types
  BY DEF SpecTypeOK, Calls
<1>2. Len(program[c.to]) \in Nat
  BY <1>1
<1>3. ASSUME NEW i \in 1 .. Len(program[c.to])
      PROVE  Call(program[c.to][i].to, Bound(program[c.to][i].arg, c.arg)) \in Calls
  <2>1. program[c.to][i] \in Calls
    BY <1>1, <1>3
  <2>2. program[c.to][i].to \in Generics /\ program[c.to][i].arg \in Types
    BY <2>1 DEF Calls
  <2>3. Bound(program[c.to][i].arg, c.arg) \in Types
    BY <1>1, <2>2 DEF Bound, Types, Type
  <2> QED BY <2>2, <2>3 DEF Call, Calls
<1> QED BY <1>2, <1>3 DEF Substituted

LEMMA ClonePlainHolds == SpecInv /\ ClonePlain => SpecInv'
<1> SUFFICES ASSUME SpecInv, ClonePlain PROVE SpecInv'
  OBVIOUS
<1> DEFINE f == Plain[Len(functions) + 1]
           inst == Instance(f, NoType, program[f])
<1>0. SpecTypeOK /\ Len(functions) \in Nat /\ functions \in Seq(Instances)
  BY DEF SpecInv, SpecTypeOK
<1>1. f \in PlainNames /\ Len(functions) + 1 \in 1 .. Len(Plain)
  BY <1>0, PlainFacts DEF ClonePlain
<1>2. inst \in Instances
  <2>1. program[f] \in Seq(Calls)
    BY <1>0, <1>1 DEF SpecTypeOK
  <2>2. NoType \in Types
    BY DEF NoType, Type, Types
  <2> QED BY <1>1, <2>1, <2>2 DEF Instance, Instances
<1>3. functions' = Append(functions, inst)
  BY DEF ClonePlain
<1>4. /\ functions' \in Seq(Instances) /\ Len(functions') = Len(functions) + 1
      /\ functions'[Len(functions) + 1] = inst
      /\ \A i \in 1 .. Len(functions) : functions'[i] = functions[i]
  BY <1>0, <1>2, <1>3
<1>5. SpecTypeOK'
  <2>1. cap' \in Nat /\ Len(functions') <= cap'
    BY <1>0, <1>4, GrownHolds DEF ClonePlain
  <2>2. at' <= Len(functions') + 1
    BY <1>0, <1>4 DEF ClonePlain, SpecTypeOK
  <2>3. Len(plan') = 0 /\ Len(functions') <= Len(Plain')
    BY <1>0, <1>1, <1>4 DEF ClonePlain, SpecTypeOK
  <2> QED BY <1>0, <1>4, <2>1, <2>2, <2>3 DEF ClonePlain, SpecTypeOK
<1>6. TableFollowsPlan'
  <2>1. Len(plan') = 0
    BY <1>0 DEF SpecTypeOK, ClonePlain
  <2>2. \A i \in 1 .. Len(functions') : i <= Len(Plain) => functions'[i].source = Plain[i]
    BY <1>0, <1>4 DEF SpecInv, TableFollowsPlan, Instance
  <2> QED BY <2>1, <2>2, <1>0, <1>4 DEF TableFollowsPlan, ClonePlain
<1>7. NamesDistinct'
  <2>1. NameOf(inst) = f
    BY <1>1 DEF NameOf, Instance
  <2>2. \A i \in 1 .. Len(functions) : i <= Len(Plain) /\ functions[i].source = Plain[i]
    BY <1>0, <1>1, PlainFacts DEF SpecInv, TableFollowsPlan
  <2>3. \A i \in 1 .. Len(functions) : NameOf(functions[i]) = Plain[i]
    BY <1>0, <2>2, PlainFacts DEF NameOf
  <2>4. ~ HasName(NameOf(inst))
    <3> SUFFICES ASSUME NEW i \in 1 .. Len(functions), NameOf(functions[i]) = f PROVE FALSE
      BY <2>1 DEF HasName
    <3> QED BY <1>0, <1>1, <2>2, <2>3, PlainFacts
  <2> QED BY <1>0, <1>2, <1>3, <2>4, NamesStayDistinct DEF SpecInv
<1>8. PassedArePlanned' /\ Outcome'
  BY DEF SpecInv, PassedArePlanned, Outcome, Early, ClonePlain
<1> QED BY <1>5, <1>6, <1>7, <1>8 DEF SpecInv

LEMMA StartWalkHolds == SpecInv /\ StartWalk => SpecInv'
<1> SUFFICES ASSUME SpecInv, StartWalk PROVE SpecInv'
  OBVIOUS
<1> USE DEF SpecInv, StartWalk
<1>1. Len(functions) \in Nat /\ Len(plan) = 0 /\ error = "none" /\ at = 1 /\ stmt = 1
  BY DEF SpecTypeOK, Outcome
<1>2. SpecTypeOK'
  BY <1>1 DEF SpecTypeOK
<1>3. TableFollowsPlan' /\ NamesDistinct'
  BY DEF TableFollowsPlan, NamesDistinct, NameOf, SpecializedName
<1>4. PassedArePlanned'
  BY <1>1 DEF PassedArePlanned, Early
<1>5. Outcome'
  BY <1>1 DEF Outcome
<1> QED BY <1>2, <1>3, <1>4, <1>5

LEMMA NextFunctionHolds == SpecInv /\ NextFunction => SpecInv'
<1> SUFFICES ASSUME SpecInv, NextFunction PROVE SpecInv'
  OBVIOUS
<1> USE DEF SpecInv, NextFunction, Walking, Body
<1>1. SpecTypeOK'
  <2>1. at' \in Nat \ {0} /\ stmt' \in Nat \ {0} /\ at' <= Len(functions') + 1
    BY DEF SpecTypeOK
  <2>2. moved' \in BOOLEAN
    OBVIOUS
  <2> QED BY <2>1, <2>2 DEF SpecTypeOK
<1>2. TableFollowsPlan' /\ NamesDistinct'
  BY DEF TableFollowsPlan, NamesDistinct, NameOf, SpecializedName
<1>3. PassedArePlanned'
  <2> SUFFICES ASSUME ~ cut PROVE PassedArePlanned'
    BY DEF PassedArePlanned
  <2>1. at \in Nat /\ stmt \in Nat /\ Len(functions) \in Nat /\ at \in 1 .. Len(functions)
    BY DEF SpecTypeOK
  <2>2. \A n \in 1 .. Len(functions[at].calls) : Planned(functions[at].calls[n])
    <3>1. functions[at].calls \in Seq(Calls)
      <4>1. functions \in Seq(Instances)
        BY DEF SpecTypeOK
      <4>2. functions[at] \in Instances
        BY ONLY <2>1, <4>1
      <4> QED BY ONLY <4>2 DEF Instances
    <3>2. Len(functions[at].calls) \in Nat
      BY <3>1
    <3> QED BY <2>1, <3>2 DEF PassedArePlanned, Early
  <2>3. \A i \in 1 .. Len(functions) : i < at + 1 =>
           \A n \in 1 .. Len(functions[i].calls) : Planned(functions[i].calls[n])
    BY <2>1, <2>2 DEF PassedArePlanned, Early
  <2> QED BY <2>1, <2>3, SMTT(20) DEF PassedArePlanned, Planned
<1>4. Outcome'
  BY DEF Outcome, SpecTypeOK
<1> QED BY <1>1, <1>2, <1>3, <1>4

LEMMA StaleReadHolds == SpecInv /\ StaleRead => SpecInv'
<1> SUFFICES ASSUME SpecInv, StaleRead PROVE SpecInv'
  OBVIOUS
<1> USE DEF SpecInv, StaleRead, Walking
<1>1. SpecTypeOK'
  <2>0. Len(functions) \in Nat /\ at \in Nat \ {0} /\ stmt \in Nat \ {0}
    BY DEF SpecTypeOK
  <2>a. \/ at' = at + 1 /\ stmt' = 1
        \/ at' = at /\ stmt' = stmt
    OBVIOUS
  <2>b. at <= Len(functions) /\ functions' = functions
    OBVIOUS
  <2>1. at' \in Nat \ {0} /\ stmt' \in Nat \ {0} /\ at' <= Len(functions') + 1
    BY <2>0, <2>a, <2>b
  <2>2. moved' \in BOOLEAN /\ cut' \in BOOLEAN
    BY DEF SpecTypeOK
  <2>3. phase' \in {"collecting", "crashed"} /\ phase = "collecting" /\ error' = error
    OBVIOUS
  <2> QED BY <2>1, <2>2, <2>3 DEF SpecTypeOK
<1>2. TableFollowsPlan' /\ NamesDistinct'
  BY DEF TableFollowsPlan, NamesDistinct, NameOf, SpecializedName
<1>3. PassedArePlanned'
  <2>1. CASE cut'
    BY <2>1 DEF PassedArePlanned
  <2>2. CASE ~ cut' /\ UNCHANGED <<functions, plan, at, stmt, cut>>
    BY <2>2 DEF PassedArePlanned, Early, Planned
  <2> QED BY <2>1, <2>2 DEF SpecTypeOK
<1>4. Outcome'
  BY DEF Outcome
<1> QED BY <1>1, <1>2, <1>3, <1>4

\* The call at hand is a call of a generic function.
LEMMA CallAtHand ==
    ASSUME SpecTypeOK, Walking, stmt <= Len(Body)
    PROVE  /\ Len(functions) \in Nat /\ at \in 1 .. Len(functions)
           /\ Len(Body) \in Nat /\ stmt \in 1 .. Len(Body)
           /\ Body[stmt] \in Calls
<1>1. Len(functions) \in Nat /\ at \in 1 .. Len(functions)
  BY DEF SpecTypeOK, Walking
<1>2. functions[at] \in Instances
  BY <1>1 DEF SpecTypeOK
<1>3. Body \in Seq(Calls)
  BY <1>2 DEF Instances, Body
<1>4. Len(Body) \in Nat /\ stmt \in 1 .. Len(Body)
  BY <1>3 DEF SpecTypeOK
<1> QED BY <1>1, <1>3, <1>4

\* Going on to the next statement after the call was planned.
LEMMA PassedGrows ==
    ASSUME SpecTypeOK, PassedArePlanned, Walking, stmt <= Len(Body),
           \E i \in 1 .. Len(plan') : plan'[i] = Body[stmt],
           Len(plan) <= Len(plan') /\ Len(plan') \in Nat,
           \A i \in 1 .. Len(plan) : plan'[i] = plan[i],
           Len(functions) <= Len(functions') /\ Len(functions') \in Nat,
           \A i \in 1 .. Len(functions) : functions'[i] = functions[i],
           at' = at, stmt' = stmt + 1, cut' = cut
    PROVE  PassedArePlanned'
<1>1. /\ Len(functions) \in Nat /\ at \in 1 .. Len(functions)
      /\ Len(Body) \in Nat /\ stmt \in 1 .. Len(Body)
  BY CallAtHand
<1>2. Len(plan) \in Nat
  BY DEF SpecTypeOK
<1> DEFINE Kept(c) == \E k \in 1 .. Len(plan') : plan'[k] = c
<1>3. ASSUME NEW c, Planned(c) PROVE Kept(c)
  BY <1>2, <1>3 DEF Planned
<1>4. Kept(Body[stmt])
  OBVIOUS
<1> HIDE DEF Kept
<1> SUFFICES ASSUME ~ cut PROVE PassedArePlanned'
  BY DEF PassedArePlanned
<1>5. ~ Early
  BY DEF Early, Walking
<1>6. ASSUME NEW i \in 1 .. Len(functions'), i < at',
             NEW n \in 1 .. Len(functions'[i].calls)
      PROVE  Kept(functions'[i].calls[n])
  <2>1. i \in 1 .. Len(functions) /\ i < at /\ functions'[i] = functions[i]
    BY SMTT(20), <1>1, <1>6
  <2>2. Planned(functions[i].calls[n])
    BY <1>5, <1>6, <2>1 DEF PassedArePlanned
  <2> QED BY <2>1, <2>2, <1>3
<1>7. ASSUME NEW n \in 1 .. Len(functions'[at'].calls), n < stmt'
      PROVE  Kept(functions'[at'].calls[n])
  <2>1. functions'[at'] = functions[at] /\ at' = at
    BY <1>1
  <2>2. n \in 1 .. Len(Body) /\ n < stmt + 1
    BY <1>7, <2>1 DEF Body
  <2>3. CASE n = stmt
    BY <2>1, <2>3, <1>4 DEF Body
  <2>4. CASE n < stmt
    <3>1. Planned(functions[at].calls[n])
      BY SMTT(20), <1>1, <1>5, <2>2, <2>4 DEF PassedArePlanned, Body
    <3> QED BY <2>1, <3>1, <1>3
  <2> QED BY <1>1, <2>2, <2>3, <2>4
<1>8. \A i \in 1 .. Len(functions') : i < at' =>
         \A n \in 1 .. Len(functions'[i].calls) : Kept(functions'[i].calls[n])
  BY <1>6
<1>9. \A n \in 1 .. Len(functions'[at'].calls) : n < stmt' => Kept(functions'[at'].calls[n])
  BY <1>7
<1> QED BY <1>8, <1>9 DEF PassedArePlanned, Planned, Kept

LEMMA CollectCallHolds == SpecInv /\ CollectCall => SpecInv'
<1> SUFFICES ASSUME SpecInv, CollectCall PROVE SpecInv'
  OBVIOUS
<1> DEFINE c == Body[stmt]
<1>1. SpecTypeOK /\ Walking /\ stmt <= Len(Body)
  BY DEF SpecInv, CollectCall
<1>2. /\ Len(functions) \in Nat /\ at \in 1 .. Len(functions)
      /\ Len(Body) \in Nat /\ stmt \in 1 .. Len(Body) /\ c \in Calls
  BY <1>1, CallAtHand
<1>3. /\ Len(plan) \in Nat /\ plan \in Seq(Calls) /\ functions \in Seq(Instances)
      /\ phase = "collecting" /\ error = "none" /\ Len(Plain) \in Nat
  BY <1>1, PlainFacts DEF SpecTypeOK, SpecInv, Outcome, Walking
<1>4. Len(functions) = Len(Plain) + Len(plan)
  BY <1>1, <1>2, <1>3 DEF SpecTypeOK
<1>5. stmt + 1 \in Nat \ {0}
  BY <1>2
<1>6. CASE /\ AddResult(c) = "present"
           /\ stmt' = stmt + 1 /\ UNCHANGED <<phase, error, functions, cap, plan, moved>>
           /\ UNCHANGED <<program, limit, at, cut>>
  <2>1. SpecTypeOK'
    BY <1>1, <1>5, <1>6 DEF SpecTypeOK
  <2>2. TableFollowsPlan' /\ NamesDistinct' /\ Outcome'
    BY <1>3, <1>6 DEF SpecInv, TableFollowsPlan, NamesDistinct, NameOf, SpecializedName, Outcome
  <2>3. Planned(c)
    BY <1>6 DEF AddResult
  <2>4. PassedArePlanned'
    BY <1>1, <1>2, <1>3, <1>6, <2>3, PassedGrows DEF SpecInv, Planned
  <2> QED BY <2>1, <2>2, <2>4 DEF SpecInv
<1>7. CASE /\ \/ AddResult(c) \in {"limit", "collision"} /\ UNCHANGED plan
                  /\ error' = AddResult(c)
              \/ /\ plan' = Append(plan, c) /\ error' = "existing"
           /\ phase' = "unsupported" /\ UNCHANGED <<functions, cap, moved, stmt>>
           /\ UNCHANGED <<program, limit, at, cut>>
  <2>1. error' \in {"limit", "collision", "existing"}
    BY <1>7
  <2>2. /\ plan' \in Seq(Calls) /\ Len(plan') \in Nat
        /\ Len(functions') + (IF error' = "existing" THEN 1 ELSE 0) = Len(Plain) + Len(plan')
        /\ \A i \in 1 .. Len(plan') : Len(Plain) + i <= Len(functions') =>
              i \in 1 .. Len(plan) /\ plan'[i] = plan[i]
        /\ \A i \in 1 .. Len(plan) : \E k \in 1 .. Len(plan') : plan'[k] = plan[i]
    <3>1. CASE error' = "existing" /\ plan' = Append(plan, c)
      BY <1>2, <1>3, <1>4, <1>7, <3>1
    <3>2. CASE error' # "existing" /\ plan' = plan
      BY <1>2, <1>3, <1>4, <1>7, <3>2
    <3> QED BY <1>7, <3>1, <3>2
  <2>3. SpecTypeOK'
    BY <1>1, <1>7, <2>1, <2>2 DEF SpecTypeOK
  <2>4. TableFollowsPlan'
    <3>1. \A i \in 1 .. Len(functions) : i <= Len(Plain) => functions[i].source = Plain[i]
      BY DEF SpecInv, TableFollowsPlan
    <3>2. ASSUME NEW i \in 1 .. Len(plan'), Len(Plain) + i <= Len(functions')
          PROVE  /\ functions'[Len(Plain) + i].source = plan'[i].to
                 /\ functions'[Len(Plain) + i].arg = plan'[i].arg
      BY <2>2, <3>2, <1>7 DEF SpecInv, TableFollowsPlan
    <3> QED BY <1>7, <3>1, <3>2 DEF TableFollowsPlan
  <2>5. NamesDistinct'
    BY <1>7 DEF SpecInv, NamesDistinct, NameOf, SpecializedName
  <2>6. PassedArePlanned'
    <3> SUFFICES ASSUME ~ cut PROVE PassedArePlanned'
      BY <1>7 DEF PassedArePlanned
    <3>1. ~ Early
      BY <1>3 DEF Early
    <3>2. \A d : Planned(d) => \E k \in 1 .. Len(plan') : plan'[k] = d
      BY <2>2 DEF Planned
    <3>3. \A i \in 1 .. Len(functions) : i < at =>
             \A n \in 1 .. Len(functions[i].calls) :
                \E k \in 1 .. Len(plan') : plan'[k] = functions[i].calls[n]
      BY <3>1, <3>2 DEF SpecInv, PassedArePlanned
    <3>4. at <= Len(functions) =>
             \A n \in 1 .. Len(functions[at].calls) : n < stmt =>
                \E k \in 1 .. Len(plan') : plan'[k] = functions[at].calls[n]
      BY <3>1, <3>2 DEF SpecInv, PassedArePlanned
    <3> QED BY <1>7, <3>3, <3>4 DEF PassedArePlanned, Planned
  <2>7. Outcome'
    BY <1>3, <1>7, <2>1 DEF Outcome
  <2> QED BY <2>3, <2>4, <2>5, <2>6, <2>7 DEF SpecInv
<1>8. CASE /\ AddResult(c) = "added" /\ ~ HasName(SpecializedName(c))
           /\ plan' = Append(plan, c) /\ Push(c)
           /\ UNCHANGED <<program, limit, at, cut>>
  <2> DEFINE inst == Instance(c.to, c.arg, Substituted(c))
  <2>1. inst \in Instances /\ c.to \in Generics
    BY <1>1, <1>2, SubstitutedCalls DEF Instance, Instances, Calls
  <2>2. /\ functions' = Append(functions, inst)
        /\ stmt' = stmt + 1 /\ phase' = phase /\ error' = error
        /\ cap' = Grown(cap, Len(functions) + 1)
    BY <1>8 DEF Push
  <2>3. /\ functions' \in Seq(Instances) /\ Len(functions') = Len(functions) + 1
        /\ functions'[Len(functions) + 1] = inst
        /\ \A i \in 1 .. Len(functions) : functions'[i] = functions[i]
    BY <1>2, <1>3, <2>1, <2>2
  <2>4. /\ plan' \in Seq(Calls) /\ Len(plan') = Len(plan) + 1
        /\ plan'[Len(plan) + 1] = c /\ \A i \in 1 .. Len(plan) : plan'[i] = plan[i]
    BY <1>2, <1>3, <1>8
  <2>5. SpecTypeOK'
    <3>1. cap' \in Nat /\ Len(functions') <= cap'
      BY <1>1, <2>2, <2>3, GrownHolds
    <3>2. moved' \in BOOLEAN
      BY <1>1, <1>8 DEF Push, SpecTypeOK
    <3>3. /\ at' <= Len(functions') + 1 /\ stmt' \in Nat \ {0}
          /\ Len(functions') = Len(Plain) + Len(plan')
      BY <1>2, <1>3, <1>4, <1>5, <1>8, <2>2, <2>3, <2>4
    <3>4. Len(functions') + (IF error' = "existing" THEN 1 ELSE 0) = Len(Plain) + Len(plan')
      BY <1>2, <1>3, <2>2, <2>3, <3>3
    <3> QED BY <1>1, <1>3, <1>8, <2>2, <2>3, <2>4, <3>1, <3>2, <3>3, <3>4 DEF SpecTypeOK
  <2>6. TableFollowsPlan'
    <3>1. \A i \in 1 .. Len(functions') : i <= Len(Plain) => functions'[i].source = Plain[i]
      BY <1>2, <1>3, <1>4, <2>3 DEF SpecInv, TableFollowsPlan
    <3>2. ASSUME NEW i \in 1 .. Len(plan')
          PROVE  /\ functions'[Len(Plain) + i].source = plan'[i].to
                 /\ functions'[Len(Plain) + i].arg = plan'[i].arg
      <4>1. CASE i = Len(plan) + 1
        BY <1>2, <1>3, <1>4, <2>3, <2>4, <4>1 DEF Instance
      <4>2. CASE i \in 1 .. Len(plan)
        <5>1. Len(Plain) + i \in 1 .. Len(functions) /\ Len(Plain) + i <= Len(functions)
          BY <1>2, <1>3, <1>4, <4>2
        <5>2. /\ functions[Len(Plain) + i].source = plan[i].to
              /\ functions[Len(Plain) + i].arg = plan[i].arg
          BY <4>2, <5>1 DEF SpecInv, TableFollowsPlan
        <5> QED BY <2>3, <2>4, <4>2, <5>1, <5>2
      <4> QED BY <1>3, <2>4, <4>1, <4>2
    <3> QED BY <3>1, <3>2 DEF TableFollowsPlan
  <2>7. NamesDistinct'
    <3>1. NameOf(inst) = SpecializedName(c)
      BY <2>1, PlainFacts DEF NameOf, SpecializedName, Instance, Call
    <3> QED BY <1>1, <1>8, <2>1, <2>2, <3>1, NamesStayDistinct DEF SpecInv
  <2>8. PassedArePlanned'
    <3>1. /\ \E i \in 1 .. Len(plan') : plan'[i] = Body[stmt]
          /\ Len(plan) <= Len(plan') /\ Len(plan') \in Nat
          /\ Len(functions) <= Len(functions') /\ Len(functions') \in Nat
      <4>1. Len(plan) + 1 \in 1 .. Len(plan') /\ Len(plan) <= Len(plan') /\ Len(plan') \in Nat
        BY <1>3, <2>4
      <4>2. Len(functions) <= Len(functions') /\ Len(functions') \in Nat
        BY <1>2, <2>3
      <4>3. plan'[Len(plan) + 1] = Body[stmt]
        BY <2>4
      <4> QED BY <4>1, <4>2, <4>3
    <3>2. at' = at /\ stmt' = stmt + 1 /\ cut' = cut /\ PassedArePlanned
      BY <1>8, <2>2 DEF SpecInv
    <3> QED BY <1>1, <2>3, <2>4, <3>1, <3>2, PassedGrows
  <2>9. Outcome'
    BY <1>3, <1>8, <2>2 DEF Outcome
  <2> QED BY <2>5, <2>6, <2>7, <2>8, <2>9 DEF SpecInv
<1>9. AddResult(c) \in {"present", "limit", "collision", "added"}
  BY DEF AddResult
<1> QED BY <1>6, <1>7, <1>8, <1>9 DEF CollectCall, Unsupported

\* A planned call has an instance in the table of an error-free walk.
LEMMA PlannedIsListed ==
    ASSUME SpecInv, ~ Early, error = "none", NEW c \in Calls, Planned(c)
    PROVE  \E k \in 1 .. Len(functions) :
               /\ functions[k].source = c.to /\ functions[k].arg = c.arg
               /\ NameOf(functions[k]) = SpecializedName(c)
<1>1. PICK i \in 1 .. Len(plan) : plan[i] = c
  BY DEF Planned
<1>2. /\ Len(plan) \in Nat /\ Len(functions) \in Nat /\ Len(Plain) \in Nat
      /\ Len(functions) = Len(Plain) + Len(plan)
  <2>1. Len(plan) \in Nat /\ Len(functions) \in Nat /\ Len(Plain) \in Nat
    BY PlainFacts DEF SpecInv, SpecTypeOK
  <2> QED BY <2>1 DEF SpecInv, SpecTypeOK, Early
<1>3. Len(Plain) + i \in 1 .. Len(functions) /\ Len(Plain) + i <= Len(functions)
  BY <1>2
<1>4. functions[Len(Plain) + i].source = c.to /\ functions[Len(Plain) + i].arg = c.arg
  BY <1>1, <1>3 DEF SpecInv, TableFollowsPlan
<1>5. c.to \in Generics /\ c.to \notin PlainNames
  BY PlainFacts DEF Calls
<1>6. NameOf(functions[Len(Plain) + i]) = SpecializedName(c)
  BY <1>4, <1>5 DEF NameOf, SpecializedName, Call
<1> QED BY <1>3, <1>4, <1>6

\* The first function of a name is found when there is one.
LEMMA FoundExists ==
    ASSUME SpecTypeOK, NEW c, NEW k \in 1 .. Len(functions),
           NameOf(functions[k]) = SpecializedName(c)
    PROVE  Found(c) # {}
<1> DEFINE S == {i \in 1 .. Len(functions) : NameOf(functions[i]) = SpecializedName(c)}
<1>1. Len(functions) \in Nat
  BY DEF SpecTypeOK
<1>2. S \in SUBSET Nat /\ S # {}
  BY <1>1
<1>3. PICK m \in S : \A y \in S : m <= y
  BY <1>2, LeastNat
<1>4. ASSUME NEW j \in 1 .. m - 1 PROVE NameOf(functions[j]) # SpecializedName(c)
  BY <1>1, <1>2, <1>3
<1> QED BY <1>3, <1>4 DEF Found

\* After a walk that cut nothing every call of the table is planned.
LEMMA AllPlanned ==
    ASSUME SpecInv, ~ Early, ~ cut, at > Len(functions),
           NEW i \in 1 .. Len(functions), NEW c \in Range(functions[i].calls)
    PROVE  Planned(c) /\ c \in Calls
<1>1. Len(functions) \in Nat /\ at \in Nat
  BY DEF SpecInv, SpecTypeOK
<1>2. functions[i] \in Instances
  BY DEF SpecInv, SpecTypeOK
<1>3. functions[i].calls \in Seq(Calls)
  BY <1>2 DEF Instances
<1>4. PICK n \in 1 .. Len(functions[i].calls) : c = functions[i].calls[n]
  BY <1>3 DEF Range
<1>5. i < at
  BY <1>1
<1>6. Planned(functions[i].calls[n])
  BY <1>4, <1>5 DEF SpecInv, PassedArePlanned
<1> QED BY <1>3, <1>4, <1>6

LEMMA LowerHolds == SpecInv /\ Lower => SpecInv'
<1> SUFFICES ASSUME SpecInv, Lower PROVE SpecInv'
  OBVIOUS
<1>1. /\ phase = "collecting" /\ ~ Early /\ error = "none" /\ at > Len(functions)
      /\ at = Len(functions) + 1
  <2>1. phase = "collecting" /\ error = "none" /\ at > Len(functions)
    BY DEF SpecInv, Outcome, Lower
  <2>2. Len(functions) \in Nat /\ at \in Nat /\ at <= Len(functions) + 1
    BY DEF SpecInv, SpecTypeOK
  <2> QED BY <2>1, <2>2 DEF Early
<1>2. ~ cut => phase' = "lowered"
  <2> SUFFICES ASSUME ~ cut, NEW i \in 1 .. Len(functions), NEW c \in Range(functions[i].calls)
               PROVE  Found(c) # {}
    BY DEF Lower
  <2>1. Planned(c) /\ c \in Calls
    BY <1>1, AllPlanned
  <2>2. PICK k \in 1 .. Len(functions) : NameOf(functions[k]) = SpecializedName(c)
    BY <1>1, <2>1, PlannedIsListed
  <2> QED BY <2>2, FoundExists DEF SpecInv
<1>3. /\ phase' \in {"lowered", "unsupported"} /\ error' \in {"none", "missing"}
      /\ phase' = "lowered" => error' = "none"
      /\ UNCHANGED <<program, functions, cap, plan, limit, at, stmt, moved, cut>>
  BY <1>1 DEF Lower
<1>4. SpecTypeOK'
  BY <1>1, <1>3 DEF SpecInv, SpecTypeOK
<1>5. TableFollowsPlan' /\ NamesDistinct'
  BY <1>3 DEF SpecInv, TableFollowsPlan, NamesDistinct, NameOf, SpecializedName
<1>6. PassedArePlanned'
  BY <1>1, <1>3 DEF SpecInv, PassedArePlanned, Planned
<1>7. Outcome'
  BY <1>1, <1>2, <1>3 DEF Outcome
<1> QED BY <1>4, <1>5, <1>6, <1>7 DEF SpecInv

LEMMA StepHolds == SpecInv /\ [Next]_vars => SpecInv'
<1>1. SpecInv /\ UNCHANGED vars => SpecInv'
  <2> SUFFICES ASSUME SpecInv, UNCHANGED vars PROVE SpecInv'
    OBVIOUS
  <2> USE DEF vars
  <2>1. SpecTypeOK'
    BY DEF SpecInv, SpecTypeOK
  <2>2. TableFollowsPlan' /\ NamesDistinct'
    BY DEF SpecInv, TableFollowsPlan, NamesDistinct, NameOf, SpecializedName
  <2>3. PassedArePlanned' /\ Outcome'
    BY DEF SpecInv, PassedArePlanned, Planned, Early, Outcome
  <2> QED BY <2>1, <2>2, <2>3 DEF SpecInv
<1> QED BY <1>1, CheckHolds, ClonePlainHolds, StartWalkHolds, CollectCallHolds,
           NextFunctionHolds, StaleReadHolds, LowerHolds DEF Next

LEMMA AlwaysSpecInv == Spec => []SpecInv
BY InitHolds, StepHolds, PTL DEF Spec

\* The types and sizes hold in every reachable state, whatever the programs
\* and the limits: the vector never outgrows its capacity, and plan and
\* table stay one list.
THEOREM SpecTypeCorrect == Spec => []SpecTypeOK
BY AlwaysSpecInv, PTL DEF SpecInv

\* For every program, limit and mangling, a generic call is compiled to the
\* instance of its callee with its type arguments, or the program refused.
THEOREM CallsFindTheirOwn == Spec => []CallsFindTheirInstance
<1>1. SpecInv => CallsFindTheirInstance
  <2> SUFFICES ASSUME SpecInv, phase = "lowered", ~ cut,
                      NEW i \in 1 .. Len(functions), NEW c \in Range(functions[i].calls),
                      NEW k \in Found(c)
               PROVE  functions[k].source = c.to /\ functions[k].arg = c.arg
    BY DEF CallsFindTheirInstance
  <2>1. ~ Early /\ error = "none" /\ at = Len(functions) + 1 /\ Len(functions) \in Nat
    BY DEF Early, SpecInv, Outcome, SpecTypeOK
  <2>2. Planned(c) /\ c \in Calls
    BY <2>1, AllPlanned
  <2>3. PICK j \in 1 .. Len(functions) :
           /\ functions[j].source = c.to /\ functions[j].arg = c.arg
           /\ NameOf(functions[j]) = SpecializedName(c)
    BY <2>1, <2>2, PlannedIsListed
  <2>4. k = j
    BY <2>3 DEF Found, SpecInv, NamesDistinct
  <2> QED BY <2>3, <2>4
<1> QED BY <1>1, AlwaysSpecInv, PTL

\* For every program the worklist misses no call, those of the instances it
\* adds included, unless a body was read after the vector moved.
THEOREM NoCallIsMissed == Spec => []NothingMissing
<1>1. SpecInv => NothingMissing
  BY DEF SpecInv, Outcome, NothingMissing
<1> QED BY <1>1, AlwaysSpecInv, PTL


-----------------------------------------------------------------------------
\* What the plain functions reach in n steps, unfolded: at first what they
\* call, and in each further step what the calls reached so far make.
IsReach(f, n) ==
    f = [k \in 0 .. n |-> IF k = 0 THEN Roots
                          ELSE f[k - 1] \cup UNION {CallsIn(c) : c \in f[k - 1]}]

LEMMA ReachExists == \A n \in Nat : \E f : IsReach(f, n)
<1> DEFINE S == {n \in Nat : ~ \E f : IsReach(f, n)}
<1> SUFFICES ASSUME S # {} PROVE FALSE
  OBVIOUS
<1>1. PICK m \in S : \A n \in S : m <= n
  BY LeastNat
<1>2. CASE m = 0
  <2> DEFINE f == [k \in 0 .. 0 |-> Roots]
  <2>1. IsReach(f, 0)
    BY DEF IsReach
  <2> QED BY <1>1, <1>2, <2>1
<1>3. CASE m # 0
  <2>1. m - 1 \in Nat /\ m - 1 \notin S
    BY <1>1, <1>3
  <2>2. PICK f : IsReach(f, m - 1)
    BY <2>1
  <2> DEFINE g == [k \in 0 .. m |-> IF k = m THEN f[m - 1] \cup UNION {CallsIn(c) : c \in f[m - 1]}
                                    ELSE f[k]]
  <2>3. \A k \in 0 .. m - 1 : f[k] = IF k = 0 THEN Roots
                                     ELSE f[k - 1] \cup UNION {CallsIn(c) : c \in f[k - 1]}
    BY <2>2 DEF IsReach
  <2>4. \A k \in 0 .. m - 1 : g[k] = f[k]
    BY <2>1
  <2>5. ASSUME NEW k \in 0 .. m
        PROVE  g[k] = IF k = 0 THEN Roots ELSE g[k - 1] \cup UNION {CallsIn(c) : c \in g[k - 1]}
    <3>1. CASE k = 0
      <4>1. 0 \in 0 .. m - 1
        BY <2>1
      <4>2. g[0] = f[0] /\ f[0] = Roots
        BY <2>3, <2>4, <4>1
      <4> HIDE DEF g
      <4> QED BY <3>1, <4>2
    <3>2. CASE k # 0
      <4>1. k - 1 \in 0 .. m - 1 /\ g[k - 1] = f[k - 1]
        BY <2>1, <2>4, <3>2
      <4>2. g[k] = f[k - 1] \cup UNION {CallsIn(c) : c \in f[k - 1]}
        <5>1. CASE k = m
          BY <5>1
        <5>2. CASE k # m
          <6>1. k \in 0 .. m - 1
            BY <2>1, <5>2
          <6> HIDE DEF g
          <6> QED BY <2>3, <2>4, <3>2, <6>1
        <5> QED BY <5>1, <5>2
      <4> HIDE DEF g
      <4> QED BY <3>2, <4>1, <4>2
    <3> QED BY <3>1, <3>2
  <2>6. g = [k \in 0 .. m |-> g[k]]
    OBVIOUS
  <2> HIDE DEF g
  <2>7. IsReach(g, m)
    BY <2>5, <2>6 DEF IsReach
  <2> QED BY <1>1, <2>7
<1> QED BY <1>2, <1>3

LEMMA ReachUnique ==
    ASSUME NEW f, NEW g, NEW n \in Nat, NEW m \in Nat, IsReach(f, n), IsReach(g, m)
    PROVE  \A k \in Nat : k <= n /\ k <= m => f[k] = g[k]
<1> DEFINE S == {k \in Nat : k <= n /\ k <= m /\ f[k] # g[k]}
<1> SUFFICES ASSUME S # {} PROVE FALSE
  OBVIOUS
<1>1. PICK k \in S : \A j \in S : k <= j
  BY LeastNat
<1>2. k \in 0 .. n /\ k \in 0 .. m
  OBVIOUS
<1>5. f[k] = IF k = 0 THEN Roots ELSE f[k - 1] \cup UNION {CallsIn(c) : c \in f[k - 1]}
  BY <1>2 DEF IsReach
<1>6. g[k] = IF k = 0 THEN Roots ELSE g[k - 1] \cup UNION {CallsIn(c) : c \in g[k - 1]}
  BY <1>2 DEF IsReach
<1>3. CASE k = 0
  BY <1>3, <1>5, <1>6
<1>4. CASE k # 0
  <2>1. f[k - 1] = g[k - 1]
    BY <1>1, <1>4
  <2> QED BY <1>4, <1>5, <1>6, <2>1
<1> QED BY <1>3, <1>4

LEMMA ReachSteps ==
    /\ Reach(0) = Roots
    /\ \A n \in Nat : Reach(n + 1) = Reach(n) \cup UNION {CallsIn(c) : c \in Reach(n)}
<1> DEFINE F(n) == CHOOSE f : IsReach(f, n)
<1>1. \A n \in Nat : Reach(n) = F(n)[n]
  BY DEF Reach, IsReach
<1>2. \A n \in Nat : IsReach(F(n), n)
  BY ReachExists
<1> HIDE DEF F
<1>3. Reach(0) = Roots
  BY <1>1, <1>2 DEF IsReach
<1>4. ASSUME NEW n \in Nat
      PROVE  Reach(n + 1) = Reach(n) \cup UNION {CallsIn(c) : c \in Reach(n)}
  <2>1. IsReach(F(n), n) /\ IsReach(F(n + 1), n + 1)
    BY <1>2
  <2>2. F(n + 1)[n] = F(n)[n]
    BY <2>1, ReachUnique
  <2>3. F(n + 1)[n + 1] = F(n + 1)[n] \cup UNION {CallsIn(c) : c \in F(n + 1)[n]}
    BY <2>1 DEF IsReach
  <2> QED BY <1>1, <2>2, <2>3
<1> QED BY <1>3, <1>4

LEMMA ReachGrows ==
    ASSUME NEW m \in Nat, NEW n \in Nat, m <= n
    PROVE  Reach(m) \subseteq Reach(n)
<1> DEFINE S == {k \in Nat : m <= k /\ ~ (Reach(m) \subseteq Reach(k))}
<1> SUFFICES ASSUME S # {} PROVE FALSE
  OBVIOUS
<1>1. PICK k \in S : \A j \in S : k <= j
  BY LeastNat
<1>2. k # m
  OBVIOUS
<1>3. k - 1 \in Nat /\ m <= k - 1 /\ k - 1 \notin S
  BY <1>1, <1>2
<1>4. Reach((k - 1) + 1) = Reach(k - 1) \cup UNION {CallsIn(c) : c \in Reach(k - 1)}
  BY <1>3, ReachSteps
<1> QED BY <1>3, <1>4

\* The calls a call makes, once its type argument is put in.
LEMMA CallsMade ==
    ASSUME SpecTypeOK, NEW c \in Calls
    PROVE  /\ CallsIn(c) \subseteq Calls /\ IsFiniteSet(CallsIn(c))
           /\ Range(Substituted(c)) = CallsIn(c)
<1> DEFINE s == program[c.to]
           G(d) == Call(d.to, Bound(d.arg, c.arg))
<1>1. s \in Seq(Calls)
  BY DEF SpecTypeOK, Calls
<1>2. DOMAIN s = 1 .. Len(s)
  BY <1>1
<1>3. Substituted(c) = [i \in 1 .. Len(s) |-> G(s[i])]
  BY DEF Substituted
<1>4. CallsIn(c) = {G(s[i]) : i \in 1 .. Len(s)}
  BY <1>2 DEF CallsIn, Range
<1>5. Substituted(c) \in Seq(Calls)
  BY SubstitutedCalls
<1> HIDE DEF s
<1>6. Range(Substituted(c)) = CallsIn(c)
  BY <1>3, <1>4 DEF Range
<1>7. CallsIn(c) = {Substituted(c)[i] : i \in 1 .. Len(Substituted(c))}
  BY <1>5, <1>6 DEF Range
<1>8. IsFiniteSet(CallsIn(c))
  BY <1>5, <1>7, FiniteRange
<1>9. CallsIn(c) \subseteq Calls
  BY <1>5, <1>7
<1> QED BY <1>6, <1>8, <1>9

LEMMA RootsFinite ==
    ASSUME SpecTypeOK
    PROVE  Roots \subseteq Calls /\ IsFiniteSet(Roots)
<1>1. \A f \in PlainNames : program[f] \in Seq(Calls)
  BY DEF SpecTypeOK
<1>2. ASSUME NEW f \in PlainNames
      PROVE  Range(program[f]) \subseteq Calls /\ IsFiniteSet(Range(program[f]))
  <2>1. program[f] \in Seq(Calls)
    BY <1>1
  <2>2. Range(program[f]) = {program[f][i] : i \in 1 .. Len(program[f])}
    BY <2>1 DEF Range
  <2> QED BY <2>1, <2>2, FiniteRange
<1>3. IsFiniteSet(PlainNames)
  <2>1. Plain \in Seq(PlainNames)
    BY SpecializeAssumption DEF SpecializeAssumption
  <2>2. PlainNames = {Plain[i] : i \in 1 .. Len(Plain)}
    BY <2>1 DEF PlainNames, Range
  <2> HIDE DEF PlainNames
  <2> QED BY <2>1, <2>2, FiniteRange
<1> DEFINE r == [f \in PlainNames |-> Range(program[f])]
           R == {r[f] : f \in PlainNames}
<1>4. IsFiniteSet(R)
  BY <1>3, FiniteImage
<1>5. \A T \in R : IsFiniteSet(T)
  BY <1>2
<1>6. IsFiniteSet(UNION R)
  BY <1>4, <1>5, FS_UNION
<1>7. Roots = UNION R
  BY DEF Roots
<1> QED BY <1>2, <1>6, <1>7

LEMMA ReachFinite ==
    ASSUME SpecTypeOK
    PROVE  \A n \in Nat : Reach(n) \subseteq Calls /\ IsFiniteSet(Reach(n))
<1> DEFINE S == {n \in Nat : ~ (Reach(n) \subseteq Calls /\ IsFiniteSet(Reach(n)))}
<1> SUFFICES ASSUME S # {} PROVE FALSE
  OBVIOUS
<1>1. PICK n \in S : \A j \in S : n <= j
  BY LeastNat
<1>2. CASE n = 0
  BY <1>2, ReachSteps, RootsFinite
<1>3. CASE n # 0
  <2> DEFINE P == Reach(n - 1)
             h == [c \in P |-> CallsIn(c)]
             H == {h[c] : c \in P}
  <2>1. n - 1 \in Nat /\ n - 1 \notin S
    BY <1>1, <1>3
  <2>2. P \subseteq Calls /\ IsFiniteSet(P)
    BY <2>1
  <2>3. Reach((n - 1) + 1) = P \cup UNION {CallsIn(c) : c \in P}
    BY <2>1, ReachSteps
  <2>4. (n - 1) + 1 = n
    OBVIOUS
  <2>5. UNION {CallsIn(c) : c \in P} = UNION H
    OBVIOUS
  <2> HIDE DEF P
  <2>6. \A T \in H : IsFiniteSet(T) /\ T \subseteq Calls
    BY <2>2, CallsMade
  <2>7. IsFiniteSet(H)
    BY <2>2, FiniteImage
  <2>8. IsFiniteSet(UNION H) /\ UNION H \subseteq Calls
    BY <2>6, <2>7, FS_UNION
  <2> HIDE DEF H
  <2>9. IsFiniteSet(P \cup UNION H)
    BY <2>2, <2>8, FS_Union
  <2>10. Reach(n) \subseteq Calls /\ IsFiniteSet(Reach(n))
    BY <2>2, <2>3, <2>4, <2>5, <2>8, <2>9
  <2> QED BY <2>10
<1> QED BY <1>2, <1>3

\* Nothing reached changes while the program does not.
LEMMA SameProgram ==
    ASSUME program' = program
    PROVE  /\ Roots' = Roots
           /\ \A c : CallsIn(c)' = CallsIn(c)
           /\ \A n : Reach(n)' = Reach(n)
<1>1. Roots' = Roots
  BY DEF Roots
<1>2. \A c : CallsIn(c)' = CallsIn(c)
  BY DEF CallsIn
<1>3. \A n : Reach(n)' = Reach(n)
  BY DEF Reach, Roots, CallsIn
<1> QED BY <1>1, <1>2, <1>3


\* The plan holds what is reached, entry by entry, and the table has the
\* calls that its entries make.
PlanReached ==
    /\ \A i \in 1 .. Len(functions) :
          i <= Len(Plain) => Range(functions[i].calls) \subseteq Roots
    /\ \A k \in 1 .. Len(plan) :
          /\ plan[k] \in Reach(k)
          /\ Len(Plain) + k <= Len(functions) =>
                Range(functions[Len(Plain) + k].calls) = CallsIn(plan[k])

RefusalInv == PlanReached /\ RefusalsAreTrue

LEMMA CallIsReached ==
    ASSUME SpecInv, PlanReached, Walking, stmt <= Len(Body)
    PROVE  /\ Body[stmt] \in Reach(Len(plan) + 1) /\ Body[stmt] \in Calls
           /\ Body[stmt] \in Reached
           /\ Len(functions) = Len(Plain) + Len(plan) /\ Len(plan) \in Nat
           /\ \A k \in 1 .. Len(plan) : plan[k] \in Reached
<1>1. SpecTypeOK
  BY DEF SpecInv
<1>2. /\ Len(functions) \in Nat /\ at \in 1 .. Len(functions)
      /\ stmt \in 1 .. Len(Body) /\ Body[stmt] \in Calls
  BY <1>1, CallAtHand
<1>3. /\ Len(plan) \in Nat /\ Len(Plain) \in Nat
      /\ Len(functions) = Len(Plain) + Len(plan)
  <2>1. Len(plan) \in Nat /\ Len(Plain) \in Nat /\ phase = "collecting" /\ error = "none"
    BY PlainFacts DEF SpecInv, SpecTypeOK, Outcome, Walking
  <2> QED BY <1>2, <2>1 DEF SpecInv, SpecTypeOK
<1>4. Body[stmt] \in Range(functions[at].calls)
  <2>1. functions[at] \in Instances
    BY <1>1, <1>2 DEF SpecTypeOK
  <2>2. functions[at].calls \in Seq(Calls)
    BY <2>1 DEF Instances
  <2> QED BY <1>2, <2>2 DEF Body, Range
<1>5. Body[stmt] \in Reach(Len(plan) + 1)
  <2>1. CASE at <= Len(Plain)
    <3>1. Body[stmt] \in Reach(0)
      BY <1>2, <1>4, <2>1, ReachSteps DEF PlanReached
    <3> QED BY <1>3, <3>1, ReachGrows
  <2>2. CASE ~ (at <= Len(Plain))
    <3> DEFINE k == at - Len(Plain)
    <3>1. k \in 1 .. Len(plan) /\ k \in Nat /\ at = Len(Plain) + k /\ k + 1 <= Len(plan) + 1
      BY <1>2, <1>3, <2>2
    <3>2. plan[k] \in Reach(k) /\ Range(functions[at].calls) = CallsIn(plan[k])
      BY <1>2, <3>1 DEF PlanReached
    <3> HIDE DEF k
    <3>3. Body[stmt] \in Reach(k + 1)
      BY <1>4, <3>1, <3>2, ReachSteps
    <3> QED BY <1>3, <3>1, <3>3, ReachGrows
  <2> QED BY <2>1, <2>2
<1>6. \A k \in 1 .. Len(plan) + 1 : Reach(k) \subseteq Reached
  BY <1>3, ReachGrows DEF Reached
<1>7. Body[stmt] \in Reached
  <2>1. Len(plan) + 1 \in 1 .. Len(plan) + 1
    BY <1>3
  <2> QED BY <1>5, <1>6, <2>1
<1>8. \A k \in 1 .. Len(plan) : plan[k] \in Reached
  BY <1>3, <1>6 DEF PlanReached
<1> QED BY <1>2, <1>3, <1>5, <1>7, <1>8

\* Steps that keep the table and the plan, and fail for no such reason.
LEMMA PlanReachedStays ==
    ASSUME RefusalInv, UNCHANGED <<program, functions, plan, limit>>,
           error' \in {error, "none", "recursion", "missing"}
    PROVE  RefusalInv'
<1>1. /\ Roots' = Roots /\ \A c : CallsIn(c)' = CallsIn(c) /\ \A n : Reach(n)' = Reach(n)
  BY SameProgram
<1>2. PlanReached'
  BY <1>1 DEF RefusalInv, PlanReached
<1>3. Reached' = Reached
  BY <1>1 DEF Reached
<1>4. RefusalsAreTrue'
  BY <1>3 DEF RefusalInv, RefusalsAreTrue, SpecializedName
<1> QED BY <1>2, <1>4 DEF RefusalInv

LEMMA ClonedAreRoots == SpecInv /\ RefusalInv /\ ClonePlain => RefusalInv'
<1> SUFFICES ASSUME SpecInv, RefusalInv, ClonePlain PROVE RefusalInv'
  OBVIOUS
<1> DEFINE f == Plain[Len(functions) + 1]
<1>1. /\ Len(functions) \in Nat /\ functions \in Seq(Instances)
      /\ Len(plan) = 0 /\ error = "none" /\ Len(Plain) \in Nat
  BY PlainFacts DEF SpecInv, SpecTypeOK, Outcome, ClonePlain
<1>2. /\ functions' = Append(functions, Instance(f, NoType, program[f]))
      /\ program' = program /\ plan' = plan /\ error' = error /\ Len(functions) < Len(Plain)
  BY DEF ClonePlain
<1>3. f \in PlainNames
  BY <1>1, <1>2, PlainFacts
<1>4. Roots' = Roots
  BY <1>2, SameProgram
<1>5. ASSUME NEW i \in 1 .. Len(functions')
      PROVE  Range(functions'[i].calls) \subseteq Roots
  <2>1. CASE i = Len(functions) + 1
    <3>1. functions'[i].calls = program[f]
      BY <1>1, <1>2, <2>1 DEF Instance
    <3> QED BY <1>3, <3>1 DEF Roots
  <2>2. CASE i # Len(functions) + 1
    <3>1. i \in 1 .. Len(functions) /\ functions'[i] = functions[i] /\ i <= Len(Plain)
      BY <1>1, <1>2, <2>2
    <3> QED BY <3>1 DEF RefusalInv, PlanReached
  <2> QED BY <2>1, <2>2
<1>6. PlanReached'
  BY <1>1, <1>2, <1>4, <1>5 DEF PlanReached
<1>7. RefusalsAreTrue'
  BY <1>1, <1>2 DEF RefusalsAreTrue
<1> QED BY <1>6, <1>7 DEF RefusalInv

\* A plan that is full, with a call that is not in it, is more than the
\* limit: its entries are distinct, since their names are.
LEMMA FullPlan ==
    ASSUME SpecInv, PlanReached, Walking, stmt <= Len(Body),
           ~ Planned(Body[stmt]), Len(plan) >= limit
    PROVE  Cardinality(Reached) > limit
<1> DEFINE c == Body[stmt]
           P == {plan[i] : i \in 1 .. Len(plan)}
<1>1. /\ c \in Reached /\ Len(functions) = Len(Plain) + Len(plan) /\ Len(plan) \in Nat
      /\ \A k \in 1 .. Len(plan) : plan[k] \in Reached
  BY CallIsReached
<1>2. /\ SpecTypeOK /\ Len(functions) \in Nat /\ Len(Plain) \in Nat /\ limit \in Nat
      /\ plan \in Seq(Calls) /\ DOMAIN plan = 1 .. Len(plan)
  BY PlainFacts DEF SpecInv, SpecTypeOK
<1>3. IsFiniteSet(Reached)
  BY <1>2, ReachFinite DEF Reached
<1>4. ASSUME NEW i \in 1 .. Len(plan), NEW j \in 1 .. Len(plan), plan[i] = plan[j]
      PROVE  i = j
  <2>1. /\ Len(Plain) + i \in 1 .. Len(functions) /\ Len(Plain) + j \in 1 .. Len(functions)
        /\ Len(Plain) + i <= Len(functions) /\ Len(Plain) + j <= Len(functions)
    BY <1>1, <1>2
  <2>2. NameOf(functions[Len(Plain) + i]) = NameOf(functions[Len(Plain) + j])
    BY <2>1, <1>4 DEF SpecInv, TableFollowsPlan, NameOf
  <2>3. Len(Plain) + i = Len(Plain) + j
    BY <2>1, <2>2 DEF SpecInv, NamesDistinct
  <2> QED BY <1>2, <2>3
<1>5. IsFiniteSet(P) /\ Cardinality(P) = Len(plan)
  <2>1. plan \in Surjection(1 .. Len(plan), P)
    BY <1>2 DEF Surjection
  <2>2. plan \in Injection(1 .. Len(plan), P)
    BY <1>4, <2>1 DEF Injection, Surjection, IsInjective
  <2>3. IsFiniteSet(1 .. Len(plan)) /\ Cardinality(1 .. Len(plan)) = Len(plan)
    <3>1. Len(plan) \in Int /\ 1 \in Int
      BY <1>1
    <3>2. /\ IsFiniteSet(1 .. Len(plan))
          /\ Cardinality(1 .. Len(plan)) = IF 1 > Len(plan) THEN 0 ELSE Len(plan) - 1 + 1
      BY <3>1, FS_Interval
    <3> QED BY <1>1, <3>2
  <2> HIDE DEF P
  <2> QED BY <2>1, <2>2, <2>3, FS_Surjection
<1>6. P \cup {c} \in SUBSET Reached
  BY <1>1
<1>7. c \notin P
  BY DEF Planned
<1> HIDE DEF P, c
<1>8. IsFiniteSet(P \cup {c}) /\ Cardinality(P \cup {c}) = Len(plan) + 1
  BY <1>5, <1>7, FS_AddElement
<1>9. Cardinality(P \cup {c}) <= Cardinality(Reached) /\ Cardinality(Reached) \in Nat
  BY <1>3, <1>6, FS_Subset, FS_CardinalityType
<1> QED BY <1>1, <1>2, <1>8, <1>9

LEMMA CollectedIsReached == SpecInv /\ RefusalInv /\ CollectCall => RefusalInv'
<1> SUFFICES ASSUME SpecInv, RefusalInv, CollectCall PROVE RefusalInv'
  OBVIOUS
<1> DEFINE c == Body[stmt]
<1>1. /\ Walking /\ stmt <= Len(Body) /\ PlanReached /\ program' = program /\ limit' = limit
  BY DEF CollectCall, RefusalInv
<1>2. /\ c \in Reach(Len(plan) + 1) /\ c \in Calls /\ c \in Reached
      /\ Len(functions) = Len(Plain) + Len(plan) /\ Len(plan) \in Nat
      /\ \A k \in 1 .. Len(plan) : plan[k] \in Reached
  BY <1>1, CallIsReached
<1>3. /\ SpecTypeOK /\ plan \in Seq(Calls) /\ functions \in Seq(Instances)
      /\ Len(functions) \in Nat /\ Len(Plain) \in Nat /\ error = "none"
  BY PlainFacts DEF SpecInv, SpecTypeOK, Outcome, Walking, CollectCall
<1>4. /\ Roots' = Roots /\ \A d : CallsIn(d)' = CallsIn(d) /\ \A n : Reach(n)' = Reach(n)
  BY <1>1, SameProgram
<1>5. AddResult(c) \in {"present", "collision", "limit", "added"}
  BY DEF AddResult
<1>6. CASE AddResult(c) = "present"
  <2>1. UNCHANGED <<program, functions, plan, limit, error>>
    BY <1>6 DEF CollectCall
  <2> QED BY <2>1, PlanReachedStays
<1>7. CASE AddResult(c) \in {"limit", "collision"}
  <2>1. UNCHANGED <<program, functions, plan, limit>> /\ error' = AddResult(c)
    BY <1>7 DEF CollectCall, Unsupported
  <2>2. PlanReached'
    BY <1>1, <1>4, <2>1 DEF PlanReached
  <2>3. Reached' = Reached
    BY <1>4, <2>1 DEF Reached
  <2>4. CASE AddResult(c) = "limit"
    <3>1. ~ Planned(c) /\ Len(plan) >= limit
      BY <2>4 DEF AddResult, Full, SameNamePlanned, Planned
    <3>2. Cardinality(Reached) > limit
      BY <1>1, <3>1, FullPlan
    <3>3. RefusalsAreTrue'
      BY <2>1, <2>3, <2>4, <3>2 DEF RefusalsAreTrue
    <3> QED BY <2>2, <3>3 DEF RefusalInv
  <2>5. CASE AddResult(c) = "collision"
    <3>1. SameNamePlanned(c) /\ ~ Planned(c)
      BY <2>5 DEF AddResult
    <3>2. PICK i \in 1 .. Len(plan) : SpecializedName(plan[i]) = SpecializedName(c)
      BY <3>1 DEF SameNamePlanned
    <3>3. plan[i] # c /\ plan[i] \in Reached
      BY <1>2, <3>1 DEF Planned
    <3>4. RefusalsAreTrue'
      BY <1>2, <2>1, <2>3, <2>5, <3>2, <3>3 DEF RefusalsAreTrue, SpecializedName
    <3> QED BY <2>2, <3>4 DEF RefusalInv
  <2> QED BY <1>7, <2>4, <2>5
<1>8. CASE AddResult(c) = "added"
  <2>1. plan' = Append(plan, c) /\ (IF HasName(SpecializedName(c)) THEN Unsupported("existing") ELSE Push(c))
    BY <1>8 DEF CollectCall
  <2>2. ~ SameNamePlanned(c)
    BY <1>8 DEF AddResult, SameNamePlanned, Planned
  <2>3. /\ Len(plan') = Len(plan) + 1 /\ plan'[Len(plan) + 1] = c
        /\ \A k \in 1 .. Len(plan) : plan'[k] = plan[k]
    BY <1>2, <1>3, <2>1
  <2>4. CASE HasName(SpecializedName(c))
    <3>1. UNCHANGED functions /\ error' = "existing"
      BY <2>1, <2>4 DEF Unsupported
    <3>2. PlanReached'
      <4>1. ASSUME NEW k \in 1 .. Len(plan')
            PROVE  /\ plan'[k] \in Reach(k)
                   /\ Len(Plain) + k <= Len(functions) =>
                         Range(functions[Len(Plain) + k].calls) = CallsIn(plan'[k])
        <5>1. CASE k = Len(plan) + 1
          BY <1>2, <1>3, <2>3, <5>1
        <5>2. CASE k # Len(plan) + 1
          <6>1. k \in 1 .. Len(plan)
            BY <1>2, <2>3, <5>2
          <6> QED BY <1>1, <2>3, <6>1 DEF PlanReached
        <5> QED BY <5>1, <5>2
      <4> QED BY <1>1, <1>4, <3>1, <4>1 DEF PlanReached
    <3>3. SpecializedName(c) \in PlainNames
      <4>1. PICK i \in 1 .. Len(functions) : NameOf(functions[i]) = SpecializedName(c)
        BY <2>4 DEF HasName
      <4>2. CASE i <= Len(Plain)
        BY <4>1, <4>2, <1>3, PlainFacts DEF SpecInv, TableFollowsPlan, NameOf
      <4>3. CASE ~ (i <= Len(Plain))
        <5> DEFINE k == i - Len(Plain)
        <5>1. k \in 1 .. Len(plan) /\ i = Len(Plain) + k /\ Len(Plain) + k <= Len(functions)
          BY <1>2, <1>3, <4>3
        <5>2. functions[i].source = plan[k].to /\ functions[i].arg = plan[k].arg
          BY <5>1 DEF SpecInv, TableFollowsPlan
        <5>3. plan[k] \in Calls
          BY <1>3, <5>1
        <5> HIDE DEF k
        <5>4. plan[k].to \notin PlainNames
          BY <5>3, PlainFacts DEF Calls
        <5>5. SpecializedName(plan[k]) = SpecializedName(c)
          BY <4>1, <5>2, <5>4 DEF NameOf, SpecializedName, Call
        <5> QED BY <2>2, <5>1, <5>5 DEF SameNamePlanned
      <4> QED BY <4>2, <4>3
    <3>4. Reached' = Reached
      BY <1>4, <3>1 DEF Reached
    <3>5. RefusalsAreTrue'
      BY <1>2, <3>1, <3>3, <3>4 DEF RefusalsAreTrue, SpecializedName
    <3> QED BY <3>2, <3>5 DEF RefusalInv
  <2>5. CASE ~ HasName(SpecializedName(c))
    <3> DEFINE f == Instance(c.to, c.arg, Substituted(c))
    <3>1. functions' = Append(functions, f) /\ error' = error
      BY <2>1, <2>5 DEF Push
    <3>2. /\ Len(functions') = Len(functions) + 1 /\ functions'[Len(functions) + 1] = f
          /\ \A i \in 1 .. Len(functions) : functions'[i] = functions[i]
      BY <1>3, <3>1
    <3>3. Range(f.calls) = CallsIn(c)
      BY <1>2, <1>3, CallsMade DEF Instance
    <3> HIDE DEF f
    <3>4. ASSUME NEW k \in 1 .. Len(plan')
          PROVE  /\ plan'[k] \in Reach(k)
                 /\ Range(functions'[Len(Plain) + k].calls) = CallsIn(plan'[k])
      <4>1. CASE k = Len(plan) + 1
        <5>1. Len(Plain) + k = Len(functions) + 1
          BY <1>2, <1>3, <4>1
        <5> QED BY <1>2, <2>3, <3>2, <3>3, <4>1, <5>1
      <4>2. CASE k # Len(plan) + 1
        <5>1. k \in 1 .. Len(plan) /\ Len(Plain) + k \in 1 .. Len(functions)
              /\ Len(Plain) + k <= Len(functions)
          BY <1>2, <1>3, <2>3, <4>2
        <5> QED BY <1>1, <2>3, <3>2, <5>1 DEF PlanReached
      <4> QED BY <4>1, <4>2
    <3>5. ASSUME NEW i \in 1 .. Len(functions'), i <= Len(Plain)
          PROVE  Range(functions'[i].calls) \subseteq Roots
      <4>1. i \in 1 .. Len(functions)
        BY <1>2, <1>3, <3>2, <3>5
      <4> QED BY <1>1, <3>2, <3>5, <4>1 DEF PlanReached
    <3>6. PlanReached'
      BY <1>4, <3>4, <3>5 DEF PlanReached
    <3>7. RefusalsAreTrue'
      BY <1>3, <3>1 DEF RefusalsAreTrue
    <3> QED BY <3>6, <3>7 DEF RefusalInv
  <2> QED BY <2>4, <2>5
<1> QED BY <1>5, <1>6, <1>7, <1>8

LEMMA AlwaysRefusalInv == Spec => []RefusalInv
<1>1. Init => RefusalInv
  <2> SUFFICES ASSUME Init PROVE RefusalInv
    OBVIOUS
  <2>1. Len(functions) = 0 /\ Len(plan) = 0 /\ error = "none"
    BY DEF Init
  <2> QED BY <2>1 DEF RefusalInv, PlanReached, RefusalsAreTrue
<1>2. SpecInv /\ RefusalInv /\ [Next]_vars => RefusalInv'
  <2> SUFFICES ASSUME SpecInv, RefusalInv, [Next]_vars PROVE RefusalInv'
    OBVIOUS
  <2>1. CASE ClonePlain
    BY <2>1, ClonedAreRoots
  <2>2. CASE CollectCall
    BY <2>2, CollectedIsReached
  <2>3. CASE Check \/ StartWalk \/ NextFunction \/ StaleRead \/ Lower \/ UNCHANGED vars
    <3>1. UNCHANGED <<program, functions, plan, limit>>
          /\ error' \in {error, "none", "recursion", "missing"}
      BY <2>3 DEF Check, StartWalk, NextFunction, StaleRead, Lower, vars
    <3> QED BY <3>1, PlanReachedStays
  <2> QED BY <2>1, <2>2, <2>3 DEF Next
<1> QED BY <1>1, <1>2, AlwaysSpecInv, PTL DEF Spec

\* For every program, limit and mangling: a program is refused for the limit
\* only if it needs more instances, and for a name only if two of its
\* functions have that name (z_specialization_plan_add).
THEOREM RefusalsHaveReasons == Spec => []RefusalsAreTrue
<1>1. RefusalInv => RefusalsAreTrue
  BY DEF RefusalInv
<1> QED BY <1>1, AlwaysRefusalInv, PTL


----------------------------------------------------------------------------
\* The contexts entered at each depth of the walk from an origin, unfolded.
IsEntered(e, origin, n) ==
    e = [depth \in 0 .. n |-> IF depth = 0 THEN {Call(origin, Type(Param, 0))}
                              ELSE EnteredFrom(origin, e[depth - 1])]

LEMMA EnteredExists == \A origin : \A n \in Nat : \E e : IsEntered(e, origin, n)
<1> SUFFICES ASSUME NEW origin PROVE \A n \in Nat : \E e : IsEntered(e, origin, n)
  OBVIOUS
<1> DEFINE S == {n \in Nat : ~ \E e : IsEntered(e, origin, n)}
           First == {Call(origin, Type(Param, 0))}
<1> SUFFICES ASSUME S # {} PROVE FALSE
  OBVIOUS
<1>1. PICK m \in S : \A n \in S : m <= n
  BY LeastNat
<1>2. CASE m = 0
  <2> DEFINE f == [k \in 0 .. 0 |-> First]
  <2>1. IsEntered(f, origin, 0)
    BY DEF IsEntered
  <2> QED BY <1>1, <1>2, <2>1
<1>3. CASE m # 0
  <2>1. m - 1 \in Nat /\ m - 1 \notin S
    BY <1>1, <1>3
  <2>2. PICK f : IsEntered(f, origin, m - 1)
    BY <2>1
  <2> DEFINE g == [k \in 0 .. m |-> IF k = m THEN EnteredFrom(origin, f[m - 1]) ELSE f[k]]
  <2>3. \A k \in 0 .. m - 1 : f[k] = IF k = 0 THEN First ELSE EnteredFrom(origin, f[k - 1])
    BY <2>2 DEF IsEntered
  <2>4. \A k \in 0 .. m - 1 : g[k] = f[k]
    BY <2>1
  <2>5. ASSUME NEW k \in 0 .. m
        PROVE  g[k] = IF k = 0 THEN First ELSE EnteredFrom(origin, g[k - 1])
    <3>1. CASE k = 0
      <4>1. 0 \in 0 .. m - 1
        BY <2>1
      <4>2. g[0] = f[0] /\ f[0] = First
        BY <2>3, <2>4, <4>1
      <4> HIDE DEF g
      <4> QED BY <3>1, <4>2
    <3>2. CASE k # 0
      <4>1. k - 1 \in 0 .. m - 1 /\ g[k - 1] = f[k - 1]
        BY <2>1, <2>4, <3>2
      <4>2. g[k] = EnteredFrom(origin, f[k - 1])
        <5>1. CASE k = m
          BY <5>1
        <5>2. CASE k # m
          <6>1. k \in 0 .. m - 1
            BY <2>1, <5>2
          <6> HIDE DEF g
          <6> QED BY <2>3, <2>4, <3>2, <6>1
        <5> QED BY <5>1, <5>2
      <4> HIDE DEF g
      <4> QED BY <3>2, <4>1, <4>2
    <3> QED BY <3>1, <3>2
  <2>6. g = [k \in 0 .. m |-> g[k]]
    OBVIOUS
  <2> HIDE DEF g
  <2>7. IsEntered(g, origin, m)
    BY <2>5, <2>6 DEF IsEntered
  <2> QED BY <1>1, <2>7
<1> QED BY <1>2, <1>3

\* The depth to which validate_recursive_generic_call_bindings walks.
DepthLimit == Cardinality(Generics) + Len(Plain) + 1

LEMMA GenericsFinite ==
    IsFiniteSet(Generics) /\ Cardinality(Generics) \in Nat /\ DepthLimit \in Nat
<1>1. IsFiniteSet(Generics)
  BY SpecializeAssumption DEF SpecializeAssumption
<1> QED BY <1>1, PlainFacts, FS_CardinalityType DEF DepthLimit

LEMMA ContextsEntered ==
    ASSUME NEW origin
    PROVE  \E e : /\ IsEntered(e, origin, DepthLimit)
                  /\ Contexts(origin) = UNION {e[depth] : depth \in 0 .. DepthLimit}
<1> DEFINE F == CHOOSE e : IsEntered(e, origin, DepthLimit)
<1>1. Contexts(origin) = UNION {F[depth] : depth \in 0 .. DepthLimit}
  BY DEF Contexts, IsEntered, DepthLimit
<1>2. IsEntered(F, origin, DepthLimit)
  BY EnteredExists, GenericsFinite
<1> QED BY <1>1, <1>2


----------------------------------------------------------------------------
\* A chain of n calls, each made in the body the one before enters, through
\* functions that are all different.  The first has a type argument of its
\* own, the others pass the parameter on.  W[j] are the shapes that the calls
\* up to the j-th have wrapped around it.
Chain(n, x, W) ==
    /\ n \in Nat \ {0}
    /\ \A j \in 1 .. n :
          /\ x[j] \in Calls /\ x[j].arg.base = x[1].arg.base
          /\ W[j] \subseteq Wrapped /\ Cardinality(W[j]) = x[j].arg.depth
          /\ \A w \in W[j] : program[w[1][1]][w[1][2]].arg.base = Param =>
                \E m \in 1 .. (j - 1) : x[m].to = w[1][1]
    /\ \A j \in 1 .. (n - 1) : \E d \in Range(program[x[j].to]) :
          /\ d.arg.base = Param
          /\ x[j + 1] = Call(d.to, Bound(d.arg, x[j].arg))
    /\ \A j, k \in 1 .. n : x[j].to = x[k].to => j = k
Chained(c) == \E n, x, W : Chain(n, x, W) /\ x[n] = c

\* What one call wraps.
WrapsOf(f, i) == {<<f, i>>} \X (1 .. program[f][i].arg.depth)

LEMMA WrapsOfFacts ==
    ASSUME SpecTypeOK, NEW f \in Generics \cup PlainNames, NEW i \in DOMAIN program[f]
    PROVE  /\ program[f][i] \in Calls /\ program[f][i].arg.depth \in Nat
           /\ WrapsOf(f, i) \subseteq Wrapped /\ IsFiniteSet(WrapsOf(f, i))
           /\ Cardinality(WrapsOf(f, i)) = program[f][i].arg.depth
           /\ \A w \in WrapsOf(f, i) : w[1] = <<f, i>>
<1> DEFINE k == program[f][i].arg.depth
<1>1. program[f] \in Seq(Calls) /\ DOMAIN program = Generics \cup PlainNames
  BY DEF SpecTypeOK
<1>2. program[f][i] \in Calls
  BY <1>1
<1>3. k \in Nat
  BY <1>2 DEF Calls, Types
<1>4. WrapsOf(f, i) \subseteq Wrapped
  BY <1>1 DEF WrapsOf, Wrapped
<1>5. IsFiniteSet({<<f, i>>}) /\ Cardinality({<<f, i>>}) = 1
  BY FS_Singleton
<1> HIDE DEF k
<1>6. IsFiniteSet(1 .. k) /\ Cardinality(1 .. k) = k
  BY <1>3, FS_Interval
<1>7. /\ IsFiniteSet({<<f, i>>} \X (1 .. k))
      /\ Cardinality({<<f, i>>} \X (1 .. k)) = 1 * k
  <2> DEFINE A == {<<f, i>>}
             B == 1 .. k
  <2>1. IsFiniteSet(A) /\ IsFiniteSet(B) /\ Cardinality(A) = 1 /\ Cardinality(B) = k
    BY <1>5, <1>6
  <2> HIDE DEF A, B
  <2>2. IsFiniteSet(A \X B) /\ Cardinality(A \X B) = Cardinality(A) * Cardinality(B)
    BY <2>1, FS_Product
  <2>3. IsFiniteSet(A \X B) /\ Cardinality(A \X B) = 1 * k
    BY ONLY <2>1, <2>2
  <2> QED BY <2>3 DEF A, B
<1> QED BY <1>2, <1>3, <1>4, <1>7 DEF k, WrapsOf

LEMMA WrappedFinite == ASSUME SpecTypeOK PROVE IsFiniteSet(Wrapped)
<1> DEFINE P(f) == [i \in DOMAIN program[f] |-> WrapsOf(f, i)]
           Q == [f \in DOMAIN program |-> UNION {P(f)[i] : i \in DOMAIN program[f]}]
<1>1. DOMAIN program = Generics \cup PlainNames
  BY DEF SpecTypeOK
<1>2. ASSUME NEW f \in DOMAIN program PROVE IsFiniteSet(Q[f])
  <2>1. program[f] \in Seq(Calls)
    BY <1>1 DEF SpecTypeOK
  <2>2. DOMAIN program[f] = 1 .. Len(program[f]) /\ Len(program[f]) \in Nat
    BY <2>1
  <2>3. IsFiniteSet(DOMAIN program[f])
    BY <2>2, FS_Interval
  <2>4. IsFiniteSet({P(f)[i] : i \in DOMAIN program[f]})
    BY <2>3, FiniteImage
  <2>5. \A V \in {P(f)[i] : i \in DOMAIN program[f]} : IsFiniteSet(V)
    BY <1>1, WrapsOfFacts
  <2>6. Q[f] = UNION {P(f)[i] : i \in DOMAIN program[f]}
    OBVIOUS
  <2> HIDE DEF P, Q
  <2> QED BY <2>4, <2>5, <2>6, FS_UNION
<1>3. IsFiniteSet(DOMAIN program)
  <2>1. Plain \in Seq(PlainNames) /\ IsFiniteSet(Generics)
    BY SpecializeAssumption DEF SpecializeAssumption
  <2>2. PlainNames = {Plain[i] : i \in 1 .. Len(Plain)}
    BY <2>1 DEF PlainNames, Range
  <2> HIDE DEF PlainNames
  <2>3. IsFiniteSet(PlainNames)
    BY <2>1, <2>2, FiniteRange
  <2> QED BY <1>1, <2>1, <2>3, FS_Union
<1>4. Wrapped = UNION {Q[f] : f \in DOMAIN program}
  BY DEF Wrapped, WrapsOf
<1>5. DOMAIN Q = DOMAIN program
  OBVIOUS
<1> HIDE DEF Q
<1>6. IsFiniteSet({Q[f] : f \in DOMAIN program})
  BY <1>3, <1>5, FiniteImage
<1> QED BY <1>2, <1>4, <1>6, FS_UNION

\* A chained call wraps no more than all calls together.
LEMMA ChainedIsBounded ==
    ASSUME SpecTypeOK, NEW c, Chained(c)
    PROVE  c.arg.depth <= Wraps
<1>1. PICK n, x, W : Chain(n, x, W) /\ x[n] = c
  BY DEF Chained
<1>2. n \in 1 .. n
  BY <1>1 DEF Chain
<1>3. W[n] \subseteq Wrapped /\ Cardinality(W[n]) = c.arg.depth
  BY <1>1, <1>2 DEF Chain
<1>4. IsFiniteSet(Wrapped)
  BY WrappedFinite
<1> QED BY <1>3, <1>4, FS_Subset DEF Wraps

LEMMA ConstantIsChained ==
    ASSUME SpecTypeOK, NEW f \in Generics \cup PlainNames, NEW i \in DOMAIN program[f],
           program[f][i].arg.base # Param
    PROVE  Chained(program[f][i])
<1> DEFINE x == [j \in 1 .. 1 |-> program[f][i]]
           W == [j \in 1 .. 1 |-> WrapsOf(f, i)]
<1>1. /\ program[f][i] \in Calls
      /\ WrapsOf(f, i) \subseteq Wrapped
      /\ Cardinality(WrapsOf(f, i)) = program[f][i].arg.depth
      /\ \A w \in WrapsOf(f, i) : w[1] = <<f, i>>
  BY WrapsOfFacts
<1>2. \A w \in WrapsOf(f, i) : w[1][1] = f /\ w[1][2] = i
  BY <1>1
<1>3. \A j \in 1 .. 1 : x[j] = program[f][i] /\ W[j] = WrapsOf(f, i) /\ j = 1
  OBVIOUS
<1>4. 1 \in 1 .. 1 /\ x[1] = program[f][i]
  OBVIOUS
<1> HIDE DEF x, W
<1>5. Chain(1, x, W)
  BY <1>1, <1>2, <1>3, <1>4 DEF Chain
<1> QED BY <1>4, <1>5 DEF Chained


\* A chain is no longer than there are generic functions.
LEMMA ChainIsShort ==
    ASSUME NEW n, NEW x, NEW W, Chain(n, x, W)
    PROVE  n \in Nat \ {0} /\ n <= Cardinality(Generics)
<1> DEFINE f == [j \in 1 .. n |-> x[j].to]
<1>1. n \in Nat \ {0} /\ f \in [1 .. n -> Generics]
  BY DEF Chain, Calls
<1>2. IsFiniteSet(1 .. n) /\ Cardinality(1 .. n) = n
  BY <1>1, FS_Interval
<1>3. \A j, k \in 1 .. n : f[j] = f[k] => j = k
  BY DEF Chain
<1> HIDE DEF f
<1>4. ~ (Cardinality(Generics) < Cardinality(1 .. n))
  BY <1>1, <1>2, <1>3, GenericsFinite, FS_PigeonHole
<1> QED BY <1>1, <1>2, <1>4, GenericsFinite

\* A call of a chain that passes the parameter on.
LEMMA ChainLink ==
    ASSUME NEW n, NEW x, NEW W, Chain(n, x, W), NEW j \in 1 .. (n - 1), SpecTypeOK
    PROVE  \E d \in Range(program[x[j].to]) :
              /\ d \in Calls /\ d.arg = Type(Param, d.arg.depth) /\ d.arg.depth \in Nat
              /\ x[j + 1].to = d.to
              /\ x[j + 1].arg = Type(x[j].arg.base, d.arg.depth + x[j].arg.depth)
<1>1. PICK d \in Range(program[x[j].to]) :
          d.arg.base = Param /\ x[j + 1] = Call(d.to, Bound(d.arg, x[j].arg))
  BY DEF Chain
<1>2. x[j] \in Calls
  BY DEF Chain
<1>3. x[j].to \in Generics
  BY <1>2 DEF Calls
<1>4. program[x[j].to] \in Seq(Calls)
  BY <1>3 DEF SpecTypeOK
<1>5. d \in Calls
  BY <1>4 DEF Range
<1>6. d.arg.depth \in Nat /\ d.arg = Type(Param, d.arg.depth)
  BY <1>1, <1>5 DEF Calls, Types, Type
<1>7. Bound(d.arg, x[j].arg) = Type(x[j].arg.base, d.arg.depth + x[j].arg.depth)
  BY <1>1 DEF Bound
<1> QED BY <1>1, <1>5, <1>6, <1>7 DEF Call

\* The walk from the m-th function of a chain as origin enters the others
\* after it, with what was wrapped since.
LEMMA ChainIsWalked ==
    ASSUME SpecTypeOK, NEW n, NEW x, NEW W, Chain(n, x, W), NEW m \in 1 .. n, NEW e,
           IsEntered(e, x[m].to, DepthLimit)
    PROVE  \A j \in m .. n :
              /\ x[j].arg.depth \in Nat /\ x[m].arg.depth <= x[j].arg.depth
              /\ Call(x[j].to, Type(Param, x[j].arg.depth - x[m].arg.depth)) \in e[j - m]
<1> DEFINE P(j) == /\ x[j].arg.depth \in Nat /\ x[m].arg.depth <= x[j].arg.depth
                   /\ Call(x[j].to, Type(Param, x[j].arg.depth - x[m].arg.depth)) \in e[j - m]
           S == {j \in m .. n : ~ P(j)}
<1> SUFFICES ASSUME S # {} PROVE FALSE
  OBVIOUS
<1>1. n \in Nat \ {0} /\ n <= Cardinality(Generics) /\ DepthLimit \in Nat /\ n <= DepthLimit
  BY ChainIsShort, GenericsFinite, PlainFacts DEF DepthLimit
<1>2. S \in SUBSET Nat
  BY <1>1
<1>3. PICK j \in S : \A k \in S : j <= k
  BY <1>2, LeastNat
<1>4. \A k \in 1 .. n : x[k] \in Calls /\ x[k].arg.depth \in Nat
  BY DEF Chain, Calls, Types
<1>5. j \in m .. n /\ j \in 1 .. n /\ ~ P(j)
  BY <1>1, <1>3
<1>6. CASE j = m
  <2>1. e[0] = {Call(x[m].to, Type(Param, 0))}
    BY <1>1 DEF IsEntered
  <2>2. x[m].arg.depth - x[m].arg.depth = 0 /\ m - m = 0
    BY <1>4
  <2> QED BY <1>4, <1>5, <1>6, <2>1, <2>2
<1>7. CASE j # m
  <2> DEFINE i == j - 1
             c == Call(x[i].to, Type(Param, x[i].arg.depth - x[m].arg.depth))
  <2>1. i \in m .. n /\ i \in 1 .. (n - 1) /\ i + 1 = j /\ i \notin S /\ i \in 1 .. n
    BY <1>1, <1>3, <1>5, <1>7
  <2>2. P(i)
    BY <2>1
  <2>3. PICK d \in Range(program[x[i].to]) :
            /\ d \in Calls /\ d.arg = Type(Param, d.arg.depth) /\ d.arg.depth \in Nat
            /\ x[i + 1].to = d.to
            /\ x[i + 1].arg = Type(x[i].arg.base, d.arg.depth + x[i].arg.depth)
    BY <2>1, ChainLink
  <2>4. x[j].to = d.to /\ x[j].arg.depth = d.arg.depth + x[i].arg.depth
    BY <2>1, <2>3 DEF Type
  <2> HIDE DEF i
  <2>5. /\ x[i].arg.depth \in Nat /\ x[m].arg.depth \in Nat
        /\ x[m].arg.depth <= x[i].arg.depth /\ c \in e[i - m]
    BY <1>4, <2>2
  <2>6. Bound(d.arg, c.arg) = Type(Param, d.arg.depth + (x[i].arg.depth - x[m].arg.depth))
    BY <2>3 DEF Bound, Type, Call
  <2>7. d.arg.depth + (x[i].arg.depth - x[m].arg.depth) = x[j].arg.depth - x[m].arg.depth
    BY <2>3, <2>4, <2>5
  <2> DEFINE b == Call(x[j].to, Type(Param, x[j].arg.depth - x[m].arg.depth))
  <2>8. b \in CallsIn(c)
    <3>1. c.to = x[i].to
      BY DEF Call
    <3>2. b = Call(d.to, Bound(d.arg, c.arg))
      BY <2>4, <2>6, <2>7
    <3> HIDE DEF b, c
    <3> QED BY <2>3, <3>1, <3>2 DEF CallsIn
  <2>9. b.to # x[m].to
    <3>1. b.to = x[j].to
      BY DEF Call
    <3> QED BY <1>5, <1>7, <3>1 DEF Chain
  <2>10. References(b.arg)
    BY DEF References, Call, Type
  <2> HIDE DEF b, c
  <2>11. b \in EnteredFrom(x[m].to, e[i - m])
    BY <2>5, <2>8, <2>9, <2>10 DEF EnteredFrom
  <2>12. j - m \in 0 .. DepthLimit /\ j - m # 0 /\ (j - m) - 1 = i - m
    BY <1>1, <1>5, <1>7, <2>1
  <2>13. e[j - m] = EnteredFrom(x[m].to, e[i - m])
    BY <2>12 DEF IsEntered
  <2>14. x[j].arg.depth \in Nat /\ x[m].arg.depth <= x[j].arg.depth
    BY <2>3, <2>4, <2>5
  <2> QED BY <1>5, <2>11, <2>13, <2>14 DEF b
<1> QED BY <1>6, <1>7


\* A call of an accepted program that comes back to a function of the chain
\* is the call the chain came through it with.
LEMMA ChainReturns ==
    ASSUME SpecTypeOK, NEW n, NEW x, NEW W, Chain(n, x, W), NEW m \in 1 .. n,
           KeepsOriginStable(x[m].to), NEW d \in Range(program[x[n].to]),
           d.to = x[m].to, d.arg.base = Param
    PROVE  Call(d.to, Bound(d.arg, x[n].arg)) = x[m]
<1>1. n \in Nat \ {0} /\ n <= Cardinality(Generics) /\ DepthLimit \in Nat /\ n <= DepthLimit
  BY ChainIsShort, GenericsFinite, PlainFacts DEF DepthLimit
<1>2. \A k \in 1 .. n : x[k] \in Calls /\ x[k].arg.depth \in Nat /\ x[k].arg.base = x[1].arg.base
  BY DEF Chain, Calls, Types
<1>3. n \in 1 .. n /\ n \in m .. n /\ n - m \in 0 .. DepthLimit
  BY <1>1
<1>4. d \in Calls
  <2>1. x[n].to \in Generics
    BY <1>2, <1>3 DEF Calls
  <2>2. program[x[n].to] \in Seq(Calls)
    BY <2>1 DEF SpecTypeOK
  <2> QED BY <2>2 DEF Range
<1>5. d.arg.depth \in Nat
  BY <1>4 DEF Calls, Types
<1>6. PICK e : /\ IsEntered(e, x[m].to, DepthLimit)
               /\ Contexts(x[m].to) = UNION {e[depth] : depth \in 0 .. DepthLimit}
  BY ContextsEntered
<1> DEFINE c == Call(x[n].to, Type(Param, x[n].arg.depth - x[m].arg.depth))
           b == Call(d.to, Bound(d.arg, c.arg))
<1>7. x[m].arg.depth <= x[n].arg.depth /\ c \in e[n - m]
  BY <1>3, <1>6, ChainIsWalked
<1>8. c \in Contexts(x[m].to)
  BY <1>3, <1>6, <1>7
<1>9. b \in CallsIn(c) /\ b.to = x[m].to
  BY DEF CallsIn, Call
<1>10. b.arg = Type(Param, d.arg.depth + (x[n].arg.depth - x[m].arg.depth))
  BY DEF Bound, Call, Type
<1>11. References(b.arg)
  BY <1>10 DEF References, Type
<1>12. Stable(b.arg)
  <2> HIDE DEF b, c
  <2> QED BY <1>8, <1>9, <1>11 DEF KeepsOriginStable
<1>13. d.arg.depth + (x[n].arg.depth - x[m].arg.depth) = 0
  <2> HIDE DEF b, c
  <2> QED BY <1>10, <1>12 DEF Stable, Type
<1>14. d.arg.depth + x[n].arg.depth = x[m].arg.depth
  BY <1>2, <1>3, <1>5, <1>7, <1>13
<1>15. Bound(d.arg, x[n].arg) = Type(x[m].arg.base, x[m].arg.depth)
  BY <1>2, <1>3, <1>14 DEF Bound
<1>16. x[m] = [to |-> x[m].to, arg |-> [base |-> x[m].arg.base, depth |-> x[m].arg.depth]]
  <2>1. x[m] \in Calls
    BY <1>2
  <2> QED BY <2>1 DEF Calls, Types
<1> QED BY <1>15, <1>16 DEF Call, Type

\* A call that goes on to another function makes the chain longer.
LEMMA ChainGoesOn ==
    ASSUME SpecTypeOK, NEW n, NEW x, NEW W, Chain(n, x, W),
           NEW d \in Range(program[x[n].to]), d.arg.base = Param,
           \A m \in 1 .. n : d.to # x[m].to
    PROVE  Chained(Call(d.to, Bound(d.arg, x[n].arg)))
<1>1. n \in Nat \ {0} /\ n \in 1 .. n
  BY ChainIsShort
<1>2. \A k \in 1 .. n : /\ x[k] \in Calls /\ x[k].arg.depth \in Nat
                        /\ x[k].arg.base = x[1].arg.base /\ x[k].to \in Generics
  BY DEF Chain, Calls, Types
<1>3. program[x[n].to] \in Seq(Calls)
  BY <1>1, <1>2 DEF SpecTypeOK
<1>4. PICK i \in DOMAIN program[x[n].to] : d = program[x[n].to][i]
  BY <1>3 DEF Range
<1> DEFINE g == x[n].to
           V == WrapsOf(g, i)
           c == Call(d.to, Bound(d.arg, x[n].arg))
           y == [j \in 1 .. (n + 1) |-> IF j = n + 1 THEN c ELSE x[j]]
           U == [j \in 1 .. (n + 1) |-> IF j = n + 1 THEN W[n] \cup V ELSE W[j]]
<1>5. /\ d \in Calls /\ d.arg.depth \in Nat /\ V \subseteq Wrapped /\ IsFiniteSet(V)
      /\ Cardinality(V) = d.arg.depth /\ \A w \in V : w[1] = <<g, i>>
  BY <1>1, <1>2, <1>4, WrapsOfFacts
<1>6. c.arg = Type(x[n].arg.base, d.arg.depth + x[n].arg.depth) /\ c.to = d.to
  BY DEF Bound, Call
<1>7. d.arg.depth + x[n].arg.depth \in Nat /\ x[n].arg.base \in Bases \cup {Param}
  BY <1>1, <1>2, <1>5 DEF Calls, Types
<1>8. c \in Calls
  BY <1>5, <1>6, <1>7 DEF Calls, Types, Type, Call
<1>9. /\ W[n] \subseteq Wrapped /\ Cardinality(W[n]) = x[n].arg.depth
      /\ \A w \in W[n] : program[w[1][1]][w[1][2]].arg.base = Param =>
            \E m \in 1 .. (n - 1) : x[m].to = w[1][1]
  BY <1>1 DEF Chain
<1>10. \A w \in V : w[1][1] = g /\ w[1][2] = i
  BY <1>5
<1>11. W[n] \cap V = {}
  <2> SUFFICES ASSUME NEW w \in W[n], w \in V PROVE FALSE
    OBVIOUS
  <2>1. w[1][1] = g /\ w[1][2] = i
    BY <1>10
  <2>2. PICK m \in 1 .. (n - 1) : x[m].to = x[n].to
    BY <1>4, <1>9, <2>1
  <2>3. m \in 1 .. n /\ m # n
    BY <1>1
  <2> QED BY <1>1, <2>2, <2>3 DEF Chain
<1>12. IsFiniteSet(W[n])
  BY <1>9, WrappedFinite, FS_Subset
<1> HIDE DEF V
<1>13. Cardinality(W[n] \cup V) = d.arg.depth + x[n].arg.depth
  <2>1. Cardinality(W[n] \cup V) = Cardinality(W[n]) + Cardinality(V) - Cardinality(W[n] \cap V)
    BY <1>5, <1>12, FS_Union
  <2>2. Cardinality(W[n] \cap V) = 0
    BY <1>11, FS_EmptySet
  <2> QED BY <1>1, <1>2, <1>5, <1>9, <2>1, <2>2
<1>14. /\ y[n + 1] = c /\ U[n + 1] = W[n] \cup V
       /\ \A j \in 1 .. n : y[j] = x[j] /\ U[j] = W[j]
  BY <1>1
<1>15. \A j \in 1 .. (n + 1) : j = n + 1 \/ j \in 1 .. n
  BY <1>1
<1> HIDE DEF c, y, U, g
<1>16. 1 \in 1 .. n /\ y[1] = x[1]
  BY <1>1, <1>14
<1>17. ASSUME NEW j \in 1 .. (n + 1)
       PROVE  /\ y[j] \in Calls /\ y[j].arg.base = y[1].arg.base
              /\ U[j] \subseteq Wrapped /\ Cardinality(U[j]) = y[j].arg.depth
              /\ \A w \in U[j] : program[w[1][1]][w[1][2]].arg.base = Param =>
                    \E m \in 1 .. (j - 1) : y[m].to = w[1][1]
  <2>1. CASE j \in 1 .. n
    <3>1. \A m \in 1 .. (j - 1) : y[m] = x[m]
      BY <1>1, <1>14, <2>1
    <3> QED BY <1>14, <1>16, <2>1, <3>1 DEF Chain
  <2>2. CASE j = n + 1
    <3>1. y[j] \in Calls /\ y[j].arg.base = y[1].arg.base
      BY <1>1, <1>2, <1>6, <1>8, <1>14, <1>16, <2>2 DEF Type
    <3>2. U[j] \subseteq Wrapped /\ Cardinality(U[j]) = y[j].arg.depth
      <4>1. U[j] = W[n] \cup V /\ y[j] = c
        BY <1>14, <2>2
      <4>2. c.arg.depth = d.arg.depth + x[n].arg.depth
        BY <1>6 DEF Type
      <4>3. W[n] \cup V \subseteq Wrapped
        BY <1>5, <1>9
      <4> QED BY <1>13, <4>1, <4>2, <4>3
    <3>3. ASSUME NEW w \in U[j], program[w[1][1]][w[1][2]].arg.base = Param
          PROVE  \E m \in 1 .. (j - 1) : y[m].to = w[1][1]
      <4>1. CASE w \in V
        <5>1. n \in 1 .. (j - 1) /\ y[n].to = w[1][1]
          BY <1>1, <1>10, <1>14, <2>2, <4>1 DEF g
        <5> QED BY <5>1
      <4>2. CASE w \in W[n]
        <5>1. PICK m \in 1 .. (n - 1) : x[m].to = w[1][1]
          BY <1>9, <3>3, <4>2
        <5>2. m \in 1 .. (j - 1) /\ y[m] = x[m]
          BY <1>1, <1>14, <2>2
        <5> QED BY <5>1, <5>2
      <4> QED BY <1>14, <2>2, <3>3, <4>1, <4>2
    <3> QED BY <3>1, <3>2, <3>3
  <2> QED BY <1>15, <2>1, <2>2
<1>18. ASSUME NEW j \in 1 .. ((n + 1) - 1)
       PROVE  \E b \in Range(program[y[j].to]) :
                 b.arg.base = Param /\ y[j + 1] = Call(b.to, Bound(b.arg, y[j].arg))
  <2>1. CASE j = n
    BY <1>1, <1>14, <2>1 DEF c
  <2>2. CASE j # n
    <3>1. j \in 1 .. (n - 1) /\ j + 1 \in 1 .. n /\ j \in 1 .. n
      BY <1>1, <2>2
    <3>2. y[j] = x[j] /\ y[j + 1] = x[j + 1]
      BY <1>14, <3>1
    <3> QED BY <3>1, <3>2 DEF Chain
  <2> QED BY <2>1, <2>2
<1>19. ASSUME NEW j \in 1 .. (n + 1), NEW k \in 1 .. (n + 1), y[j].to = y[k].to
       PROVE  j = k
  <2>1. \A m \in 1 .. n : y[m].to # y[n + 1].to
    BY <1>6, <1>14
  <2>2. CASE j \in 1 .. n /\ k \in 1 .. n
    BY <1>14, <1>19, <2>2 DEF Chain
  <2> QED BY <1>15, <1>19, <2>1, <2>2
<1>20. Chain(n + 1, y, U)
  <2>1. n + 1 \in Nat \ {0}
    BY <1>1
  <2> QED BY <2>1, <1>17, <1>18, <1>19 DEF Chain
<1> QED BY <1>14, <1>20 DEF Chained, c


LEMMA CallsOfChained ==
    ASSUME SpecTypeOK, \A g \in Generics : KeepsOriginStable(g),
           NEW c, Chained(c), NEW b \in CallsIn(c)
    PROVE  Chained(b)
<1>1. PICK n, x, W : Chain(n, x, W) /\ x[n] = c
  BY DEF Chained
<1>2. n \in Nat \ {0} /\ n \in 1 .. n
  BY <1>1, ChainIsShort
<1>3. c.to \in Generics
  BY <1>1, <1>2 DEF Chain, Calls
<1>4. PICK d \in Range(program[c.to]) : b = Call(d.to, Bound(d.arg, c.arg))
  BY DEF CallsIn
<1>5. program[c.to] \in Seq(Calls)
  BY <1>3 DEF SpecTypeOK
<1>6. PICK i \in DOMAIN program[c.to] : d = program[c.to][i]
  BY <1>5 DEF Range
<1>7. CASE d.arg.base # Param
  <2>1. d \in Calls
    BY <1>5 DEF Range
  <2>2. d = [to |-> d.to, arg |-> d.arg]
    BY <2>1 DEF Calls
  <2>3. b = d
    BY <1>4, <1>7, <2>2 DEF Bound, Call
  <2> QED BY <1>3, <1>6, <1>7, <2>3, ConstantIsChained
<1>8. CASE d.arg.base = Param /\ \E m \in 1 .. n : d.to = x[m].to
  <2>1. PICK m \in 1 .. n : d.to = x[m].to
    BY <1>8
  <2>2. x[m].to \in Generics
    BY <1>1 DEF Chain, Calls
  <2>3. b = x[m]
    BY <1>1, <1>4, <1>8, <2>1, <2>2, ChainReturns
  <2>4. m \in Nat \ {0} /\ \A j \in 1 .. m : j \in 1 .. n
    BY <1>2
  <2>5. \A j \in 1 .. (m - 1) : j \in 1 .. (n - 1)
    BY <1>2
  <2>6. Chain(m, x, W)
    BY <1>1, <2>4, <2>5 DEF Chain
  <2> QED BY <2>3, <2>6 DEF Chained
<1>9. CASE d.arg.base = Param /\ \A m \in 1 .. n : d.to # x[m].to
  BY <1>1, <1>4, <1>9, ChainGoesOn
<1> QED BY <1>7, <1>8, <1>9

LEMMA ReachedAreChained ==
    ASSUME SpecTypeOK, program \in Programs, \A g \in Generics : KeepsOriginStable(g)
    PROVE  \A n \in Nat : \A c \in Reach(n) : Chained(c)
<1> DEFINE S == {n \in Nat : ~ \A c \in Reach(n) : Chained(c)}
<1> SUFFICES ASSUME S # {} PROVE FALSE
  OBVIOUS
<1>1. PICK n \in S : \A m \in S : n <= m
  BY LeastNat
<1>2. CASE n = 0
  <2>1. ASSUME NEW c \in Roots PROVE Chained(c)
    <3>1. PICK f \in PlainNames : c \in Range(program[f])
      BY DEF Roots
    <3>2. program[f] \in Seq(Calls)
      BY DEF SpecTypeOK
    <3>3. PICK i \in DOMAIN program[f] : c = program[f][i]
      BY <3>1, <3>2 DEF Range
    <3>4. c.arg.base # Param
      BY <3>1, SpecializeAssumption DEF SpecializeAssumption
    <3> QED BY <3>3, <3>4, ConstantIsChained
  <2>2. Reach(0) = Roots
    BY ReachSteps
  <2> QED BY <1>1, <1>2, <2>1, <2>2
<1>3. CASE n # 0
  <2>1. n - 1 \in Nat /\ n - 1 \notin S /\ (n - 1) + 1 = n
    BY <1>1, <1>3
  <2>2. Reach(n) = Reach(n - 1) \cup UNION {CallsIn(c) : c \in Reach(n - 1)}
    BY <2>1, ReachSteps
  <2>3. \A c \in Reach(n - 1) : Chained(c)
    BY <2>1
  <2>4. ASSUME NEW b \in Reach(n) PROVE Chained(b)
    <3>1. CASE b \in Reach(n - 1)
      BY <2>3, <3>1
    <3>2. CASE b \in UNION {CallsIn(c) : c \in Reach(n - 1)}
      <4>1. PICK c \in Reach(n - 1) : b \in CallsIn(c)
        BY <3>2
      <4> QED BY <2>3, <4>1, CallsOfChained
    <3> QED BY <2>2, <3>1, <3>2
  <2> QED BY <1>1, <2>4
<1> QED BY <1>2, <1>3

\* Only programs that passed the check are planned, and a plain function has
\* no type argument.
CheckedInv ==
    /\ program \in Programs
    /\ phase \notin {"checking", "rejected"} => \A g \in Generics : KeepsOriginStable(g)
    /\ \A i \in 1 .. Len(functions) : i <= Len(Plain) => functions[i].arg = NoType

LEMMA CheckedStays ==
    ASSUME CheckedInv, program' = program,
           phase' \notin {"checking", "rejected"} =>
               phase \notin {"checking", "rejected"} \/ \A g \in Generics : KeepsOriginStable(g),
           \A i \in 1 .. Len(functions') : i <= Len(Plain) => functions'[i].arg = NoType
    PROVE  CheckedInv'
<1>1. \A g : KeepsOriginStable(g)' = KeepsOriginStable(g)
  BY DEF KeepsOriginStable, Contexts, EnteredFrom, CallsIn
<1> QED BY <1>1 DEF CheckedInv

LEMMA CheckedNext == SpecInv /\ CheckedInv /\ [Next]_vars => CheckedInv'
<1> SUFFICES ASSUME SpecInv, CheckedInv, [Next]_vars PROVE CheckedInv'
  OBVIOUS
<1>1. /\ functions \in Seq(Instances) /\ Len(functions) \in Nat /\ Len(Plain) \in Nat
      /\ \A i \in 1 .. Len(functions) : i <= Len(Plain) => functions[i].arg = NoType
  BY PlainFacts DEF SpecInv, SpecTypeOK, CheckedInv
<1>2. CASE Check
  BY <1>1, <1>2, CheckedStays DEF Check
<1>3. CASE ClonePlain
  <2> DEFINE f == Plain[Len(functions) + 1]
             inst == Instance(f, NoType, program[f])
  <2>1. /\ functions' = Append(functions, inst) /\ phase' = phase /\ program' = program
        /\ inst.arg = NoType
    BY <1>3 DEF ClonePlain, Instance
  <2> HIDE DEF inst
  <2>2. \A i \in 1 .. Len(functions') :
            \/ i = Len(functions) + 1 /\ functions'[i] = inst
            \/ i \in 1 .. Len(functions) /\ functions'[i] = functions[i]
    BY <1>1, <2>1
  <2> QED BY <1>1, <2>1, <2>2, CheckedStays
<1>4. CASE CollectCall
  <2>1. phase = "collecting" /\ program' = program /\ Walking /\ stmt <= Len(Body)
    BY <1>4 DEF CollectCall, Walking
  <2>2. \/ functions' = functions
        \/ \E inst : functions' = Append(functions, inst)
    <3> DEFINE c == Body[stmt]
    <3>1. AddResult(c) \in {"present", "limit", "collision", "added"}
      BY DEF AddResult
    <3>2. CASE AddResult(c) = "present"
      BY <1>4, <3>2 DEF CollectCall
    <3>3. CASE AddResult(c) \in {"limit", "collision"}
      BY <1>4, <3>3 DEF CollectCall, Unsupported
    <3>4. CASE AddResult(c) = "added"
      <4>1. Unsupported("existing") \/ Push(c)
        BY <1>4, <3>4 DEF CollectCall
      <4> QED BY <4>1 DEF Unsupported, Push
    <3> QED BY <3>1, <3>2, <3>3, <3>4
  <2>3. Len(Plain) <= Len(functions) \/ functions' = functions
    <3>1. error = "none" /\ Len(functions) = Len(Plain) + Len(plan) /\ Len(plan) \in Nat
      BY <2>1 DEF SpecInv, SpecTypeOK, Outcome
    <3> QED BY <1>1, <3>1
  <2>4. \A i \in 1 .. Len(functions') : i <= Len(Plain) => functions'[i].arg = NoType
    BY <1>1, <2>2, <2>3
  <2> QED BY <2>1, <2>4, CheckedStays
<1>5. CASE StartWalk \/ NextFunction \/ StaleRead \/ Lower \/ UNCHANGED vars
  <2>1. /\ UNCHANGED <<program, functions>>
        /\ phase' \notin {"checking", "rejected"} => phase \notin {"checking", "rejected"}
    BY <1>5 DEF StartWalk, NextFunction, StaleRead, Lower, Walking, vars
  <2> QED BY <1>1, <2>1, CheckedStays
<1> QED BY <1>2, <1>3, <1>4, <1>5 DEF Next

\* For every program: once the checker accepts it, no type argument is
\* wrapped more often than all its calls together wrap, through however many
\* functions they go, so specialization comes to an end even without a limit
\* (validate_recursive_generic_cycle and its depth limit).
THEOREM RecursionIsBounded == Spec => []RecursionBounded
<1>1. Init => CheckedInv
  BY DEF Init, CheckedInv
<1>2. SpecInv /\ RefusalInv /\ CheckedInv => RecursionBounded
  <2> SUFFICES ASSUME SpecInv, RefusalInv, CheckedInv, NEW i \in 1 .. Len(functions)
               PROVE  functions[i].arg.depth <= Wraps
    BY DEF RecursionBounded
  <2>1. /\ SpecTypeOK /\ Len(functions) \in Nat /\ Len(Plain) \in Nat /\ Len(plan) \in Nat
    BY PlainFacts DEF SpecInv, SpecTypeOK
  <2>2. CASE i <= Len(Plain)
    <3>1. functions[i].arg.depth = 0
      BY <2>2 DEF CheckedInv, NoType, Type
    <3>2. Wraps \in Nat
      BY <2>1, WrappedFinite, FS_CardinalityType DEF Wraps
    <3> QED BY <3>1, <3>2
  <2>3. CASE i > Len(Plain)
    <3> DEFINE k == i - Len(Plain)
    <3>1. ~ Early /\ Len(functions) <= Len(Plain) + Len(plan)
      BY <2>1, <2>3 DEF SpecInv, SpecTypeOK, Early
    <3>2. k \in 1 .. Len(plan) /\ Len(Plain) + k = i /\ k \in Nat
      BY <2>1, <2>3, <3>1
    <3> HIDE DEF k
    <3>3. functions[i].arg = plan[k].arg
      BY <3>2 DEF SpecInv, TableFollowsPlan
    <3>4. plan[k] \in Reach(k)
      BY <3>2 DEF RefusalInv, PlanReached
    <3>5. Chained(plan[k])
      BY <2>1, <3>1, <3>2, <3>4, ReachedAreChained DEF CheckedInv, Early
    <3> QED BY <2>1, <3>3, <3>5, ChainedIsBounded
  <2> QED BY <2>1, <2>2, <2>3
<1> QED BY <1>1, <1>2, CheckedNext, AlwaysSpecInv, AlwaysRefusalInv, PTL DEF Spec
=============================================================================
