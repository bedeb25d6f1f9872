---------------------------- MODULE RolloutProofs ----------------------------
(***************************************************************************)
(* For every set of plans a deployment may carry out: its state is well    *)
(* typed and the timing the plan declares is kept.                         *)
(*                                                                         *)
(* PhasesInOrder is not inductive: that the next after-migration is later  *)
(* in the list than every committed one needs the committed ones to be a   *)
(* prefix of the chain (ChainIsPrefix), and that no during-migration       *)
(* commits late needs every committed migration to be of one of the two    *)
(* phases the walk may commit (OnlyPending).                               *)
(*                                                                         *)
(* Last, for every set of types and values, what a column goes through in  *)
(* one rollout after the other: exempting widenings one change at a time   *)
(* loses no value over a chain of changes of any length.  And the table    *)
(* flags nothing it knows to be harmless, once values of every size are    *)
(* told apart.                                                             *)
(***************************************************************************)
EXTENDS Rollout, TypeChain, TLAPS

\* Appending to a sequence adds its element to the set of its elements.
LEMMA AppendAdds ==
    ASSUME NEW S, NEW s \in Seq(S), NEW x \in S
    PROVE  /\ Append(s, x) \in Seq(S)
           /\ ToSet(Append(s, x)) = ToSet(s) \cup {x}
           /\ DOMAIN Append(s, x) = 1 .. Len(s) + 1
           /\ Append(s, x)[Len(s) + 1] = x
           /\ \A j \in DOMAIN s : j \in 1 .. Len(s) /\ Append(s, x)[j] = s[j]
<1> DEFINE t == Append(s, x)
<1>1. /\ t \in Seq(S) /\ Len(t) = Len(s) + 1 /\ Len(s) \in Nat
      /\ DOMAIN t = 1 .. Len(s) + 1 /\ DOMAIN s = 1 .. Len(s)
      /\ t[Len(s) + 1] = x
      /\ \A j \in 1 .. Len(s) : t[j] = s[j]
    OBVIOUS
<1>2. ToSet(t) \subseteq ToSet(s) \cup {x}
    BY <1>1 DEF ToSet
<1>3. ToSet(s) \cup {x} \subseteq ToSet(t)
    <2>1. Len(s) + 1 \in DOMAIN t BY <1>1
    <2>2. \A j \in DOMAIN s : j \in DOMAIN t /\ t[j] = s[j] BY <1>1
    <2>. QED BY <2>1, <2>2, <1>1 DEF ToSet
<1>. QED BY <1>1, <1>2, <1>3

\* The migrations committed since the rollout began are during- and
\* after-migrations.
OnlyPending == Committed \subseteq During(plan) \cup After(plan)

\* The committed after-migrations are the first ones of the list.
ChainIsPrefix == \A i \in Committed \cap After(plan) : UpTo(plan, i) \subseteq Committed

\* The inductive invariant behind PhasesInOrder.
Inv == TypeOK /\ OnlyPending /\ ChainIsPrefix /\ PhasesInOrder

\* Nothing has happened at first.
LEMMA InitInv == Init => Inv
<1> SUFFICES ASSUME Init PROVE Inv
    OBVIOUS
<1>1. Committed = {} /\ DOMAIN trail = {} /\ trail \in Seq(DOMAIN plan.migrations)
    BY DEF Init, Committed, ToSet
<1>2. steps \in [Workloads(plan) -> Steps]
    BY DEF Init, Steps, LastStep
<1>. QED BY <1>1, <1>2 DEF Init, Inv, TypeOK, OnlyPending, ChainIsPrefix, PhasesInOrder

\* Migrations of a phase are positions in the plan's list, of that phase only.
LEMMA PhaseFacts ==
    ASSUME plan \in Plans
    PROVE  /\ During(plan) \subseteq DOMAIN plan.migrations
           /\ After(plan) \subseteq DOMAIN plan.migrations
           /\ During(plan) \cap After(plan) = {}
           /\ DOMAIN plan.migrations \subseteq Int
    BY PlansAssumption DEF During, After, InPhase, IsPlan

\* A workload that moves leaves what is committed alone.
LEMMA AdvanceWorkloadStep ==
    ASSUME Inv, NEW w \in Workloads(plan), AdvanceWorkload(w)
    PROVE  Inv'
<1> USE DEF Inv, AdvanceWorkload, CanAdvance, TypeOK
<1>1. UNCHANGED Committed
    BY DEF Committed, ToSet
<1>2. TypeOK'
    BY DEF Steps, LastStep, Workloads
<1>3. Committed \cap After(plan) = {}
    BY DEF PhasesInOrder, WorkloadsDone, LastStep
<1>. QED BY <1>1, <1>2, <1>3 DEF OnlyPending, ChainIsPrefix, PhasesInOrder

\* A during-migration is no part of the chain, and commits once.
LEMMA CommitDuringStep ==
    ASSUME Inv, NEW i \in During(plan), CommitDuring(i)
    PROVE  Inv'
<1> USE DEF CommitDuring, CanCommitDuring
<1>1. TypeOK /\ plan' = plan /\ steps' = steps
    BY DEF Inv
<1>2. i \in DOMAIN plan.migrations /\ i \notin After(plan)
    BY <1>1, PhaseFacts DEF TypeOK
<1>3. /\ trail' \in Seq(DOMAIN plan.migrations)
      /\ Committed' = Committed \cup {i}
      /\ DOMAIN trail' = 1 .. Len(trail) + 1
      /\ trail'[Len(trail) + 1] = i
      /\ \A j \in DOMAIN trail : trail'[j] = trail[j]
    BY <1>1, <1>2, AppendAdds DEF TypeOK, Committed
<1>4. DOMAIN trail = 1 .. Len(trail) /\ Len(trail) \in Nat
    BY <1>1 DEF TypeOK
<1>5. Committed \cap After(plan) = {}
    BY DEF Inv, PhasesInOrder
<1>6. \A j \in DOMAIN trail : trail[j] \in Committed
    BY DEF Committed, ToSet
<1>7. TypeOK'
    BY <1>1, <1>3 DEF TypeOK
<1>8. OnlyPending' /\ ChainIsPrefix'
    BY <1>1, <1>2, <1>3, <1>5 DEF Inv, OnlyPending, ChainIsPrefix
<1>9. PhasesInOrder'
    <2>1. ASSUME NEW j \in DOMAIN trail', NEW k \in DOMAIN trail', j < k
          PROVE  trail'[j] # trail'[k] /\ trail'[j] \notin After(plan)
        <3>1. j \in DOMAIN trail BY <1>3, <1>4, <2>1
        <3>2. CASE k \in DOMAIN trail
            BY <3>1, <3>2, <2>1, <1>3, <1>5, <1>6 DEF Inv, PhasesInOrder
        <3>3. CASE k = Len(trail) + 1
            BY <3>1, <3>3, <1>3, <1>5, <1>6
        <3>. QED BY <3>2, <3>3, <1>3, <1>4
    <2>2. Committed' \cap After(plan)' = {}
        BY <1>1, <1>2, <1>3, <1>5
    <2>. QED BY <2>1, <2>2, <1>1 DEF PhasesInOrder
<1>. QED BY <1>7, <1>8, <1>9 DEF Inv

\* The after-migration that commits is the next of the list.
LEMMA CommitAfterStep ==
    ASSUME Inv, NEW i \in After(plan), CommitAfter(i)
    PROVE  Inv'
<1> USE DEF CommitAfter, CanCommitAfter
<1>1. TypeOK /\ plan' = plan /\ steps' = steps
    BY DEF Inv
<1>2. i \in DOMAIN plan.migrations /\ i \in Int /\ After(plan) \subseteq Int
    BY <1>1, PhaseFacts DEF TypeOK
<1>3. /\ trail' \in Seq(DOMAIN plan.migrations)
      /\ Committed' = Committed \cup {i}
      /\ DOMAIN trail' = 1 .. Len(trail) + 1
      /\ trail'[Len(trail) + 1] = i
      /\ \A j \in DOMAIN trail : trail'[j] = trail[j]
    BY <1>1, <1>2, AppendAdds DEF TypeOK, Committed
<1>4. DOMAIN trail = 1 .. Len(trail) /\ Len(trail) \in Nat
    BY <1>1 DEF TypeOK
<1>5. \A j \in DOMAIN trail : trail[j] \in Committed
    BY DEF Committed, ToSet
<1>6. TypeOK'
    BY <1>1, <1>3 DEF TypeOK
<1>7. OnlyPending'
    BY <1>1, <1>3 DEF Inv, OnlyPending
<1>8. ChainIsPrefix'
    <2>1. UpTo(plan, i) \subseteq Committed \cup {i} OBVIOUS
    <2>. QED BY <2>1, <1>1, <1>3 DEF Inv, ChainIsPrefix
<1>9. PhasesInOrder'
    <2>1. \A m \in Committed \cap After(plan) : m < i
        <3> SUFFICES ASSUME NEW m \in Committed \cap After(plan), i <= m
                     PROVE  FALSE
            BY <1>2
        <3>. QED BY DEF Inv, ChainIsPrefix, UpTo
    <2>2. ASSUME NEW j \in DOMAIN trail', NEW k \in DOMAIN trail', j < k
          PROVE  /\ trail'[j] # trail'[k]
                 /\ trail'[j] \in After(plan) =>
                        trail'[k] \in After(plan) /\ trail'[j] < trail'[k]
        <3>1. j \in DOMAIN trail BY <1>3, <1>4, <2>2
        <3>2. CASE k \in DOMAIN trail
            BY <3>1, <3>2, <2>2, <1>3 DEF Inv, PhasesInOrder
        <3>3. CASE k = Len(trail) + 1
            BY <3>1, <3>3, <1>3, <1>5, <2>1
        <3>. QED BY <3>2, <3>3, <1>3, <1>4
    <2>3. WorkloadsDone' /\ During(plan)' \subseteq Committed'
        BY <1>1, <1>3 DEF WorkloadsDone
    <2>. QED BY <2>2, <2>3, <1>1 DEF PhasesInOrder
<1>. QED BY <1>6, <1>7, <1>8, <1>9 DEF Inv

\* Every step keeps the invariant.
LEMMA NextInv == Inv /\ [Next]_vars => Inv'
<1> SUFFICES ASSUME Inv, [Next]_vars PROVE Inv'
    OBVIOUS
<1>1. CASE Next
    BY <1>1, AdvanceWorkloadStep, CommitDuringStep, CommitAfterStep DEF Next
<1>2. CASE UNCHANGED vars
    BY <1>2 DEF vars, Inv, TypeOK, OnlyPending, ChainIsPrefix, PhasesInOrder,
                Committed, WorkloadsDone, ToSet
<1>. QED BY <1>1, <1>2

\* Inv holds in every state of every rollout.
THEOREM Invariance == Spec => []Inv
BY InitInv, NextInv, PTL DEF Spec, Safety

\* The state is well typed: a workload never leaves its progression and only
\* migrations of the plan commit.
THEOREM TypeCorrect == Spec => []TypeOK
<1>1. Inv => TypeOK BY DEF Inv
<1>. QED BY <1>1, Invariance, PTL

\* The timing a plan declares is kept, whatever the plan and however its
\* workloads and during-migrations interleave.
THEOREM TimingKept == Spec => []PhasesInOrder
<1>1. Inv => PhasesInOrder BY DEF Inv
<1>. QED BY <1>1, Invariance, PTL

-----------------------------------------------------------------------------
(* A column retyped again and again.                                       *)

\* What the compatibility table calls a widening keeps every value.
LEMMA WideningKeepsValues ==
    ASSUME NEW old \in Types, NEW new \in Types,
           ClassifyTypeChange(old, new) = "Widening"
    PROVE  Holds(old) \subseteq Holds(new)
<1>1. /\ old.family \in Families /\ new.family \in Families
      /\ old.size \in Nat \cup {Unbounded} /\ new.size \in Nat \cup {Unbounded}
      /\ old.size = Unbounded => old.family = "varchar"
      /\ new.size = Unbounded => new.family = "varchar"
      /\ Sizes \subseteq Nat
    BY TypesAssumption
<1>2. CASE old.family = "integer"
    <2>1. new.family = "integer" /\ new.size >= old.size
        BY <1>1, <1>2 DEF ClassifyTypeChange, CompareRank, Families
    <2>2. \A s \in Sizes : s <= old.size => s <= new.size
        BY <1>1, <1>2, <2>1 DEF Unbounded
    <2>. QED BY <1>2, <2>1, <2>2 DEF Holds
<1>3. CASE old.family = "float"
    <2>1. new.family = "float" /\ new.size >= old.size
        BY <1>1, <1>3 DEF ClassifyTypeChange, CompareRank, Families
    <2>2. \A s \in Sizes : s <= old.size => s <= new.size
        BY <1>1, <1>3, <2>1 DEF Unbounded
    <2>. QED BY <1>3, <2>1, <2>2 DEF Holds
<1>4. CASE old.family = "text"
    <2>1. \/ new.family = "text"
          \/ new.family = "varchar" /\ new.size = Unbounded
        BY <1>1, <1>4 DEF ClassifyTypeChange, Families
    <2>. QED BY <1>4, <2>1 DEF Holds
<1>5. CASE old.family = "varchar"
    <2>1. CASE new.family = "text"
        BY <1>5, <2>1 DEF Holds
    <2>2. CASE new.family = "varchar"
        <3>1. \/ new.size = Unbounded
              \/ old.size # Unbounded /\ new.size >= old.size
            <4>1. CompareBoundedSize(old.size, new.size) = "Widening"
                BY <1>5, <2>2 DEF ClassifyTypeChange
            <4>. QED BY <4>1 DEF CompareBoundedSize, CompareRank
        <3>2. \A s \in Sizes : old.size = Unbounded \/ s <= old.size
                                  => new.size = Unbounded \/ s <= new.size
            BY <1>1, <3>1 DEF Unbounded
        <3>. QED BY <1>5, <2>2, <3>2 DEF Holds
    <2>3. CASE new.family \notin {"text", "varchar"}
        BY <1>1, <1>5, <2>3 DEF ClassifyTypeChange, Families
    <2>. QED BY <2>1, <2>2, <2>3
<1>6. CASE old.family = "other"
    BY <1>1, <1>6 DEF ClassifyTypeChange, Families
<1>. QED BY <1>1, <1>2, <1>3, <1>4, <1>5, <1>6 DEF Families

\* The inductive invariant.
ChainInv == ChainTypeOK /\ UnflaggedKeepsValues

\* Inv holds of every chain of changes.
THEOREM ChainInvariance == ChainSpec => []ChainInv
<1>1. ChainBegins => ChainInv
    BY DEF ChainBegins, ChainInv, ChainTypeOK, UnflaggedKeepsValues
<1>2. ChainInv /\ [Retyping]_chainVars => ChainInv'
    <2> SUFFICES ASSUME ChainInv, [Retyping]_chainVars PROVE ChainInv'
        OBVIOUS
    <2>1. ASSUME NEW t \in Types, AlterColumnType(t) PROVE ChainInv'
        <3>1. ChainTypeOK'
            BY <2>1 DEF AlterColumnType, ChainInv, ChainTypeOK
        <3>2. ASSUME ~flagged' PROVE Holds(firstType)' \subseteq Holds(columnType)'
            <4>1. ~flagged /\ ClassifyTypeChange(columnType, t) = "Widening"
                BY <2>1, <3>2 DEF AlterColumnType
            <4>2. Holds(columnType) \subseteq Holds(t)
                BY <4>1, WideningKeepsValues DEF ChainInv, ChainTypeOK
            <4>3. Holds(firstType) \subseteq Holds(columnType)
                BY <4>1 DEF ChainInv, UnflaggedKeepsValues
            <4>4. columnType' = t /\ firstType' = firstType
                BY <2>1 DEF AlterColumnType
            <4>. QED BY <4>2, <4>3, <4>4
        <3>. QED BY <3>1, <3>2 DEF ChainInv, UnflaggedKeepsValues
    <2>2. CASE UNCHANGED chainVars
        BY <2>2 DEF chainVars, ChainInv, ChainTypeOK, UnflaggedKeepsValues
    <2>. QED BY <2>1, <2>2 DEF Retyping
<1>. QED BY <1>1, <1>2, PTL DEF ChainSpec

\* A column always has one of the types, and so has the one it was written for.
THEOREM ChainTypeCorrect == ChainSpec => []ChainTypeOK
<1>1. ChainInv => ChainTypeOK
    BY DEF ChainInv
<1>. QED BY <1>1, ChainInvariance, PTL

\* However often a column is retyped, as long as RP-DB-003 finds nothing the
\* values of its first type still fit.
THEOREM ValuesKept == ChainSpec => []UnflaggedKeepsValues
<1>1. ChainInv => UnflaggedKeepsValues
    BY DEF ChainInv
<1>. QED BY <1>1, ChainInvariance, PTL

-----------------------------------------------------------------------------

\* A change between known types that is not called a widening has some value
\* of the old type that does not fit the new one.
LEMMA FlaggedLosesValues ==
    ASSUME Nat \subseteq Sizes, NEW old \in Types, NEW new \in Types,
           "other" \notin {old.family, new.family},
           ClassifyTypeChange(old, new) # "Widening"
    PROVE  ~(Holds(old) \subseteq Holds(new))
<1>1. /\ old.family \in Families /\ new.family \in Families
      /\ old.size \in Nat \cup {Unbounded} /\ new.size \in Nat \cup {Unbounded}
      /\ old.size = Unbounded => old.family = "varchar"
      /\ new.size = Unbounded => new.family = "varchar"
      /\ Sizes = Nat
    BY TypesAssumption
<1>2. SUFFICES \E v : v \in Holds(old) /\ v \notin Holds(new)
    OBVIOUS
<1>3. CASE old.family = "integer"
    <2>1. <<"integer", old.size>> \in Holds(old)
        BY <1>1, <1>3 DEF Holds
    <2>2. new.family = "integer" => ~(old.size <= new.size)
        BY <1>1, <1>3 DEF ClassifyTypeChange, CompareRank, Unbounded
    <2>3. <<"integer", old.size>> \notin Holds(new)
        BY <1>1, <2>2 DEF Holds, Families
    <2>. QED BY <2>1, <2>3
<1>4. CASE old.family = "float"
    <2>1. <<"float", old.size>> \in Holds(old)
        BY <1>1, <1>4 DEF Holds
    <2>2. new.family = "float" => ~(old.size <= new.size)
        BY <1>1, <1>4 DEF ClassifyTypeChange, CompareRank, Unbounded
    <2>3. <<"float", old.size>> \notin Holds(new)
        BY <1>1, <2>2 DEF Holds, Families
    <2>. QED BY <2>1, <2>3
<1>5. CASE old.family = "text"
    <2>1. new.family # "text" /\ (new.family = "varchar" => new.size \in Nat)
        BY <1>1, <1>5 DEF ClassifyTypeChange
    <2>2. CASE new.family = "varchar"
        <3>1. new.size + 1 \in Nat /\ ~(new.size + 1 <= new.size) /\ new.size # Unbounded
            BY <2>1, <2>2 DEF Unbounded
        <3>2. <<"text", new.size + 1>> \in Holds(old)
            BY <1>1, <1>5, <3>1 DEF Holds
        <3>3. <<"text", new.size + 1>> \notin Holds(new)
            BY <2>2, <3>1 DEF Holds
        <3>. QED BY <3>2, <3>3
    <2>3. CASE new.family # "varchar"
        <3>1. <<"text", 0>> \in Holds(old)
            BY <1>1, <1>5 DEF Holds
        <3>2. <<"text", 0>> \notin Holds(new)
            BY <1>1, <2>1, <2>3 DEF Holds, Families
        <3>. QED BY <3>1, <3>2
    <2>. QED BY <2>2, <2>3
<1>6. CASE old.family = "varchar"
    <2>1. CASE new.family = "varchar"
        <3>1. /\ new.size \in Nat /\ new.size # Unbounded
              /\ old.size = Unbounded \/ (old.size \in Nat /\ ~(old.size <= new.size))
            <4>1. ClassifyTypeChange(old, new) = CompareBoundedSize(old.size, new.size)
                BY <1>6, <2>1 DEF ClassifyTypeChange
            <4>2. new.size # Unbounded
                BY <4>1 DEF CompareBoundedSize
            <4>3. old.size # Unbounded => ~(new.size >= old.size)
                BY <4>1, <4>2 DEF CompareBoundedSize, CompareRank
            <4>. QED BY <1>1, <4>2, <4>3 DEF Unbounded
        <3> DEFINE n == new.size + 1
        <3>2. /\ n \in Nat /\ ~(n <= new.size)
              /\ old.size = Unbounded \/ n <= old.size
            BY <3>1
        <3> HIDE DEF n
        <3>3. <<"text", n>> \in Holds(old)
            BY <1>1, <1>6, <3>2 DEF Holds
        <3>4. <<"text", n>> \notin Holds(new)
            BY <2>1, <3>1, <3>2 DEF Holds
        <3>. QED BY <3>3, <3>4
    <2>2. CASE new.family # "varchar"
        <3>1. new.family \in {"integer", "float"}
            BY <1>1, <1>6, <2>2 DEF ClassifyTypeChange, Families
        <3>2. <<"text", 0>> \in Holds(old)
            BY <1>1, <1>6 DEF Holds, Unbounded
        <3>3. <<"text", 0>> \notin Holds(new)
            BY <3>1 DEF Holds
        <3>. QED BY <3>2, <3>3
    <2>. QED BY <2>1, <2>2
<1>. QED BY <1>1, <1>3, <1>4, <1>5, <1>6 DEF Families

\* Where values of every size are told apart, a change between known types is
\* flagged only when some value of the old type may not fit.
THEOREM OnlyLossFlagged ==
    ASSUME Nat \subseteq Sizes
    PROVE  ChainSpec => FlagsOnlyLoss
<1>1. ChainInv /\ [Retyping]_chainVars =>
         [flagged' /\ ~flagged /\ "other" \notin {columnType.family, columnType'.family}
             => ~(Holds(columnType) \subseteq Holds(columnType'))]_chainVars
    <2> SUFFICES ASSUME ChainInv, NEW t \in Types, AlterColumnType(t), flagged', ~flagged,
                        "other" \notin {columnType.family, columnType'.family}
                 PROVE  ~(Holds(columnType) \subseteq Holds(columnType'))
        BY DEF Retyping
    <2>1. columnType' = t /\ ClassifyTypeChange(columnType, t) # "Widening" /\ columnType \in Types
        BY DEF AlterColumnType, ChainInv, ChainTypeOK
    <2>. QED BY <2>1, FlaggedLosesValues
<1>. QED BY <1>1, ChainInvariance, PTL DEF ChainSpec, FlagsOnlyLoss
=============================================================================
