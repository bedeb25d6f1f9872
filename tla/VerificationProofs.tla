------------------------- MODULE VerificationProofs -------------------------
(***************************************************************************)
(* What the tool's answer is worth, for every project.                     *)
(*                                                                         *)
(* Inv follows the deployment: it is always at a position of the graph     *)
(* (Place), the operations the database has gone through are those of the  *)
(* node there, and the node's schema state tells the database's when the   *)
(* during-migrations are independent (Followed); a rollback starts from a  *)
(* state that tells the target node's (RolledBack).  With what             *)
(* EvaluationProofs says of the report this gives the promises.            *)
(*                                                                         *)
(* Three hypotheses stand before promises that need them.  Honest: a       *)
(* contract says what its version does; a version without one may do       *)
(* anything.  Independent: no two during-migrations name a column in       *)
(* common; otherwise the order they commit in matters and a node has only  *)
(* one.  DistinctIds: no two migrations share an ID.                       *)
(***************************************************************************)
EXTENDS Verification, EvaluationProofs

-----------------------------------------------------------------------------
(* What holds at every moment of the deployment.                           *)

\* The position of the deployment, and what the database's state is to the
\* node that is there.
Place == Position(steps, ToSet(trail) \cap During(plan), ToSet(trail) \cap After(plan))
Followed ==
    /\ IsState(TrueState)
    /\ Ops(TrueState) = Ops(SchemaStateAt(plan, Place))
    /\ Independent(plan) => Tells(plan, Place, TrueState)

\* The state a rollback started from, and the one the tool judged it by.
Final == SchemaState(plan.base, plan.history, plan.unknown)
ToldAtEnd == SchemaStateAt(project.plan, TargetPosition(project.plan))
RolledBack ==
    /\ CanBuildRollback(project.plan)
    /\ IsState(Final) /\ plan = RollbackPlan(project.plan, Final)
    /\ Ops(Final) = Ops(ToldAtEnd)
    /\ Independent(project.plan) => SameEvidence(ToldAtEnd, Final)

Inv ==
    /\ project \in Projects
    /\ Verified => report = Run(project)
    /\ Forward \/ RolledBack
    /\ IsPlan(plan)
    /\ steps \in [Workloads(plan) -> Steps]
    /\ trail \in Seq(DOMAIN plan.migrations)
    /\ ToSet(trail) \subseteq During(plan) \cup After(plan)
    /\ Place \in Positions(plan)
    /\ Followed

\* The deployment's own definitions are those of the graph.
LEMMA DeploymentIs ==
    /\ D!Workloads(plan) = Workloads(plan) /\ D!LastStep = LastStep
    /\ D!During(plan) = During(plan) /\ D!After(plan) = After(plan)
    /\ D!Committed = ToSet(trail) /\ Here = Place
    /\ D!WorkloadsDone <=> \A w \in Workloads(plan) : steps[w] = LastStep
    /\ \A w : D!CanAdvance(w) <=> steps[w] < LastStep
    /\ \A i : D!CanCommitDuring(i) <=> i \notin ToSet(trail)
    /\ \A i : D!CanCommitAfter(i) <=> /\ \A w \in Workloads(plan) : steps[w] = LastStep
                                      /\ During(plan) \subseteq ToSet(trail)
                                      /\ UpTo(plan, i) \ {i} \subseteq ToSet(trail)
                                      /\ i \notin ToSet(trail)
<1>1. /\ D!Workloads(plan) = Workloads(plan) /\ D!LastStep = LastStep
      /\ D!During(plan) = During(plan) /\ D!After(plan) = After(plan)
      /\ \A i : D!UpTo(plan, i) = UpTo(plan, i)
    BY DEF D!Workloads, Workloads, D!LastStep, LastStep, D!During, During,
           D!After, After, D!InPhase, InPhase, D!UpTo, UpTo
<1>2. D!Committed = ToSet(trail)
    BY DEF D!Committed, D!ToSet, ToSet
<1>3. Here = Place
    BY <1>1, <1>2 DEF Here, Place
<1>4. D!WorkloadsDone <=> \A w \in Workloads(plan) : steps[w] = LastStep
    BY <1>1 DEF D!WorkloadsDone
<1>5. \A w : D!CanAdvance(w) <=> steps[w] < LastStep
    BY <1>1 DEF D!CanAdvance
<1>6. \A i : D!CanCommitDuring(i) <=> i \notin ToSet(trail)
    BY <1>2 DEF D!CanCommitDuring
<1>7. \A i : D!CanCommitAfter(i) <=> /\ \A w \in Workloads(plan) : steps[w] = LastStep
                                     /\ During(plan) \subseteq ToSet(trail)
                                     /\ UpTo(plan, i) \ {i} \subseteq ToSet(trail)
                                     /\ i \notin ToSet(trail)
    BY <1>1, <1>2, <1>4 DEF D!CanCommitAfter
<1>. QED BY <1>1, <1>2, <1>3, <1>4, <1>5, <1>6, <1>7

\* Before anything has happened, the database is as the start node tells.
LEMMA FollowedAtStart == IsPlan(plan) /\ trail = <<>> => Followed
<1> SUFFICES ASSUME IsPlan(plan), trail = <<>> PROVE Followed
    OBVIOUS
<1>1. TrueState = BaseState(plan)
    <2>1. <<>> \in Seq({0}) /\ 0 \in {0}
        OBVIOUS
    <2>2. StateAfter(plan, <<>>) = BaseState(plan)
        BY <2>1, TrailSteps
    <2>. QED BY <2>2 DEF TrueState
<1>2. ToSet(trail) = {}
    BY DEF ToSet
<1>3. Place.during = {} /\ Place.after = {}
    BY <1>2 DEF Place, Position
<1>4. Tells(plan, Place, BaseState(plan))
    BY <1>3, TellsAtStart
<1>. QED BY <1>1, <1>4 DEF Followed, Tells

AtStart == trail = <<>> /\ steps = [w \in Workloads(plan) |-> 0]
Placed ==
    /\ steps \in [Workloads(plan) -> Steps]
    /\ trail \in Seq(DOMAIN plan.migrations)
    /\ ToSet(trail) \subseteq During(plan) \cup After(plan)
    /\ Place \in Positions(plan)

\* Where nothing was done yet is a node of the graph.
LEMMA StartPlace == IsPlan(plan) /\ AtStart => Placed
<1> SUFFICES ASSUME IsPlan(plan), AtStart PROVE Placed
    OBVIOUS
<1>0. trail = <<>> /\ steps = [w \in Workloads(plan) |-> 0]
    BY DEF AtStart
<1>1. steps \in [Workloads(plan) -> Steps]
    BY <1>0 DEF Steps, LastStep
<1>2. ToSet(trail) = {} /\ trail \in Seq(DOMAIN plan.migrations)
    BY <1>0 DEF ToSet
<1>3. Place = Position(steps, {}, {})
    BY <1>2 DEF Place
<1>4. {} \in SUBSET During(plan)
    OBVIOUS
<1>. QED BY <1>1, <1>2, <1>3, <1>4 DEF Positions, Placed

\* Inv holds before the tool runs.
LEMMA InitInv == Init => Inv
<1> SUFFICES ASSUME Init PROVE Inv
    OBVIOUS
<1>1. /\ project \in Projects /\ plan = project.plan /\ IsPlan(plan)
      /\ steps = [w \in Workloads(plan) |-> 0] /\ trail = <<>> /\ report = <<>>
    BY ProjectsAssumption DEF Init
<1>. QED BY <1>1, FollowedAtStart, StartPlace DEF Inv, Verified, Forward, AtStart, Placed

\* A migration joins the trail: the place moves on and the database with it.
LEMMA CommitFollowed ==
    ASSUME Inv, NEW i, trail' = Append(trail, i), UNCHANGED <<plan, steps>>,
           i \in DOMAIN plan.migrations, i \in During(plan) \cup After(plan),
           \/ /\ i \in During(plan) \ Place.during
              /\ Place' = Position(steps, Place.during \cup {i}, {}) /\ Place.after = {}
           \/ /\ i \in After(plan) \ Place.after
              /\ \A j \in Place.after : j \in Int /\ j < i
              /\ Place' = Position(steps, Place.during, Place.after \cup {i})
    PROVE  Followed'
<1> DEFINE mig == plan.migrations[i]
           st == TrueState
           st2 == ApplyOne(st, mig)
           told == SchemaStateAt(plan, Place)
           told2 == SchemaStateAt(plan, Place')
<1>0. /\ trail \in Seq(DOMAIN plan.migrations) /\ IsPlan(plan)
      /\ IsState(st) /\ Ops(st) = Ops(told) /\ (Independent(plan) => Tells(plan, Place, st))
      /\ IsList(mig.operations) /\ Place \in Positions(plan)
    BY DEF Inv, Followed, IsPlan
<1>1. TrueState' = st2
    <2>1. StateAfter(plan, trail') = ApplyOne(StateAfter(plan, trail), plan.migrations[i])
        BY <1>0, TrailSteps
    <2>. QED BY <2>1 DEF TrueState
<1>2. IsState(st2) /\ Ops(st2) = Ops(st) \cup ToSet(mig.operations)
    <2> HIDE DEF st, mig
    <2>. QED BY <1>0, ApplyOneKeeps, AddedOps
<1>3. /\ Place'.during \cup Place'.after = Place.during \cup Place.after \cup {i}
      /\ Place.during \cup Place.after \subseteq DOMAIN plan.migrations
    <2>1. Place.during \subseteq During(plan) /\ Place.after \subseteq After(plan)
        BY <1>0, PositionFacts
    <2>. QED BY <2>1, <1>0, PhaseFacts DEF Position
<1>4. Ops(told2) = Ops(told) \cup ToSet(mig.operations)
    <2> DEFINE OpsOf(k) == ToSet(plan.migrations[k].operations)
               done == Place.during \cup Place.after
               more == Place'.during \cup Place'.after
    <2>1. Ops(told) = Ops(BaseState(plan)) \cup UNION {OpsOf(k) : k \in done \cap DOMAIN plan.migrations}
        BY <1>0, NodeFacts
    <2>2. Ops(told2) = Ops(BaseState(plan)) \cup UNION {OpsOf(k) : k \in more \cap DOMAIN plan.migrations}
        BY <1>0, NodeFacts
    <2>3. done \cap DOMAIN plan.migrations = done /\ more \cap DOMAIN plan.migrations = done \cup {i}
        BY <1>3
    <2>4. OpsOf(i) = ToSet(mig.operations)
        OBVIOUS
    <2> HIDE DEF OpsOf, done, more, told, told2, mig
    <2>5. UNION {OpsOf(k) : k \in done \cup {i}} = (UNION {OpsOf(k) : k \in done}) \cup OpsOf(i)
        OBVIOUS
    <2>. QED BY <2>1, <2>2, <2>3, <2>4, <2>5
<1>5. ASSUME Independent(plan) PROVE Tells(plan, Place', st2)
    <2>1. Tells(plan, Place, st)
        BY <1>0, <1>5
    <2> HIDE DEF st
    <2>2. CASE /\ i \in During(plan) \ Place.during
               /\ Place' = Position(steps, Place.during \cup {i}, {}) /\ Place.after = {}
        <3>1. Place'.during = Place.during \cup {i} /\ Place'.after = {}
              /\ Place.during \subseteq During(plan)
            BY <1>0, <2>2, PositionFacts DEF Position
        <3>. QED BY <1>0, <1>5, <2>1, <2>2, <3>1, TellsDuring
    <2>3. CASE /\ i \in After(plan) \ Place.after
               /\ \A j \in Place.after : j \in Int /\ j < i
               /\ Place' = Position(steps, Place.during, Place.after \cup {i})
        <3>1. Place'.during = Place.during /\ Place'.after = Place.after \cup {i}
            BY <2>3 DEF Position
        <3>. QED BY <1>0, <2>1, <2>3, <3>1, TellsAfter
    <2>. QED BY <2>2, <2>3
<1>6. plan' = plan
    OBVIOUS
<1> HIDE DEF st, st2, told, told2
<1>7. /\ IsState(TrueState') /\ Ops(TrueState') = Ops(told2)
      /\ Independent(plan) => Tells(plan, Place', TrueState')
    BY <1>0, <1>1, <1>2, <1>4, <1>5
<1>. QED BY <1>6, <1>7 DEF Followed, told2

\* What the plan and the report are does not change while the rollout goes on.
LEMMA StillCarried ==
    ASSUME Inv, UNCHANGED <<project, report, plan>>
    PROVE  /\ project' \in Projects
           /\ (Verified => report = Run(project))'
           /\ (Forward \/ RolledBack)'
           /\ IsPlan(plan')
BY DEF Inv, Verified, Forward, RolledBack, Final, ToldAtEnd

\* A workload that advances a step keeps Inv.
LEMMA AdvanceInv ==
    ASSUME Inv, UNCHANGED <<project, report>>,
           NEW w \in D!Workloads(plan), D!AdvanceWorkload(w)
    PROVE  Inv'
<1>1. /\ w \in Workloads(plan) /\ steps[w] < LastStep
      /\ steps' = [steps EXCEPT ![w] = @ + 1] /\ UNCHANGED <<plan, trail>>
    BY DeploymentIs DEF D!AdvanceWorkload
<1>2. /\ Place \in Positions(plan) /\ IsPlan(plan) /\ Followed
      /\ steps \in [Workloads(plan) -> Steps] /\ trail \in Seq(DOMAIN plan.migrations)
      /\ ToSet(trail) \subseteq During(plan) \cup After(plan)
    BY DEF Inv
<1>3. Place.steps = steps
    BY DEF Place, Position
<1>4. Place.after = {} /\ Position([steps EXCEPT ![w] = @ + 1], Place.during, {}) \in Positions(plan)
    BY <1>1, <1>2, <1>3, AdvancePosition
<1>5. /\ Place' = Position([steps EXCEPT ![w] = @ + 1], Place.during, {})
      /\ Place'.during = Place.during /\ Place'.after = Place.after
    BY <1>1, <1>4 DEF Place, Position
<1>6. steps' \in [Workloads(plan) -> Steps]
    BY <1>1, <1>2 DEF Steps, LastStep
<1>7. TrueState' = TrueState
    BY <1>1 DEF TrueState
<1>8. Followed'
    <2>1. SchemaStateAt(plan, Place') = SchemaStateAt(plan, Place)
        BY <1>5 DEF SchemaStateAt
    <2>2. \A st : Tells(plan, Place, st) => Tells(plan, Place', st)
        BY <2>1, <1>5 DEF Tells
    <2>. QED BY <1>1, <1>2, <1>7, <2>1, <2>2 DEF Followed
<1>. QED BY <1>1, <1>2, <1>4, <1>5, <1>6, <1>8, StillCarried DEF Inv

\* A during-migration that commits keeps Inv.
LEMMA DuringInv ==
    ASSUME Inv, UNCHANGED <<project, report>>,
           NEW i \in D!During(plan), D!CommitDuring(i)
    PROVE  Inv'
<1>1. /\ i \in During(plan) /\ i \notin ToSet(trail)
      /\ trail' = Append(trail, i) /\ UNCHANGED <<plan, steps>>
    BY DeploymentIs DEF D!CommitDuring
<1>2. /\ Place \in Positions(plan) /\ IsPlan(plan)
      /\ steps \in [Workloads(plan) -> Steps] /\ trail \in Seq(DOMAIN plan.migrations)
      /\ ToSet(trail) \subseteq During(plan) \cup After(plan)
    BY DEF Inv
<1>3. i \in DOMAIN plan.migrations /\ i \notin After(plan)
    BY <1>1, <1>2, PhaseFacts
<1>4. trail' \in Seq(DOMAIN plan.migrations) /\ ToSet(trail') = ToSet(trail) \cup {i}
    BY <1>1, <1>2, <1>3, AppendToSet
<1>5. /\ Place.steps = steps /\ Place.during = ToSet(trail) \cap During(plan)
      /\ Place.after = ToSet(trail) \cap After(plan)
    BY DEF Place, Position
<1>6. i \in During(plan) \ Place.during
    BY <1>1, <1>5
<1>7. Place.after = {} /\ Position(steps, Place.during \cup {i}, {}) \in Positions(plan)
    BY <1>2, <1>5, <1>6, DuringPosition
<1>8. Place' = Position(steps, Place.during \cup {i}, {})
    <2>1. ToSet(trail') \cap During(plan) = Place.during \cup {i}
        BY <1>1, <1>4, <1>5
    <2>2. ToSet(trail') \cap After(plan) = {}
        BY <1>3, <1>4, <1>5, <1>7
    <2>. QED BY <1>1, <2>1, <2>2 DEF Place
<1>9. Followed'
    BY <1>1, <1>3, <1>6, <1>7, <1>8, CommitFollowed
<1>. QED BY <1>1, <1>2, <1>4, <1>7, <1>8, <1>9, StillCarried DEF Inv

\* An after-migration that commits keeps Inv.
LEMMA AfterInv ==
    ASSUME Inv, UNCHANGED <<project, report>>,
           NEW i \in D!After(plan), D!CommitAfter(i)
    PROVE  Inv'
<1>1. /\ i \in After(plan) /\ i \notin ToSet(trail)
      /\ \A w \in Workloads(plan) : steps[w] = LastStep
      /\ During(plan) \subseteq ToSet(trail) /\ UpTo(plan, i) \ {i} \subseteq ToSet(trail)
      /\ trail' = Append(trail, i) /\ UNCHANGED <<plan, steps>>
    BY DeploymentIs DEF D!CommitAfter
<1>2. /\ Place \in Positions(plan) /\ IsPlan(plan)
      /\ steps \in [Workloads(plan) -> Steps] /\ trail \in Seq(DOMAIN plan.migrations)
      /\ ToSet(trail) \subseteq During(plan) \cup After(plan)
    BY DEF Inv
<1>3. i \in DOMAIN plan.migrations /\ i \notin During(plan)
    BY <1>1, <1>2, PhaseFacts
<1>4. trail' \in Seq(DOMAIN plan.migrations) /\ ToSet(trail') = ToSet(trail) \cup {i}
    BY <1>1, <1>2, <1>3, AppendToSet
<1>5. /\ Place.steps = steps /\ Place.during = ToSet(trail) \cap During(plan)
      /\ Place.after = ToSet(trail) \cap After(plan)
    BY DEF Place, Position
<1>6. i \in After(plan) \ Place.after /\ UpTo(plan, i) \ {i} \subseteq Place.after
    BY <1>1, <1>5 DEF UpTo
<1>7. Place \in Chain(plan) \cup {RolloutComplete(plan)}
    BY <1>1, <1>2, <1>5, CompleteNodes
<1>8. /\ \A j \in Place.after : j \in Int /\ j < i
      /\ Position(Place.steps, Place.during, Place.after \cup {i}) \in Positions(plan)
    BY <1>2, <1>6, <1>7, AfterPosition
<1>9. Place' = Position(steps, Place.during, Place.after \cup {i})
    <2>1. ToSet(trail') \cap During(plan) = Place.during
        BY <1>3, <1>4, <1>5
    <2>2. ToSet(trail') \cap After(plan) = Place.after \cup {i}
        BY <1>1, <1>4, <1>5
    <2>. QED BY <1>1, <2>1, <2>2 DEF Place
<1>10. Followed'
    BY <1>1, <1>3, <1>6, <1>8, <1>9, CommitFollowed
<1>. QED BY <1>1, <1>2, <1>4, <1>5, <1>8, <1>9, <1>10, StillCarried DEF Inv

\* The rollback starts where the rollout ended, at the target of its graph.
LEMMA RollBackInv ==
    ASSUME Inv, RollBack
    PROVE  Inv'
<1>1. /\ project \in Projects /\ (Verified => report = Run(project)) /\ IsPlan(plan)
      /\ Forward \/ RolledBack
      /\ ToSet(trail) \subseteq During(plan) \cup After(plan)
      /\ steps \in [Workloads(plan) -> Steps] /\ Followed
    BY DEF Inv
<1>2. /\ CanBuildRollback(plan) /\ plan' = RollbackPlan(plan, TrueState)
      /\ steps' = [w \in {1} |-> 0] /\ trail' = <<>> /\ UNCHANGED <<project, report>>
      /\ \A w \in Workloads(plan) : steps[w] = LastStep
      /\ ToSet(trail) = During(plan) \cup After(plan)
    BY DeploymentIs DEF RollBack, Done
<1>3. plan = project.plan
    <2>1. ASSUME RolledBack PROVE FALSE
        <3>1. plan.rollback = {}
            BY <2>1, RollbackPlanFacts DEF RolledBack
        <3>. QED BY <1>2, <3>1 DEF CanBuildRollback
    <2>. QED BY <1>1, <2>1 DEF Forward
<1>4. IsState(TrueState)
    BY <1>1 DEF Followed
<1> DEFINE rb == RollbackPlan(plan, TrueState)
           final == SchemaState(rb.base, rb.history, rb.unknown)
<1>5. /\ IsPlan(rb) /\ rb.migrations = <<>> /\ Workloads(rb) = 1 .. 1
      /\ BaseState(rb) = TrueState
    BY <1>4, RollbackPlanFacts
<1>6. final = TrueState
    <2>1. rb.base = TrueState.schema /\ rb.history = TrueState.committed
          /\ rb.unknown = TrueState.indeterminate
        BY DEF RollbackPlan
    <2> HIDE DEF rb
    <2>. QED BY <2>1, <1>4 DEF IsState
<1>7. Place = TargetPosition(plan)
    <2>1. ToSet(trail) \cap During(plan) = During(plan) /\ ToSet(trail) \cap After(plan) = After(plan)
        BY <1>2
    <2>2. steps = [w \in Workloads(plan) |-> LastStep]
        BY <1>1, <1>2
    <2>. QED BY <2>1, <2>2 DEF Place, TargetPosition, RolloutComplete, Position
<1>8. /\ Ops(TrueState) = Ops(ToldAtEnd)
      /\ Independent(plan) => SameEvidence(ToldAtEnd, TrueState)
    BY <1>1, <1>3, <1>7 DEF Followed, ToldAtEnd, Tells
<1> HIDE DEF rb, final
<1>9. RolledBack'
    <2>1. Final' = final /\ ToldAtEnd' = ToldAtEnd
        BY <1>2 DEF Final, final, rb, ToldAtEnd
    <2>. QED BY <1>2, <1>3, <1>4, <1>6, <1>8, <2>1 DEF RolledBack
<1>10. IsPlan(plan') /\ trail' = <<>> /\ steps' = [w \in Workloads(plan') |-> 0]
    <2>1. {1} = 1 .. 1
        OBVIOUS
    <2>. QED BY <1>2, <1>5, <2>1 DEF rb
<1>11. Followed'
    <2>1. (IsPlan(plan) /\ trail = <<>> => Followed)'
        BY FollowedAtStart, PTL
    <2>. QED BY <1>10, <2>1
<1>12. /\ (steps \in [Workloads(plan) -> Steps])'
       /\ (trail \in Seq(DOMAIN plan.migrations))'
       /\ (ToSet(trail) \subseteq During(plan) \cup After(plan))'
       /\ (Place \in Positions(plan))'
    <2>1. (IsPlan(plan) /\ AtStart => Placed)'
        BY StartPlace, PTL
    <2>. QED BY <1>10, <2>1 DEF AtStart, Placed
<1>13. (project \in Projects /\ (Verified => report = Run(project)))'
    BY <1>1, <1>2 DEF Verified
<1>. QED BY <1>9, <1>10, <1>11, <1>12, <1>13 DEF Inv

\* So does every step: the tool, the deployment, the rollback.
LEMMA NextInv == Inv /\ [Next]_vars => Inv'
<1> SUFFICES ASSUME Inv, [Next]_vars PROVE Inv'
    OBVIOUS
<1>1. CASE Verify
    <2>1. report' = Run(project) /\ UNCHANGED <<project, plan, steps, trail>>
        BY <1>1 DEF Verify
    <2>2. Followed'
        BY <2>1 DEF Inv, Followed, Place, TrueState
    <2>. QED BY <2>1, <2>2 DEF Inv, Verified, Forward, RolledBack, Final, ToldAtEnd, Place
<1>2. CASE Deploy
    <2>1. D!Next /\ UNCHANGED <<project, report>>
        BY <1>2 DEF Deploy
    <2>. QED BY <2>1, AdvanceInv, DuringInv, AfterInv DEF D!Next
<1>3. CASE RollBack
    BY <1>3, RollBackInv
<1>4. CASE UNCHANGED vars
    <2>1. UNCHANGED <<project, report, plan, steps, trail>>
        BY <1>4 DEF vars
    <2>2. Followed'
        BY <2>1 DEF Inv, Followed, Place, TrueState
    <2>. QED BY <2>1, <2>2 DEF Inv, Verified, Forward, RolledBack, Final, ToldAtEnd, Place
<1>. QED BY <1>1, <1>2, <1>3, <1>4 DEF Next

\* Inv holds at every moment of every deployment.
THEOREM Invariance == Spec => []Inv
BY InitInv, NextInv, PTL DEF Spec

\* The report has its twenty-one diagnostics and the deployment is always
\* somewhere in the plan it carries out.
THEOREM TypeCorrect == Spec => []TypeOK
<1>1. Inv => TypeOK
    <2> SUFFICES ASSUME Inv PROVE TypeOK
        OBVIOUS
    <2>1. /\ steps \in [Workloads(plan) -> Steps] /\ trail \in Seq(DOMAIN plan.migrations)
          /\ project \in Projects /\ (Verified => report = Run(project))
        BY DEF Inv
    <2>2. IsReport(Run(project), 21)
        BY <2>1, ProjectsAssumption, RunReport
    <2>. QED BY <2>1, <2>2 DEF TypeOK, IsReport, IsDiagnostic
<1>. QED BY <1>1, Invariance, PTL

\* RP-ROLLBACK-003 scans the trail a second time, for its own classification.
\* Whatever the plan and the contracts, the two scans agree on what is safe.
THEOREM BothScansAgree == Spec => []RollbackVerdictsAgree
<1>1. Inv => RollbackVerdictsAgree
    <2> SUFFICES ASSUME Inv, Verified, project.plan.rollback # {}
                 PROVE  VerdictOf(RollbackOverall) = "SAFE" <=> report[RollbackOverall].rollback = "SAFE"
        BY DEF RollbackVerdictsAgree
    <2>1. report = Run(project) /\ IsPlan(project.plan)
        BY ProjectsAssumption DEF Inv
    <2> DEFINE rollback == EvaluateRollbackPlan(project.plan, Build(project.plan), project.services)
    <2>2. report[10] = rollback[4]
        BY <2>1, RunReport
    <2>3. rollback[4].verdict = "SAFE" <=> rollback[4].rollback = "SAFE"
        BY <2>1, RollbackReport
    <2> HIDE DEF rollback
    <2>. QED BY <2>2, <2>3 DEF VerdictOf, RollbackOverall
<1>. QED BY <1>1, Invariance, PTL

-----------------------------------------------------------------------------
(* What SAFE promises.                                                     *)

\* A contract says of its version what the version does.
Honest(p) == \A lv \in DOMAIN p.services : p.actual[lv] = p.services[lv]

\* The node the deployment is at.
NodeHere == NodeAt(plan, Place)
\* It is a node of the graph and has the versions that are live.
LEMMA NodeHereFacts ==
    ASSUME Inv
    PROVE  /\ NodeHere \in Build(plan) /\ NodeHere.live = Live
           /\ NodeHere.schema = SchemaStateAt(plan, Place).schema
           /\ NodeHere.committed = SchemaStateAt(plan, Place).committed
           /\ NodeHere.indeterminate = SchemaStateAt(plan, Place).indeterminate
<1>1. Place \in Positions(plan) /\ Place.steps = steps
    BY DEF Inv, Place, Position
<1>. QED BY <1>1, GraphNodes, NodeAtFacts DEF NodeHere, Live

\* At a node that is clean, a state with the same evidence breaks nobody.
LEMMA CleanBreaksNobody ==
    ASSUME Honest(project), NEW n, CleanColumns(n, project.services),
           NEW st, SameEvidence(n, st), NEW lv \in n.live
    PROVE  ~Broken(lv, st)
<1> DEFINE services == project.services
           svc == services[lv]
<1>1. ~n.indeterminate /\ HasContract(services, lv)
    BY CleanExistence DEF CleanColumns
<1>2. /\ ~st.indeterminate /\ st.schema = n.schema /\ ToSet(st.committed) = ToSet(n.committed)
    BY <1>1 DEF SameEvidence
<1>3. project.actual[lv] = svc
    BY <1>1 DEF HasContract, Honest
<1>4. svc.reads \subseteq DOMAIN n.schema /\ svc.writes \subseteq DOMAIN n.schema
    BY EveryColumnExists DEF CleanColumns
<1>5. svc["reads"] = svc.reads /\ svc["writes"] = svc.writes
    OBVIOUS
<1>6. \A ref \in Required(n.schema) : WritesTable(svc, ref.table) => WritesColumn(svc, ref)
    BY EveryWriteIsComplete DEF CleanColumns
<1>7. \A cop \in ToSet(n.committed) :
         cop.op.kind = "AlterColumnType" /\ NonWidening(cop) => ~UsesColumn(svc, TargetColumn(cop.op))
    BY EveryTypeStillFits DEF CleanColumns
<1> HIDE DEF svc
<1>8. Misses(lv, "reads", st.schema) = {} /\ Misses(lv, "writes", st.schema) = {}
    BY <1>2, <1>3, <1>4, <1>5 DEF Misses
<1>9. Rejected(lv, st.schema) = {}
    BY <1>2, <1>3, <1>6 DEF Rejected, OmitsColumn
<1>10. Narrowed(lv, st.committed) = {}
    BY <1>2, <1>3, <1>7 DEF Narrowed
<1>. QED BY <1>2, <1>8, <1>9, <1>10 DEF Broken

\* While the rollout is under way the node it is at tells the database's state.
LEMMA ForwardEvidence ==
    ASSUME Inv, Independent(plan)
    PROVE  SameEvidence(NodeHere, TrueState)
<1>1. SameEvidence(SchemaStateAt(plan, Place), TrueState)
    BY DEF Inv, Followed, Tells
<1>. QED BY <1>1, NodeHereFacts DEF SameEvidence

\* A rollback the column checks accept breaks nobody.
LEMMA SafeRollback ==
    ASSUME Inv, Verified, ~Forward, Honest(project), Independent(project.plan),
           VerdictOf(OnNewSchema) = "SAFE"
    PROVE  ~SomeBroken(Live)
<1>1. /\ report = Run(project) /\ IsPlan(project.plan) /\ RolledBack /\ IsPlan(plan)
      /\ Place \in Positions(plan) /\ trail \in Seq(DOMAIN plan.migrations)
    BY ProjectsAssumption DEF Inv
<1> DEFINE rb == BuildRollback(project.plan)
           rollback == EvaluateRollbackPlan(project.plan, Build(project.plan), project.services)
           n == NodeAt(rb, Place)
<1>2. /\ project.plan.rollback # {} /\ IsState(Final) /\ plan = RollbackPlan(project.plan, Final)
      /\ SameEvidence(ToldAtEnd, Final)
    BY <1>1 DEF RolledBack, CanBuildRollback
<1>3. IsState(ToldAtEnd)
    BY <1>1, NodeFacts DEF ToldAtEnd
<1>4. rb = RollbackPlan(project.plan, ToldAtEnd)
    BY DEF BuildRollback, ToldAtEnd
<1>5. \A m \in Build(rb) : CleanColumns(m, project.services)
    <2>1. rollback[3].verdict = "SAFE" =>
             CanBuildRollback(project.plan)
             /\ \A m \in Build(rb) : CleanColumns(m, project.services)
        BY <1>1, <1>2, RollbackReport
    <2>2. report[9] = rollback[3]
        BY <1>1, RunReport
    <2> HIDE DEF rollback, rb
    <2>. QED BY <2>1, <2>2 DEF VerdictOf, OnNewSchema
<1>6. /\ Positions(rb) = Positions(plan)
      /\ \A s : LiveSet(rb, s) = LiveSet(plan, s)
    BY <1>2, <1>3, <1>4, RollbackPlansAlike
<1>7. SchemaStateAt(rb, Place) = ToldAtEnd
    BY <1>3, <1>4, RollbackPlanFacts
<1>8. TrueState = Final
    <2>1. plan.migrations = <<>> /\ BaseState(plan) = Final
        BY <1>2, RollbackPlanFacts
    <2>2. trail = <<>>
        BY <1>1, <2>1
    <2>3. StateAfter(plan, <<>>) = BaseState(plan)
        <3>1. <<>> \in Seq({0}) /\ 0 \in {0}
            OBVIOUS
        <3>. QED BY <3>1, TrailSteps
    <2>. QED BY <2>1, <2>2, <2>3 DEF TrueState
<1>9. n \in Build(rb) /\ n.live = Live
    <2>1. Place.steps = steps
        BY DEF Place, Position
    <2> HIDE DEF rb
    <2>. QED BY <1>1, <1>6, <2>1, GraphNodes, NodeAtFacts DEF Live
<1>10. SameEvidence(n, Final)
    <2> HIDE DEF rb
    <2>1. n.schema = ToldAtEnd.schema /\ n.committed = ToldAtEnd.committed
          /\ n.indeterminate = ToldAtEnd.indeterminate
        BY <1>7, NodeAtFacts
    <2>. QED BY <2>1, <1>2 DEF SameEvidence
<1> HIDE DEF n, rb
<1>11. \A lv \in n.live : ~Broken(lv, Final)
    BY <1>5, <1>9, <1>10, CleanBreaksNobody
<1>. QED BY <1>8, <1>9, <1>11 DEF SomeBroken

\* RP-ROLLBACK-002 alone answers for the rollback: when it is SAFE, no version
\* that is live during the rollback breaks on the schema the rollout left
\* behind, whatever the other verdicts are.
THEOREM RollbackSafe ==
    Spec => [](Honest(project) /\ Independent(project.plan) => RollbackSafeMeansSafe)
<1>1. Inv => (Honest(project) /\ Independent(project.plan) => RollbackSafeMeansSafe)
    BY SafeRollback DEF RollbackSafeMeansSafe
<1>. QED BY <1>1, Invariance, PTL

\* SAFE is a promise: for every plan that commits something, every catalogue of
\* honest contracts and every order of events, a SAFE verdict means that no live
\* version breaks at any moment, and none in the rollback after.
THEOREM Safe ==
    Spec => [](Honest(project) /\ Independent(project.plan) => SafeMeansSafe)
<1>1. Inv => (Honest(project) /\ Independent(project.plan) => SafeMeansSafe)
    <2> SUFFICES ASSUME Inv, Honest(project), Independent(project.plan),
                        Verified, CommitsSomething, Aggregate(report) = "SAFE"
                 PROVE  ~SomeBroken(Live)
        BY DEF SafeMeansSafe
    <2>1. /\ report = Run(project) /\ IsPlan(project.plan) /\ ValidPlan(project.plan)
        BY ProjectsAssumption DEF Inv
    <2>2. \A i \in 1 .. 15 : report[i].verdict = "SAFE"
        BY <2>1, AggregateSafe
    <2>3. CASE ~Forward
        <3>1. VerdictOf(OnNewSchema) = "SAFE"
            BY <2>2 DEF VerdictOf, OnNewSchema
        <3>. QED BY <2>3, <3>1, SafeRollback
    <2>4. CASE Forward
        <3> DEFINE nodes == Build(project.plan)
                   column == EvaluateColumnFamily(project.plan, nodes, project.services, TRUE)
        <3>1. plan = project.plan
            BY <2>4 DEF Forward
        <3>2. \A i \in 1 .. 5 : column[i].verdict = "SAFE"
            <4>1. \A i \in 1 .. 6 : report[i] = column[i]
                BY <2>1, RunReport
            <4> HIDE DEF column
            <4>2. \A i \in 1 .. 5 : i \in 1 .. 6 /\ i \in 1 .. 15
                OBVIOUS
            <4>. QED BY <2>2, <4>1, <4>2
        <3>3. GraphHasAnyCommittedOp(nodes)
            BY <2>1, SomethingCommitted DEF CommitsSomething
        <3>4. NodeHere \in nodes /\ NodeHere.live = Live
            BY <3>1, NodeHereFacts
        <3> HIDE DEF nodes
        <3>5. CleanColumns(NodeHere, project.services)
            BY <3>2, <3>3, <3>4, ColumnFamilySafe
        <3>6. SameEvidence(NodeHere, TrueState)
            BY <3>1, ForwardEvidence
        <3>7. \A lv \in NodeHere.live : ~Broken(lv, TrueState)
            BY <3>5, <3>6, CleanBreaksNobody
        <3>. QED BY <3>4, <3>7 DEF SomeBroken
    <2>. QED BY <2>3, <2>4
<1>. QED BY <1>1, Invariance, PTL

\* A rollback RP-DB-007 lets through restores no version whose column was
\* dropped, with its data, on the way: for every order the migrations committed
\* in, and whatever they name in common.
THEOREM NoDataLost ==
    Spec => [](Honest(project) => RollbackLosesNoData)
<1>1. Inv => (Honest(project) => RollbackLosesNoData)
    <2> SUFFICES ASSUME Inv, Honest(project), Verified, ~Forward, VerdictOf(Irreversible) = "SAFE",
                        NEW t \in project.plan.rollback, NEW cop \in ToSet(TrueState.committed),
                        cop.op.kind = "DropColumn"
                 PROVE  ~UsesColumn(project.actual[LiveVersion(t.service, t.to)], TargetColumn(cop.op))
        BY DEF RollbackLosesNoData
    <2>1. /\ report = Run(project) /\ IsPlan(project.plan) /\ RolledBack
          /\ trail \in Seq(DOMAIN plan.migrations)
        BY ProjectsAssumption DEF Inv
    <2> DEFINE lv == LiveVersion(t.service, t.to)
               rollback == EvaluateRollbackPlan(project.plan, Build(project.plan), project.services)
    <2>2. Restored(project.plan) = lv
        <3>1. RollbackVersions(project.plan) = {lv}
            BY <2>1 DEF RollbackVersions, IsPlan
        <3>. QED BY <3>1 DEF Restored
    <2>3. /\ HasContract(project.services, lv)
          /\ \A c \in Removals(ToldAtEnd.committed) :
                UsesColumn(project.services[lv], TargetColumn(c.op)) => Reversibility(c.op) # "Irreversible"
        <3>1. rollback[1].verdict = "SAFE" =>
                 /\ HasContract(project.services, Restored(project.plan))
                 /\ \A c \in Removals(ToldAtEnd.committed) :
                       UsesColumn(project.services[Restored(project.plan)], TargetColumn(c.op))
                          => Reversibility(c.op) # "Irreversible"
            BY <2>1, RollbackReport DEF ToldAtEnd
        <3>2. report[7] = rollback[1]
            BY <2>1, RunReport
        <3> HIDE DEF rollback
        <3>3. rollback[1].verdict = "SAFE"
            BY <3>2 DEF VerdictOf, Irreversible
        <3> HIDE DEF lv
        <3>. QED BY <2>2, <3>1, <3>3
    <2>4. cop.op \in Ops(ToldAtEnd)
        <3>1. IsState(Final) /\ plan = RollbackPlan(project.plan, Final) /\ Ops(Final) = Ops(ToldAtEnd)
            BY <2>1 DEF RolledBack
        <3>2. plan.migrations = <<>> /\ BaseState(plan) = Final
            BY <3>1, RollbackPlanFacts
        <3>3. trail = <<>>
            BY <2>1, <3>2
        <3>4. StateAfter(plan, <<>>) = BaseState(plan)
            <4>1. <<>> \in Seq({0}) /\ 0 \in {0}
                OBVIOUS
            <4>. QED BY <4>1, TrailSteps
        <3>5. TrueState = Final
            BY <3>2, <3>3, <3>4 DEF TrueState
        <3>6. cop.op \in Ops(Final)
            BY <3>5 DEF Ops
        <3>. QED BY <3>1, <3>6
    <2>5. PICK c \in ToSet(ToldAtEnd.committed) : c.op = cop.op
        BY <2>4 DEF Ops
    <2>6. c \in Removals(ToldAtEnd.committed) /\ Reversibility(c.op) = "Irreversible"
        BY <2>5 DEF Removals, Reversibility
    <2>7. project.actual[lv] = project.services[lv]
        BY <2>3 DEF Honest, HasContract
    <2> HIDE DEF lv
    <2>8. ~UsesColumn(project.actual[lv], TargetColumn(cop.op))
        BY <2>3, <2>5, <2>6, <2>7
    <2>. QED BY <2>8 DEF lv
<1>. QED BY <1>1, Invariance, PTL

-----------------------------------------------------------------------------
(* The other families, at every moment of the rollout.                     *)

\* What every version a rollout makes live declares is what it does, where the
\* node it is at has no gap for want of a contract.
LEMMA LiveIsDeclared ==
    ASSUME Honest(project), NEW lv, HasContract(project.services, lv)
    PROVE  project.actual[lv] = project.services[lv]
BY DEF Honest, HasContract

\* At a node where the order check is clean, every live version's minimum is met.
LEMMA CleanOrder ==
    ASSUME NEW n, NEW services, Clean(OrderFinding(n, services)),
           NEW lv \in n.live
    PROVE  /\ HasContract(services, lv)
           /\ \A dep \in services[lv].dependsOn : dep.min # Unconstrained =>
                 /\ LiveProviders(n.live, dep) # {}
                 /\ \A plv \in LiveProviders(n.live, dep) :
                       Comparable(plv.version, dep.min) /\ ~TooOld(plv.version, dep.min)
<1> DEFINE deps == Dependencies(n.live, services)
           late == {d \in deps : \E plv \in LiveProviders(n.live, d[2]) : TooOld(plv.version, d[2].min)}
           gap == \/ \E v \in n.live : ~HasContract(services, v)
                  \/ \E d \in deps :
                        \/ LiveProviders(n.live, d[2]) = {}
                        \/ \E plv \in LiveProviders(n.live, d[2]) :
                              ~Comparable(plv.version, d[2].min)
<1>1. OrderFinding(n, services) = Finding(late, gap)
    BY DEF OrderFinding
<1>2. late = {} /\ ~gap
    <2> HIDE DEF late, gap
    <2>. QED BY <1>1 DEF Clean, Finding
<1>3. \A v \in n.live : HasContract(services, v)
    BY <1>2
<1>4. ASSUME NEW dep \in services[lv].dependsOn, dep.min # Unconstrained
      PROVE  <<lv, dep>> \in deps
    <2> DEFINE Of(v) == {v} \X {d \in services[v].dependsOn : d.min # Unconstrained}
               live == {v \in n.live : HasContract(services, v)}
    <2>1. <<lv, dep>> \in Of(lv) /\ lv \in live
        BY <1>3, <1>4
    <2>2. deps = UNION {Of(v) : v \in live}
        BY DEF Dependencies
    <2> HIDE DEF Of, live, deps
    <2>. QED BY <2>1, <2>2
<1>5. \A d \in deps :
         /\ LiveProviders(n.live, d[2]) # {}
         /\ \A plv \in LiveProviders(n.live, d[2]) :
               Comparable(plv.version, d[2].min) /\ ~TooOld(plv.version, d[2].min)
    BY <1>2
<1> HIDE DEF deps
<1>6. ASSUME NEW dep \in services[lv].dependsOn, dep.min # Unconstrained
      PROVE  /\ LiveProviders(n.live, dep) # {}
             /\ \A plv \in LiveProviders(n.live, dep) :
                   Comparable(plv.version, dep.min) /\ ~TooOld(plv.version, dep.min)
    <2>1. <<lv, dep>> \in deps /\ <<lv, dep>>[2] = dep
        BY <1>4, <1>6
    <2>. QED BY <2>1, <1>5
<1>. QED BY <1>3, <1>6

\* When RP-ORDER is SAFE, no live version is ever without the service it needs,
\* nor beside a version of it that is older than it can work with.
THEOREM OrderSafe ==
    Spec => [](Honest(project) => DependenciesMet)
<1>1. Inv => (Honest(project) => DependenciesMet)
    <2> SUFFICES ASSUME Inv, Honest(project), Verified, Forward,
                        AnyDependencyDeclared(project.services), VerdictOf(Ordering) = "SAFE",
                        NEW lv \in Live, NEW dep \in project.actual[lv].dependsOn,
                        dep.min # Unconstrained
                 PROVE  /\ LiveProviders(Live, dep) # {}
                        /\ \A plv \in LiveProviders(Live, dep) :
                              Comparable(plv.version, dep.min) /\ ~TooOld(plv.version, dep.min)
        BY DEF DependenciesMet
    <2>1. /\ report = Run(project) /\ IsPlan(project.plan) /\ plan = project.plan
        BY ProjectsAssumption DEF Inv, Forward
    <2> DEFINE nodes == Build(project.plan)
               order == EvaluateOrder(project.plan, nodes, project.services)
    <2>2. order[1].verdict = "SAFE"
        <3>1. report[15] = order[1]
            BY <2>1, RunReport
        <3> HIDE DEF order
        <3>. QED BY <3>1 DEF VerdictOf, Ordering
    <2>3. NodeHere \in nodes /\ NodeHere.live = Live
        BY <2>1, NodeHereFacts
    <2>4. Clean(OrderFinding(NodeHere, project.services))
        <3> HIDE DEF nodes
        <3>. QED BY <2>2, <2>3, OrderReport
    <2>5. /\ HasContract(project.services, lv)
          /\ \A d \in project.services[lv].dependsOn : d.min # Unconstrained =>
                 /\ LiveProviders(Live, d) # {}
                 /\ \A plv \in LiveProviders(Live, d) :
                       Comparable(plv.version, d.min) /\ ~TooOld(plv.version, d.min)
        BY <2>3, <2>4, CleanOrder
    <2>6. dep \in project.services[lv].dependsOn
        BY <2>5, LiveIsDeclared
    <2>. QED BY <2>5, <2>6
<1>. QED BY <1>1, Invariance, PTL

\* At a node where the API check is clean of a way to fail, no call of a live
\* version fails in that way, and each is answered.
LEMMA CleanCalls ==
    ASSUME NEW n, NEW services, NEW way, Clean(ApiFinding(n, services, way)),
           NEW lv \in n.live
    PROVE  /\ HasContract(services, lv)
           /\ \A call \in services[lv].consumes :
                 /\ Providers(n.live, services, call) # {}
                 /\ \A plv \in Providers(n.live, services, call) :
                       way \notin Failures(services[plv].provides[call.contract], call)
<1> DEFINE calls == Calls(n.live, services)
           Fails(c) == \E plv \in Providers(n.live, services, c[2]) :
                          way \in Failures(services[plv].provides[c[2].contract], c[2])
           failing == {c \in calls : Fails(c)}
           gap == \/ \E v \in n.live : ~HasContract(services, v)
                  \/ \E c \in calls : Providers(n.live, services, c[2]) = {}
<1>1. ApiFinding(n, services, way) = Finding(failing, gap)
    BY DEF ApiFinding
<1>2. failing = {} /\ ~gap
    <2> HIDE DEF failing, gap
    <2>. QED BY <1>1 DEF Clean, Finding
<1>3. \A v \in n.live : HasContract(services, v)
    BY <1>2
<1>4. ASSUME NEW call \in services[lv].consumes PROVE <<lv, call>> \in calls
    <2> DEFINE Of(v) == {v} \X services[v].consumes
               live == {v \in n.live : HasContract(services, v)}
    <2>1. <<lv, call>> \in Of(lv) /\ lv \in live
        BY <1>3, <1>4
    <2>2. calls = UNION {Of(v) : v \in live}
        BY DEF Calls
    <2> HIDE DEF Of, live, calls
    <2>. QED BY <2>1, <2>2
<1>5. \A c \in calls : Providers(n.live, services, c[2]) # {} /\ ~Fails(c)
    BY <1>2
<1> HIDE DEF calls
<1>6. ASSUME NEW call \in services[lv].consumes
      PROVE  /\ Providers(n.live, services, call) # {}
             /\ \A plv \in Providers(n.live, services, call) :
                   way \notin Failures(services[plv].provides[call.contract], call)
    <2>1. <<lv, call>> \in calls /\ <<lv, call>>[2] = call
        BY <1>4, <1>6
    <2>. QED BY <2>1, <1>5
<1>. QED BY <1>3, <1>6

\* How a call fails at a provider, in each of the three ways.
LEMMA NoFailure ==
    ASSUME NEW provided, NEW call,
           \A way \in Ways : way \notin Failures(provided, call)
    PROVE  /\ call.operation \in DOMAIN provided
           /\ provided[call.operation].request \ call.sent = {}
           /\ call.required \ provided[call.operation].response = {}
<1>1. "Endpoint" \in Ways /\ "RequestField" \in Ways /\ "ResponseField" \in Ways
    BY DEF Ways
<1>2. call.operation \in DOMAIN provided
    BY <1>1 DEF Failures
<1> DEFINE shape == provided[call.operation]
<1>3. Failures(provided, call) = {way \in {"RequestField", "ResponseField"} :
                IF way = "RequestField" THEN ~(shape.request \subseteq call.sent)
                                        ELSE ~(call.required \subseteq shape.response)}
    BY <1>2 DEF Failures
<1> HIDE DEF shape
<1>4. shape.request \subseteq call.sent
    BY <1>1, <1>3
<1>5. call.required \subseteq shape.response
    BY <1>1, <1>3
<1>. QED BY <1>2, <1>4, <1>5 DEF shape

\* When RP-API is SAFE every call any live version makes is answered, and works
\* with every version that may answer it.
THEOREM CallsSafe ==
    Spec => [](Honest(project) => CallsAreServed)
<1>1. Inv => (Honest(project) => CallsAreServed)
    <2> SUFFICES ASSUME Inv, Honest(project), Verified, Forward,
                        AnyAPIUsageDeclared(project.services), VerdictOf(ApiOverall) = "SAFE"
                 PROVE  /\ \A lv \in Live, call \in UNION {project.actual[v].consumes : v \in Live} :
                              call \in project.actual[lv].consumes =>
                                 \E plv \in Live : call.contract \in DOMAIN project.actual[plv].provides
                        /\ \A i \in CallHazards : ~CallHazard(i)
        BY DEF CallsAreServed
    <2>1. /\ report = Run(project) /\ IsPlan(project.plan) /\ plan = project.plan
        BY ProjectsAssumption DEF Inv, Forward
    <2> DEFINE nodes == Build(project.plan)
               services == project.services
               api == EvaluateAPI(nodes, services)
    <2>2. api[4].verdict = "SAFE"
        <3>1. report[14] = api[4]
            BY <2>1, RunReport
        <3> HIDE DEF api
        <3>. QED BY <3>1 DEF VerdictOf, ApiOverall
    <2>3. NodeHere \in nodes /\ NodeHere.live = Live
        BY <2>1, NodeHereFacts
    <2>4. \A way \in Ways : Clean(ApiFinding(NodeHere, services, way))
        <3> HIDE DEF nodes
        <3>. QED BY <2>2, <2>3, ApiReport
    <2>5. ASSUME NEW lv \in Live
          PROVE  /\ HasContract(services, lv) /\ project.actual[lv] = services[lv]
                 /\ \A call \in services[lv].consumes :
                       /\ Providers(Live, services, call) # {}
                       /\ \A plv \in Providers(Live, services, call), way \in Ways :
                             way \notin Failures(services[plv].provides[call.contract], call)
        <3>1. "Endpoint" \in Ways
            BY DEF Ways
        <3>2. HasContract(services, lv)
            BY <2>3, <2>4, <3>1, CleanCalls
        <3>3. project.actual[lv] = services[lv]
            BY <3>2, LiveIsDeclared
        <3>4. ASSUME NEW call \in services[lv].consumes, NEW way \in Ways
              PROVE  /\ Providers(Live, services, call) # {}
                     /\ \A plv \in Providers(Live, services, call) :
                           way \notin Failures(services[plv].provides[call.contract], call)
            BY <2>3, <2>4, CleanCalls
        <3>. QED BY <3>1, <3>2, <3>3, <3>4
    <2> HIDE DEF services
    <2>6. ASSUME NEW lv \in Live, NEW call \in project.actual[lv].consumes
          PROVE  \E plv \in Live : call.contract \in DOMAIN project.actual[plv].provides
        <3>1. PICK plv : plv \in Providers(Live, services, call)
            BY <2>5, <2>6
        <3>2. plv \in Live /\ call.contract \in DOMAIN services[plv].provides
            BY <3>1 DEF Providers
        <3>. QED BY <2>5, <3>2
    <2>7. ASSUME NEW i \in CallHazards, CallHazard(i) PROVE FALSE
        <3>1. PICK lv \in Declared, plv \in Declared :
                 \E call \in {c \in project.actual[lv].consumes :
                                c.contract \in DOMAIN project.actual[plv].provides} :
                    LET served == project.actual[plv].provides[call.contract]
                    IN  CASE i = Endpoint -> call.operation \notin DOMAIN served
                          [] i # Endpoint /\ call.operation \in DOMAIN served ->
                                IF i = RequestField
                                THEN served[call.operation].request \ call.sent # {}
                                ELSE call.required \ served[call.operation].response # {}
                          [] OTHER -> FALSE
            BY <2>7 DEF CallHazard
        <3>2. PICK call \in {c \in project.actual[lv].consumes :
                                c.contract \in DOMAIN project.actual[plv].provides} :
                    LET served == project.actual[plv].provides[call.contract]
                    IN  CASE i = Endpoint -> call.operation \notin DOMAIN served
                          [] i # Endpoint /\ call.operation \in DOMAIN served ->
                                IF i = RequestField
                                THEN served[call.operation].request \ call.sent # {}
                                ELSE call.required \ served[call.operation].response # {}
                          [] OTHER -> FALSE
            BY <3>1
        <3>3. lv \in Live /\ plv \in Live
            BY <3>1 DEF Declared
        <3>4. call \in services[lv].consumes /\ plv \in Providers(Live, services, call)
              /\ project.actual[plv] = services[plv]
            BY <2>5, <3>2, <3>3 DEF Providers
        <3> DEFINE served == project.actual[plv].provides[call.contract]
        <3>5. \A way \in Ways : way \notin Failures(served, call)
            BY <2>5, <3>3, <3>4
        <3> HIDE DEF served
        <3>6. /\ call.operation \in DOMAIN served
              /\ served[call.operation].request \ call.sent = {}
              /\ call.required \ served[call.operation].response = {}
            BY <3>5, NoFailure
        <3>7. CASE i = Endpoint
            BY <3>2, <3>6, <3>7 DEF served
        <3>8. CASE i # Endpoint
            <4>1. IF i = RequestField
                  THEN served[call.operation].request \ call.sent # {}
                  ELSE call.required \ served[call.operation].response # {}
                BY <3>2, <3>6, <3>8 DEF served
            <4>. QED BY <3>6, <4>1
        <3>. QED BY <3>7, <3>8
    <2>. QED BY <2>6, <2>7
<1>. QED BY <1>1, Invariance, PTL

\* When RP-K8S-002 is SAFE a new version whose readiness waits for nothing is
\* never live before the new versions it depends on.
THEOREM ReadinessSafe == Spec => []TrafficWaits
<1>1. Inv => TrafficWaits
    <2> SUFFICES ASSUME Inv, Verified, Forward, VerdictOf(Readiness) = "SAFE",
                        NEW w \in Workloads(plan), NEW name \in plan.workloads[w].dependsOn,
                        plan.workloads[w].readiness = "ignores",
                        NewVersion(plan.workloads[w]) \in Live
                 PROVE  \E d \in Workloads(plan) : /\ plan.workloads[d].name = name
                                                   /\ NewVersion(plan.workloads[d]) \in Live
        BY DEF TrafficWaits
    <2>1. /\ report = Run(project) /\ IsPlan(project.plan) /\ plan = project.plan
        BY ProjectsAssumption DEF Inv, Forward
    <2> DEFINE nodes == Build(plan)
               before == BeforeK8s(project, nodes)
               k8s == EvaluateK8s(plan, nodes, before)
    <2>2. /\ k8s[2].verdict = "SAFE"
          /\ \E k \in Nat : IsReport(before, k)
        <3>1. report[19] = k8s[2] /\ \E k \in Nat : IsReport(before, k)
            BY <2>1, RunReport
        <3> HIDE DEF k8s
        <3>. QED BY <3>1 DEF VerdictOf, Readiness
    <2>3. NodeHere \in nodes /\ NodeHere.live = Live
        BY <2>1, NodeHereFacts
    <2>4. Clean(ReadinessFinding(NodeHere, plan))
        <3> HIDE DEF nodes, before
        <3>. QED BY <2>2, <2>3, K8sReport
    <2> DEFINE early == {p \in Unawaited(plan) : /\ NewVersion(plan.workloads[p[1]]) \in NodeHere.live
                                                 /\ NewVersion(plan.workloads[p[2]]) \notin NodeHere.live}
    <2>5. early = {} /\ ~UnknownReadiness(plan)
        <3>1. ReadinessFinding(NodeHere, plan) = Finding(early, UnknownReadiness(plan))
            BY DEF ReadinessFinding
        <3> HIDE DEF early
        <3>. QED BY <2>4, <3>1 DEF Clean, Finding
    <2>6. Named(plan, name) # {}
        BY <2>5 DEF UnknownReadiness
    <2>7. PICK d : d \in Named(plan, name)
        BY <2>6
    <2>8. d \in Workloads(plan) /\ plan.workloads[d].name = name
        BY <2>7 DEF Named
    <2>9. <<w, d>> \in Unawaited(plan) /\ <<w, d>>[1] = w /\ <<w, d>>[2] = d
        BY <2>7, <2>8 DEF Unawaited
    <2>10. NewVersion(plan.workloads[d]) \in Live
        BY <2>3, <2>5, <2>9
    <2>. QED BY <2>8, <2>10
<1>. QED BY <1>1, Invariance, PTL

\* Every migration has an ID of its own.
DistinctIds(p) ==
    \A i, j \in DOMAIN p.migrations : p.migrations[i].id = p.migrations[j].id => i = j

\* RP-DB-006 says SAFE only when every contract step is an after-migration.
LEMMA ContractsAreLast ==
    ASSUME NEW p, NEW nodes, EvaluateExpandContractSequence(p, nodes).verdict = "SAFE",
           NEW link \in p.links
    PROVE  \A i \in MigrationsOf(p, link.contract) : p.migrations[i].phase = "after"
<1>1. MisplacedContracts(p) = {}
    <2> DEFINE c == {ViolatingState(IF {n \in nodes : \E cop \in ToSet(n.committed) :
                                           cop.migration = FirstByID(p, MisplacedContracts(p))} # {}
                                    THEN ShortestByStateID({n \in nodes : \E cop \in ToSet(n.committed) :
                                           cop.migration = FirstByID(p, MisplacedContracts(p))})
                                    ELSE TargetState(p, nodes))}
    <2> SUFFICES ASSUME MisplacedContracts(p) # {} PROVE FALSE
        OBVIOUS
    <2>1. EvaluateExpandContractSequence(p, nodes) = Diagnostic("UNSAFE", c)
        BY DEF EvaluateExpandContractSequence
    <2> HIDE DEF c
    <2>2. Diagnostic("UNSAFE", c).verdict = "UNSAFE"
        BY DEF Diagnostic
    <2>. QED BY <2>1, <2>2
<1>2. PhaseByID(p, link.contract) = {"after"}
    BY <1>1 DEF MisplacedContracts
<1>. QED BY <1>2 DEF PhaseByID

\* A contract step RP-DB-006 accepts is not executed before every version it
\* could break is gone, neither ahead of the rollout nor during it, when no two
\* migrations of the plan share an ID.
THEOREM ContractSafe ==
    Spec => [](DistinctIds(project.plan) => ContractWaits)
<1>1. Inv => (DistinctIds(project.plan) => ContractWaits)
    <2> SUFFICES ASSUME Inv, DistinctIds(project.plan), Verified, Forward,
                        VerdictOf(ContractSequence) = "SAFE",
                        NEW link \in plan.links, NEW i \in Executed,
                        plan.migrations[i].id = link.contract
                 PROVE  D!WorkloadsDone
        BY DEF ContractWaits
    <2>1. /\ report = Run(project) /\ IsPlan(plan) /\ plan = project.plan
          /\ Place \in Positions(plan) /\ trail \in Seq(DOMAIN plan.migrations)
          /\ ToSet(trail) \subseteq During(plan) \cup After(plan)
        BY DEF Inv, Forward
    <2> DEFINE nodes == Build(plan)
               column == EvaluateColumnFamily(plan, nodes, project.services, TRUE)
    <2>2. EvaluateExpandContractSequence(plan, nodes).verdict = "SAFE"
        <3>1. report[6] = column[6]
            <4>1. 6 \in 1 .. 6
                OBVIOUS
            <4>. QED BY <2>1, <4>1, RunReport
        <3>2. column[6] = EvaluateExpandContractSequence(plan, nodes)
            BY DEF EvaluateColumnFamily
        <3> HIDE DEF column, nodes
        <3>. QED BY <3>1, <3>2 DEF VerdictOf, ContractSequence
    <2>3. i \in Before(plan) \cup ToSet(trail) /\ i \in DOMAIN plan.migrations
        <3>1. D!Committed = ToSet(trail)
            BY DeploymentIs
        <3>. QED BY <2>1, <3>1 DEF Executed, Before, During, After, InPhase
    <2>4. i \in MigrationsOf(plan, link.contract)
        <3>1. \A j \in DOMAIN plan.migrations : plan.migrations[j].id = link.contract => j = i
            BY <2>1, <2>3 DEF DistinctIds
        <3>2. i <= i
            BY <2>1, <2>3 DEF IsPlan
        <3>. QED BY <2>3, <3>1, <3>2 DEF MigrationsOf
    <2>5. plan.migrations[i].phase = "after"
        <3> HIDE DEF nodes
        <3>. QED BY <2>2, <2>4, ContractsAreLast
    <2>6. Place.after # {} /\ Place.steps = steps
        <3>1. i \notin Before(plan) /\ i \in After(plan)
            BY <2>3, <2>5 DEF Before, After, InPhase
        <3>2. i \in ToSet(trail)
            BY <2>3, <3>1
        <3>. QED BY <3>1, <3>2 DEF Place, Position
    <2>7. Place \in Chain(plan)
        BY <2>1, <2>6 DEF Positions, Position
    <2>8. \A w \in Workloads(plan) : steps[w] = LastStep
        BY <2>1, <2>6, <2>7, CompleteNodes
    <2>. QED BY <2>8, DeploymentIs
<1>. QED BY <1>1, Invariance, PTL

-----------------------------------------------------------------------------
(* RP-K8S-003.                                                             *)

\* The versions live at a time are finitely many.
LEMMA LiveIsFinite ==
    ASSUME NEW p, IsPlan(p), NEW s \in [Workloads(p) -> Steps]
    PROVE  IsFiniteSet(LiveSet(p, s))
<1> DEFINE S == Workloads(p)
           old == [w \in S |-> OldVersion(p.workloads[w])]
           new == [w \in S |-> NewVersion(p.workloads[w])]
           A == {old[w] : w \in S}
           B == {new[w] : w \in S}
<1>1. IsFiniteSet(S)
    BY FS_Interval DEF IsPlan, Workloads
<1>2. IsFiniteSet(A)
    <2>1. old \in Surjection(S, A)
        BY Fun_IsSurj
    <2>. QED BY <1>1, <2>1, FS_Surjection
<1>3. IsFiniteSet(B)
    <2>1. new \in Surjection(S, B)
        BY Fun_IsSurj
    <2>. QED BY <1>1, <2>1, FS_Surjection
<1>4. LiveSet(p, s) \subseteq A \cup B
    <2> SUFFICES ASSUME NEW w \in S, NEW lv \in LiveAt(p.workloads[w], s[w])
                 PROVE  lv \in A \cup B
        BY DEF LiveSet
    <2>1. s[w] = 0 \/ s[w] = 1 \/ s[w] = LastStep
        BY DEF Steps, LastStep
    <2>2. lv = OldVersion(p.workloads[w]) \/ lv = NewVersion(p.workloads[w])
        BY <2>1 DEF LiveAt, OldVersion, NewVersion, LastStep
    <2>3. old[w] \in A /\ new[w] \in B
        OBVIOUS
    <2>. QED BY <2>2, <2>3
<1> HIDE DEF A, B
<1>. QED BY <1>2, <1>3, <1>4, FS_Union, FS_Subset

\* Two different versions live count as two.
LEMMA TwoLive ==
    ASSUME NEW S, IsFiniteSet(S), NEW a \in S, NEW b \in S, a # b
    PROVE  Cardinality(S) >= 2
<1>1. IsFiniteSet({a}) /\ Cardinality({a}) = 1
    BY FS_Singleton
<1>2. IsFiniteSet({a} \cup {b}) /\ Cardinality({a} \cup {b}) = 2
    <2> DEFINE A == {a}
    <2>1. b \notin A
        OBVIOUS
    <2>2. IsFiniteSet(A) /\ Cardinality(A) = 1
        BY <1>1
    <2> HIDE DEF A
    <2>3. IsFiniteSet(A \cup {b}) /\ Cardinality(A \cup {b}) = Cardinality(A) + 1
        BY <2>1, <2>2, FS_AddElement
    <2>4. Cardinality(A \cup {b}) = 2
        BY <2>2, <2>3
    <2>. QED BY <2>3, <2>4 DEF A
<1>3. {a} \cup {b} \in SUBSET S
    OBVIOUS
<1>. QED BY <1>2, <1>3, FS_Subset, FS_CardinalityType

\* Where RP-K8S-003 is clean, no version that may be draining is live beside
\* another when a column is gone.
LEMMA CleanTermination ==
    ASSUME NEW p, NEW n, Clean(TerminationFinding(n, p)),
           IsFiniteSet(n.live), ~n.indeterminate,
           NEW cop \in ToSet(n.committed), cop.op.kind = "DropColumn"
    PROVE  /\ Draining(p) = Evaluable(p)
           /\ \A w \in Draining(p), lv \in n.live :
                 OldVersion(p.workloads[w]) \in n.live => lv = OldVersion(p.workloads[w])
<1> DEFINE ends == {w \in Evaluable(p) :
                      /\ ~n.indeterminate
                      /\ Cardinality(n.live) >= 2
                      /\ OldVersion(p.workloads[w]) \in n.live
                      /\ \E c \in ToSet(n.committed) : c.op.kind = "DropColumn"}
           gap == Evaluable(p) # Draining(p)
<1>1. ends = {} /\ Draining(p) = Evaluable(p)
    <2>1. TerminationFinding(n, p) = Finding(ends, gap)
        BY DEF TerminationFinding
    <2>2. ends = {} /\ ~gap
        <3> HIDE DEF ends, gap
        <3>. QED BY <2>1 DEF Clean, Finding
    <2>. QED BY <2>2
<1>2. ASSUME NEW w \in Draining(p), NEW lv \in n.live,
             OldVersion(p.workloads[w]) \in n.live, lv # OldVersion(p.workloads[w])
      PROVE  FALSE
    <2>1. Cardinality(n.live) >= 2
        BY <1>2, TwoLive
    <2>. QED BY <1>1, <1>2, <2>1
<1>. QED BY <1>1, <1>2

\* A plan with a hook to run has a last change that has one, of its service.
LEMMA LastDraining ==
    ASSUME NEW p, IsPlan(p), NEW w \in Workloads(p), p.workloads[w].drains
    PROVE  Draining(p) # {}
<1> DEFINE same == {v \in Workloads(p) : /\ p.workloads[v].drains
                                         /\ p.workloads[v].service = p.workloads[w].service}
<1>1. same \in SUBSET (1 .. Len(p.workloads)) /\ w \in same /\ Len(p.workloads) \in Nat
    BY DEF IsPlan, Workloads
<1>2. PICK v \in same : \A y \in same : y <= v
    <2> HIDE DEF same
    <2>. QED BY <1>1, Commit!MaxOfSome
<1>3. v \in Draining(p)
    BY <1>2 DEF Draining
<1>. QED BY <1>3

\* The versions a change keeps live, step by step.
LEMMA StepVersions ==
    ASSUME NEW w
    PROVE  /\ LiveAt(w, 0) = {OldVersion(w)}
           /\ LiveAt(w, LastStep) = {NewVersion(w)}
           /\ AllowsCoexistence(w) => LiveAt(w, 1) = {OldVersion(w), NewVersion(w)}
BY DEF LiveAt, LastStep, OldVersion, NewVersion

\* When RP-K8S-003 is SAFE no column is gone while a version with a PreStop
\* hook is being replaced, however many Deployments of its service the plan
\* has: the check looks at the last of them only, but somewhere in the graph
\* that one is live beside a version of the other.
THEOREM TerminationSafe ==
    Spec => [](Independent(project.plan) => DrainsUndisturbed)
<1>1. Inv => (Independent(project.plan) => DrainsUndisturbed)
    <2> SUFFICES ASSUME Inv, Independent(project.plan), Verified, Forward,
                        VerdictOf(Termination) = "SAFE", ~TrueState.indeterminate,
                        NEW w \in Workloads(plan),
                        plan.workloads[w].drains,
                        plan.workloads[w].from # plan.workloads[w].to,
                        AllowsCoexistence(plan.workloads[w])
                           \/ plan.workloads[w].strategy.type = "Recreate",
                        steps[w] = 1,
                        NEW cop \in ToSet(TrueState.committed), cop.op.kind = "DropColumn"
                 PROVE  FALSE
        BY DEF DrainsUndisturbed
    <2>1. /\ report = Run(project) /\ IsPlan(plan) /\ plan = project.plan
          /\ Place \in Positions(plan) /\ steps \in [Workloads(plan) -> Steps]
        BY DEF Inv, Forward
    <2> DEFINE nodes == Build(plan)
               before == BeforeK8s(project, nodes)
               k8s == EvaluateK8s(plan, nodes, before)
    <2>2. \A n \in nodes : Clean(TerminationFinding(n, plan))
        <3>1. report[20] = k8s[3] /\ \E k \in Nat : IsReport(before, k)
            BY <2>1, RunReport
        <3>2. k8s[3].verdict = "SAFE"
            <4> HIDE DEF k8s
            <4>. QED BY <3>1 DEF VerdictOf, Termination
        <3> HIDE DEF nodes, before
        <3>. QED BY <3>1, <3>2, K8sReport
    <2> DEFINE st == SchemaStateAt(plan, Place)
    <2>3. ~st.indeterminate /\ cop \in ToSet(st.committed)
        BY <2>1 DEF Inv, Followed, Tells, SameEvidence
    <2>4. Place = Position(steps, Place.during, {}) /\ Place.during \in SUBSET During(plan)
        <3>1. Place.steps = steps /\ Place.during \in SUBSET During(plan)
            BY DEF Place, Position
        <3>2. Place.after = {}
            <4>1. Place \notin Chain(plan)
                BY <2>1, <3>1, CompleteNodes DEF LastStep
            <4>. QED BY <2>1, <4>1 DEF Positions, Position
        <3>. QED BY <3>1, <3>2 DEF Place, Position
    <2> HIDE DEF nodes
    \* The same schema, with the workloads at any other steps.
    <2>5. ASSUME NEW s \in [Workloads(plan) -> Steps]
          PROVE  /\ Draining(plan) = Evaluable(plan)
                 /\ \A v \in Draining(plan), lv \in LiveSet(plan, s) :
                       OldVersion(plan.workloads[v]) \in LiveSet(plan, s)
                          => lv = OldVersion(plan.workloads[v])
        <3> DEFINE q == Position(s, Place.during, {})
                   n == NodeAt(plan, q)
        <3>1. q \in Positions(plan) /\ q.steps = s
            <4>1. q \in {Position(a, d, {}) : a \in [Workloads(plan) -> Steps], d \in SUBSET During(plan)}
                BY <2>4
            <4>2. q.steps = s
                BY DEF Position
            <4> HIDE DEF q
            <4>. QED BY <4>1, <4>2 DEF Positions
        <3>2. SchemaStateAt(plan, q) = st
            <4>1. q.during = Place.during /\ q.after = Place.after
                BY <2>4 DEF Position
            <4> HIDE DEF q
            <4>. QED BY <4>1 DEF SchemaStateAt
        <3> HIDE DEF q, st
        <3>3. n \in nodes /\ n.live = LiveSet(plan, s) /\ n.committed = st.committed
              /\ n.indeterminate = st.indeterminate
            BY <3>1, <3>2, GraphNodes, NodeAtFacts DEF nodes
        <3>4. IsFiniteSet(n.live)
            BY <2>1, <3>3, LiveIsFinite
        <3> HIDE DEF n
        <3>. QED BY <2>2, <2>3, <3>3, <3>4, CleanTermination
    <2>6. PICK v : v \in Draining(plan)
        BY <2>1, LastDraining
    <2>7. v \in Workloads(plan) /\ plan.workloads[v].strategy.type = "RollingUpdate"
        BY <2>1, <2>5, <2>6 DEF Draining, Evaluable
    <2>8. OldVersion(plan.workloads[w]) # NewVersion(plan.workloads[w])
        <3>1. OldVersion(plan.workloads[w]).version # NewVersion(plan.workloads[w]).version
            BY DEF OldVersion, NewVersion, LiveVersion
        <3>. QED BY <3>1
    <2>9. \A s : /\ LiveAt(plan.workloads[w], s[w]) \subseteq LiveSet(plan, s)
                 /\ LiveAt(plan.workloads[v], s[v]) \subseteq LiveSet(plan, s)
        BY <2>7 DEF LiveSet
    <2>10. CASE v = w
        <3>1. AllowsCoexistence(plan.workloads[w])
            BY <2>7, <2>10
        <3>2. {OldVersion(plan.workloads[w]), NewVersion(plan.workloads[w])}
                 \subseteq LiveSet(plan, steps)
            BY <2>1, <2>9, <3>1, StepVersions
        <3>. QED BY <2>1, <2>5, <2>6, <2>8, <2>10, <3>2
    <2>11. CASE v # w
        <3>1. PICK t \in {0, LastStep} : \E lv \in LiveAt(plan.workloads[w], t) :
                    lv # OldVersion(plan.workloads[v])
            BY <2>8, StepVersions
        <3> DEFINE s == [x \in Workloads(plan) |-> IF x = v THEN 0 ELSE IF x = w THEN t ELSE steps[x]]
        <3>2. s \in [Workloads(plan) -> Steps] /\ s[w] = t /\ s[v] = 0
            BY <2>1, <2>7, <2>11 DEF Steps, LastStep
        <3> HIDE DEF s
        <3>3. OldVersion(plan.workloads[v]) \in LiveSet(plan, s)
            BY <2>9, <3>2, StepVersions
        <3>4. \E lv \in LiveSet(plan, s) : lv # OldVersion(plan.workloads[v])
            BY <2>9, <3>1, <3>2
        <3>. QED BY <2>5, <2>6, <3>2, <3>3, <3>4
    <2>. QED BY <2>10, <2>11
<1>. QED BY <1>1, Invariance, PTL

-----------------------------------------------------------------------------
(* What a counterexample of a column or call check is worth.               *)

\* At a node with the schema, the trail's operations and the fates of a state,
\* the column checks find exactly the columns the versions with a contract
\* really stumble over in that state.
ColumnFindingAt(i, n) ==
    CASE i = ColumnReads  -> ColumnExistenceAt(n, project.services, "reads")
      [] i = ColumnWrites -> ColumnExistenceAt(n, project.services, "writes")
      [] i = TypeChange   -> TypeCompatibilityAt(n, project.services)
      [] i = NotNull      -> NotNullAt(n, project.services)

\* A column that is used, or that a write leaves out, belongs to a table the
\* contract mentions.
LEMMA UsedIsMentioned ==
    ASSUME NEW lv, NEW ref, HasContract(project.services, lv),
           \/ UsesColumn(project.services[lv], ref)
           \/ OmitsColumn(project.services[lv], ref)
    PROVE  Mentions(project.services, lv, ref)
BY DEF Mentions, UsesColumn, OmitsColumn, ReadsColumn, WritesColumn, WritesTable, TouchesTable

\* A missing column that was not renamed away.
LEMMA MissingIsGone ==
    ASSUME Honest(project), NEW n, NEW st, n.live = Live, SameEvidence(n, st), SameFates(n, st),
           ~n.indeterminate, NEW access
    PROVE  ColumnExistenceAt(n, project.services, access).violations # {}
              <=> \E lv \in Declared : \E ref \in Misses(lv, access, st.schema) :
                     ~RenamedAway(st.committed, ref)
<1> DEFINE services == project.services
           declared == {lv \in n.live : HasContract(services, lv)}
           missing(lv) == MissingColumns(n, services[lv], access)
<1>1. st.schema = n.schema /\ \A ref : RenamedAway(n.committed, ref) <=> RenamedAway(st.committed, ref)
    BY DEF SameEvidence, SameFates, SameFate
<1>2. declared = Declared /\ \A lv \in declared : project.actual[lv] = services[lv]
    BY DEF Declared, HasContract, Honest
<1>3. \A lv \in declared : missing(lv) =
         {ref \in Misses(lv, access, st.schema) : ~RenamedAway(st.committed, ref)}
    BY <1>1, <1>2 DEF MissingColumns, Misses, HasColumn
<1>4. ColumnExistenceAt(n, services, access).violations = UNION {{lv} \X missing(lv) : lv \in declared}
    BY DEF ColumnExistenceAt, Unless, Finding
<1> HIDE DEF missing, declared
<1>5. UNION {{lv} \X missing(lv) : lv \in declared} # {} <=> \E lv \in declared : missing(lv) # {}
    <2>1. ASSUME NEW lv \in declared, missing(lv) # {}
          PROVE  UNION {{v} \X missing(v) : v \in declared} # {}
        <3>1. PICK ref \in missing(lv) : TRUE
            BY <2>1
        <3>2. <<lv, ref>> \in {lv} \X missing(lv)
            BY <3>1
        <3>. QED BY <3>2
    <2>2. ASSUME UNION {{v} \X missing(v) : v \in declared} # {}
          PROVE  \E lv \in declared : missing(lv) # {}
        <3>1. PICK x : x \in UNION {{v} \X missing(v) : v \in declared}
            BY <2>2
        <3>2. PICK lv \in declared : x \in {lv} \X missing(lv)
            BY <3>1
        <3>. QED BY <3>2
    <2>. QED BY <2>1, <2>2
<1>6. (\E lv \in declared : missing(lv) # {})
         <=> \E lv \in Declared : \E ref \in Misses(lv, access, st.schema) :
                     ~RenamedAway(st.committed, ref)
    BY <1>2, <1>3
<1>. QED BY <1>4, <1>5, <1>6

\* A value that no longer fits.
LEMMA RetypedIsNarrowed ==
    ASSUME Honest(project), NEW n, NEW st, n.live = Live, SameEvidence(n, st), ~n.indeterminate
    PROVE  TypeCompatibilityAt(n, project.services).violations # {}
              <=> \E lv \in Declared : Narrowed(lv, st.committed) # {}
<1> DEFINE services == project.services
           retyped == {TargetColumn(cop.op) : cop \in {c \in Alterations(n) : NonWidening(c)}}
           found == Uses(n, services, retyped)
<1>1. ToSet(st.committed) = ToSet(n.committed)
    BY DEF SameEvidence
<1>2. \A lv \in Declared : lv \in n.live /\ HasContract(services, lv) /\ project.actual[lv] = services[lv]
    BY DEF Declared, HasContract, Honest
<1>3. TypeCompatibilityAt(n, services).violations = found
    BY DEF TypeCompatibilityAt, Unless, Finding
<1>4. ASSUME NEW lv \in Declared, NEW cop \in Narrowed(lv, st.committed) PROVE found # {}
    <2> DEFINE ref == TargetColumn(cop.op)
    <2>1. cop \in Alterations(n) /\ NonWidening(cop) /\ UsesColumn(services[lv], ref)
        BY <1>1, <1>2 DEF Narrowed, Alterations
    <2>2. ref \in retyped
        BY <2>1
    <2>3. Mentions(services, lv, ref)
        BY <2>1, <1>2, UsedIsMentioned
    <2> HIDE DEF ref, retyped
    <2>4. <<lv, ref>> \in Uses(n, services, retyped)
        BY <2>1, <2>2, <2>3, <1>2 DEF Uses, Mentioned
    <2>. QED BY <2>4 DEF retyped
<1>5. ASSUME NEW v \in found PROVE \E lv \in Declared : Narrowed(lv, st.committed) # {}
    <2>1. v[1] \in n.live /\ v[2] \in retyped /\ Mentions(services, v[1], v[2])
          /\ UsesColumn(services[v[1]], v[2])
        <3> HIDE DEF retyped
        <3>. QED BY DEF Uses, Mentioned
    <2>2. PICK cop \in Alterations(n) : NonWidening(cop) /\ v[2] = TargetColumn(cop.op)
        BY <2>1
    <2>3. v[1] \in Declared
        BY <2>1 DEF Declared, Mentions
    <2>4. cop \in Narrowed(v[1], st.committed)
        BY <2>1, <2>2, <2>3, <1>1, <1>2 DEF Narrowed, Alterations
    <2>. QED BY <2>3, <2>4
<1>. QED BY <1>3, <1>4, <1>5

\* A write without a column every row must have.
LEMMA OmittedIsRejected ==
    ASSUME Honest(project), NEW n, NEW st, n.live = Live, SameEvidence(n, st), ~n.indeterminate
    PROVE  NotNullAt(n, project.services).violations # {}
              <=> \E lv \in Declared : Rejected(lv, st.schema) # {}
<1> DEFINE services == project.services
           required == Required(n.schema)
           found == {p \in Mentioned(n, services, required) : OmitsColumn(services[p[1]], p[2])}
<1>1. Required(st.schema) = required
    BY DEF SameEvidence
<1>2. \A lv \in Declared : lv \in n.live /\ HasContract(services, lv) /\ project.actual[lv] = services[lv]
    BY DEF Declared, HasContract, Honest
<1>3. NotNullAt(n, services).violations = found
    BY DEF NotNullAt, Unless, Finding
<1> HIDE DEF required
<1>4. ASSUME NEW lv \in Declared, NEW ref \in Rejected(lv, st.schema) PROVE found # {}
    <2>1. ref \in required /\ OmitsColumn(services[lv], ref)
        BY <1>1, <1>2 DEF Rejected
    <2>2. Mentions(services, lv, ref)
        BY <2>1, <1>2, UsedIsMentioned
    <2>3. <<lv, ref>> \in Mentioned(n, services, required)
        BY <2>1, <2>2, <1>2 DEF Mentioned
    <2>4. <<lv, ref>>[1] = lv /\ <<lv, ref>>[2] = ref
        OBVIOUS
    <2>. QED BY <2>1, <2>3, <2>4
<1>5. ASSUME NEW v \in found PROVE \E lv \in Declared : Rejected(lv, st.schema) # {}
    <2>1. v[1] \in n.live /\ v[2] \in required /\ Mentions(services, v[1], v[2])
          /\ OmitsColumn(services[v[1]], v[2])
        BY DEF Mentioned
    <2>2. v[1] \in Declared
        BY <2>1 DEF Declared, Mentions
    <2>3. v[2] \in Rejected(v[1], st.schema)
        BY <2>1, <2>2, <1>1, <1>2 DEF Rejected
    <2>. QED BY <2>2, <2>3
<1>. QED BY <1>3, <1>4, <1>5

\* The finding that is about a failure of calls.
WayOf(i) == CASE i = Endpoint -> "Endpoint"
              [] i = RequestField -> "RequestField"
              [] i = ResponseField -> "ResponseField"

\* It is violated at a node exactly when a call of a version live there fails.
LEMMA FailureIsCall ==
    ASSUME Honest(project), NEW n, n.live = Live, NEW i \in CallHazards
    PROVE  ApiFinding(n, project.services, WayOf(i)).violations # {} <=> CallHazard(i)
<1> DEFINE services == project.services
           Fails(call, plv) == WayOf(i) \in Failures(services[plv].provides[call.contract], call)
           found == {c \in Calls(n.live, services) :
                        \E plv \in Providers(n.live, services, c[2]) : Fails(c[2], plv)}
           Breaks(call, plv) ==
              LET served == project.actual[plv].provides[call.contract]
              IN  CASE i = Endpoint -> call.operation \notin DOMAIN served
                    [] i # Endpoint /\ call.operation \in DOMAIN served ->
                          IF i = RequestField
                          THEN served[call.operation].request \ call.sent # {}
                          ELSE call.required \ served[call.operation].response # {}
                    [] OTHER -> FALSE
<1>1. \A lv \in Declared : lv \in n.live /\ HasContract(services, lv) /\ project.actual[lv] = services[lv]
    BY DEF Declared, HasContract, Honest
<1>2. ApiFinding(n, services, WayOf(i)).violations = found
    BY DEF ApiFinding, Finding
<1>3. CallHazard(i) <=>
         \E lv \in Declared, plv \in Declared :
            \E call \in {c \in project.actual[lv].consumes :
                            c.contract \in DOMAIN project.actual[plv].provides} : Breaks(call, plv)
    BY DEF CallHazard
<1>4. ASSUME NEW call, NEW plv \in Declared PROVE Fails(call, plv) <=> Breaks(call, plv)
    <2> DEFINE served == services[plv].provides[call.contract]
               shape == served[call.operation]
    <2>1. project.actual[plv].provides[call.contract] = served
        BY <1>1
    <2>2. i = Endpoint \/ i = RequestField \/ i = ResponseField
        BY DEF CallHazards
    <2>3. /\ ~(shape.request \subseteq call.sent) <=> shape.request \ call.sent # {}
          /\ ~(call.required \subseteq shape.response) <=> call.required \ shape.response # {}
        <3> HIDE DEF shape
        <3>. QED OBVIOUS
    <2> HIDE DEF served, services
    <2>4. CASE i = Endpoint
        BY <2>1, <2>4 DEF WayOf, Failures, Endpoint, RequestField, ResponseField, served, services
    <2>5. CASE i = RequestField
        <3>1. WayOf(i) = "RequestField" /\ i # Endpoint /\ "RequestField" # "Endpoint"
            BY <2>5 DEF WayOf, Endpoint, RequestField, ResponseField
        <3>2. "RequestField" \in Failures(served, call)
                 <=> call.operation \in DOMAIN served /\ ~(shape.request \subseteq call.sent)
            BY <3>1 DEF Failures
        <3>. QED BY <2>1, <2>3, <2>5, <3>1, <3>2 DEF served, services
    <2>6. CASE i = ResponseField
        <3>1. /\ WayOf(i) = "ResponseField" /\ i # Endpoint /\ i # RequestField
              /\ "ResponseField" # "Endpoint" /\ "ResponseField" # "RequestField"
            BY <2>6 DEF WayOf, Endpoint, RequestField, ResponseField
        <3>2. "ResponseField" \in Failures(served, call)
                 <=> call.operation \in DOMAIN served /\ ~(call.required \subseteq shape.response)
            BY <3>1 DEF Failures
        <3>. QED BY <2>1, <2>3, <2>6, <3>1, <3>2 DEF served, services
    <2>. QED BY <2>2, <2>4, <2>5, <2>6
<1> HIDE DEF Fails, Breaks
<1>5. ASSUME CallHazard(i) PROVE found # {}
    <2>1. PICK lv \in Declared, plv \in Declared :
            \E call \in {c \in project.actual[lv].consumes :
                            c.contract \in DOMAIN project.actual[plv].provides} : Breaks(call, plv)
        BY <1>3, <1>5
    <2>2. PICK call \in project.actual[lv].consumes :
            call.contract \in DOMAIN project.actual[plv].provides /\ Breaks(call, plv)
        BY <2>1
    <2>3. Fails(call, plv)
        BY <1>4, <2>2
    <2>4. plv \in Providers(n.live, services, call)
        BY <2>2, <1>1 DEF Providers
    <2>5. <<lv, call>> \in Calls(n.live, services)
        BY <2>2, <1>1 DEF Calls
    <2>6. <<lv, call>>[2] = call
        OBVIOUS
    <2>. QED BY <2>3, <2>4, <2>5, <2>6
<1>6. ASSUME NEW c \in found PROVE CallHazard(i)
    <2>1. PICK plv \in Providers(n.live, services, c[2]) : Fails(c[2], plv)
        OBVIOUS
    <2>2. PICK lv \in n.live : HasContract(services, lv) /\ c \in {lv} \X services[lv].consumes
        BY DEF Calls
    <2>3. c[2] \in services[lv].consumes
        BY <2>2
    <2>4. lv \in Declared /\ plv \in Declared /\ c[2].contract \in DOMAIN services[plv].provides
        BY <2>1, <2>2 DEF Declared, Providers
    <2>5. Breaks(c[2], plv)
        BY <1>4, <2>1, <2>4
    <2>. QED BY <1>1, <1>3, <2>3, <2>4, <2>5
<1>. QED BY <1>2, <1>5, <1>6

\* What each column hazard is, where the schema is known.
LEMMA HazardCases ==
    ASSUME NEW st, ~st.indeterminate
    PROVE  /\ ColumnHazardIn(ColumnReads, st) <=>
                 \E lv \in Declared : \E ref \in Misses(lv, "reads", st.schema) :
                    ~RenamedAway(st.committed, ref)
           /\ ColumnHazardIn(ColumnWrites, st) <=>
                 \E lv \in Declared : \E ref \in Misses(lv, "writes", st.schema) :
                    ~RenamedAway(st.committed, ref)
           /\ ColumnHazardIn(TypeChange, st) <=> \E lv \in Declared : Narrowed(lv, st.committed) # {}
           /\ ColumnHazardIn(NotNull, st) <=> \E lv \in Declared : Rejected(lv, st.schema) # {}
<1> DEFINE gone(lv, access) == {ref \in Misses(lv, access, st.schema) :
                                   ~RenamedAway(st.committed, ref)}
           Stumbles(i, lv) ==
              CASE i = ColumnReads -> gone(lv, "reads") # {}
                [] i = ColumnWrites -> gone(lv, "writes") # {}
                [] i = TypeChange -> Narrowed(lv, st.committed) # {}
                [] i = NotNull -> Rejected(lv, st.schema) # {}
<1>1. \A i : ColumnHazardIn(i, st) <=> \E lv \in Declared : Stumbles(i, lv)
    BY Zenon DEF ColumnHazardIn
<1>2. \A lv, access : gone(lv, access) # {}
         <=> \E ref \in Misses(lv, access, st.schema) : ~RenamedAway(st.committed, ref)
    OBVIOUS
<1> HIDE DEF gone
<1>3. ASSUME NEW lv
      PROVE  /\ Stumbles(ColumnReads, lv) <=> gone(lv, "reads") # {}
             /\ Stumbles(ColumnWrites, lv) <=> gone(lv, "writes") # {}
             /\ Stumbles(TypeChange, lv) <=> Narrowed(lv, st.committed) # {}
             /\ Stumbles(NotNull, lv) <=> Rejected(lv, st.schema) # {}
    BY DEF ColumnReads, ColumnWrites, TypeChange, NotNull
<1> HIDE DEF Stumbles
<1>. QED BY <1>1, <1>2, <1>3

\* The diagnostic of a hazard finds at the node the deployment is at exactly
\* what happens there.
LEMMA HazardIsDiagnosed ==
    ASSUME Inv, Verified, Forward, Honest(project), Independent(plan),
           NEW i \in ColumnHazards \cup CallHazards
    PROVE  \/ report[i].counterexample = {}
           \/ \E f : /\ report[i] = Diagnose({<<m, f[m]>> : m \in Build(plan)})
                     /\ f[NodeHere].violations # {} <=> Happens(i)
<1> DEFINE services == project.services
           nodes == Build(plan)
           n == NodeHere
           none == Diagnostic("SAFE", {})
           column == EvaluateColumnFamily(plan, nodes, services, TRUE)
           api == EvaluateAPI(nodes, services)
<1>1. /\ plan = project.plan /\ IsPlan(project.plan) /\ report = Run(project)
      /\ n \in nodes /\ n.live = Live
    BY NodeHereFacts DEF Inv, Forward
<1>2. SameEvidence(n, TrueState) /\ SameFates(n, TrueState)
    <2>1. SameFates(SchemaStateAt(plan, Place), TrueState)
        BY DEF Inv, Followed, Tells
    <2>. QED BY <2>1, ForwardEvidence, NodeHereFacts DEF SameFates, SameFate
<1>3. /\ \A k \in 1 .. 6 : report[k] = column[k]
      /\ \A k \in 1 .. 4 : report[10 + k] = api[k]
    BY <1>1, RunReport
<1>4. none.counterexample = {}
    BY DEF Diagnostic
<1> HIDE DEF column, api, none, n, nodes
<1>5. ASSUME i \in ColumnHazards
      PROVE  report[i] = none \/ report[i] = Diagnose({<<m, ColumnFindingAt(i, m)>> : m \in nodes})
    <2>1. i = 1 \/ i = 2 \/ i = 3 \/ i = 4
        BY <1>5 DEF ColumnHazards, ColumnReads, ColumnWrites, TypeChange, NotNull
    <2>2. report[1] = column[1] /\ report[2] = column[2] /\ report[3] = column[3] /\ report[4] = column[4]
        BY <1>3
    <2>3. /\ column[1] = EvaluateColumnExistence(nodes, services, "reads", TRUE)
          /\ column[2] = EvaluateColumnExistence(nodes, services, "writes", TRUE)
          /\ column[3] = EvaluateTypeCompatibility(nodes, services)
          /\ column[4] = EvaluateNotNullIntroduction(nodes, services, TRUE)
        BY DEF column, EvaluateColumnFamily
    <2>4. \A m : /\ ColumnFindingAt(1, m) = ColumnExistenceAt(m, services, "reads")
                 /\ ColumnFindingAt(2, m) = ColumnExistenceAt(m, services, "writes")
                 /\ ColumnFindingAt(3, m) = TypeCompatibilityAt(m, services)
                 /\ ColumnFindingAt(4, m) = NotNullAt(m, services)
        BY DEF ColumnFindingAt, ColumnReads, ColumnWrites, TypeChange, NotNull
    <2>5. CASE i = 1
        BY <2>2, <2>3, <2>4, <2>5 DEF EvaluateColumnExistence, none
    <2>6. CASE i = 2
        BY <2>2, <2>3, <2>4, <2>6 DEF EvaluateColumnExistence, none
    <2>7. CASE i = 3
        BY <2>2, <2>3, <2>4, <2>7 DEF EvaluateTypeCompatibility
    <2>8. CASE i = 4
        BY <2>2, <2>3, <2>4, <2>8 DEF EvaluateNotNullIntroduction, none
    <2>. QED BY <2>1, <2>5, <2>6, <2>7, <2>8
<1>6. ASSUME i \in CallHazards
      PROVE  report[i] = none \/ report[i] = Diagnose({<<m, ApiFinding(m, services, WayOf(i))>> : m \in nodes})
    <2>1. i = 11 \/ i = 12 \/ i = 13
        BY <1>6 DEF CallHazards, Endpoint, RequestField, ResponseField
    <2>2. report[11] = api[1] /\ report[12] = api[2] /\ report[13] = api[3]
        <3>1. 10 + 1 = 11 /\ 10 + 2 = 12 /\ 10 + 3 = 13 /\ 1 \in 1 .. 4 /\ 2 \in 1 .. 4 /\ 3 \in 1 .. 4
            OBVIOUS
        <3>. QED BY <3>1, <1>3
    <2>3. WayOf(11) = "Endpoint" /\ WayOf(12) = "RequestField" /\ WayOf(13) = "ResponseField"
        BY DEF WayOf, Endpoint, RequestField, ResponseField
    <2>4. CASE AnyAPIUsageDeclared(services)
        <3> DEFINE a == DiagnoseAPI(nodes, services, "Endpoint")
                   b == DiagnoseAPI(nodes, services, "RequestField")
                   c == DiagnoseAPI(nodes, services, "ResponseField")
                   d == Dominant(<<a, b, c>>)
        <3>1. api = Append(<<a, b, c>>, d)
            BY <2>4 DEF api, EvaluateAPI, WithAggregate
        <3> HIDE DEF a, b, c, d
        <3>2. api[1] = a /\ api[2] = b /\ api[3] = c
            BY <3>1
        <3>3. CASE i = 11
            BY <2>2, <2>3, <3>2, <3>3 DEF a, DiagnoseAPI
        <3>4. CASE i = 12
            BY <2>2, <2>3, <3>2, <3>4 DEF b, DiagnoseAPI
        <3>5. CASE i = 13
            BY <2>2, <2>3, <3>2, <3>5 DEF c, DiagnoseAPI
        <3>. QED BY <2>1, <3>3, <3>4, <3>5
    <2>5. CASE ~AnyAPIUsageDeclared(services)
        <3>1. api = [k \in 1 .. 4 |-> none]
            BY <2>5 DEF api, EvaluateAPI, none
        <3>2. api[1] = none /\ api[2] = none /\ api[3] = none
            BY <3>1
        <3>. QED BY <2>1, <2>2, <3>2
    <2>. QED BY <2>4, <2>5
<1>7. ASSUME i \in ColumnHazards
      PROVE  ColumnFindingAt(i, n).violations # {} <=> ColumnHazardIn(i, TrueState)
    <2> DEFINE st == TrueState
    <2>1. i = ColumnReads \/ i = ColumnWrites \/ i = TypeChange \/ i = NotNull
        BY <1>7 DEF ColumnHazards
    <2>2. CASE n.indeterminate
        <3>1. st.indeterminate
            BY <2>2, <1>2 DEF SameEvidence
        <3>2. ~ColumnHazardIn(i, st)
            BY <3>1 DEF ColumnHazardIn
        <3>3. ColumnFindingAt(i, n).violations = {}
            <4>1. Finding({}, TRUE).violations = {}
                BY DEF Finding
            <4>2. ColumnFindingAt(i, n) = Finding({}, TRUE)
                BY <2>1, <2>2 DEF ColumnFindingAt, ColumnReads, ColumnWrites, TypeChange, NotNull,
                       ColumnExistenceAt, TypeCompatibilityAt, NotNullAt, Unless
            <4>. QED BY <4>1, <4>2
        <3>. QED BY <3>2, <3>3
    <2>3. CASE ~n.indeterminate
        <3>1. ~st.indeterminate
            BY <2>3, <1>2 DEF SameEvidence
        <3>2. \A access : ColumnExistenceAt(n, services, access).violations # {}
                 <=> \E lv \in Declared : \E ref \in Misses(lv, access, st.schema) :
                        ~RenamedAway(st.committed, ref)
            <4> HIDE DEF st, services
            <4>. QED BY <1>1, <1>2, <2>3, MissingIsGone DEF st, services
        <3>3. /\ TypeCompatibilityAt(n, services).violations # {}
                    <=> \E lv \in Declared : Narrowed(lv, st.committed) # {}
              /\ NotNullAt(n, services).violations # {}
                    <=> \E lv \in Declared : Rejected(lv, st.schema) # {}
            BY <1>1, <1>2, <2>3, RetypedIsNarrowed, OmittedIsRejected
        <3>4. /\ ColumnFindingAt(ColumnReads, n) = ColumnExistenceAt(n, services, "reads")
              /\ ColumnFindingAt(ColumnWrites, n) = ColumnExistenceAt(n, services, "writes")
              /\ ColumnFindingAt(TypeChange, n) = TypeCompatibilityAt(n, services)
              /\ ColumnFindingAt(NotNull, n) = NotNullAt(n, services)
            BY DEF ColumnFindingAt, ColumnReads, ColumnWrites, TypeChange, NotNull
        <3> HIDE DEF st, services
        <3>5. /\ ColumnHazardIn(ColumnReads, st) <=>
                    \E lv \in Declared : \E ref \in Misses(lv, "reads", st.schema) :
                       ~RenamedAway(st.committed, ref)
              /\ ColumnHazardIn(ColumnWrites, st) <=>
                    \E lv \in Declared : \E ref \in Misses(lv, "writes", st.schema) :
                       ~RenamedAway(st.committed, ref)
              /\ ColumnHazardIn(TypeChange, st) <=>
                    \E lv \in Declared : Narrowed(lv, st.committed) # {}
              /\ ColumnHazardIn(NotNull, st) <=>
                    \E lv \in Declared : Rejected(lv, st.schema) # {}
            BY <3>1, HazardCases
        <3>6. ColumnFindingAt(i, n).violations # {} <=> ColumnHazardIn(i, st)
            BY <2>1, <3>2, <3>3, <3>4, <3>5
        <3>. QED BY <3>6 DEF st
    <2>. QED BY <2>2, <2>3
<1>8. CASE i \in ColumnHazards
    <2> DEFINE f == [m \in nodes |-> ColumnFindingAt(i, m)]
    <2>1. {<<m, f[m]>> : m \in nodes} = {<<m, ColumnFindingAt(i, m)>> : m \in nodes}
        OBVIOUS
    <2>2. f[n] = ColumnFindingAt(i, n)
        BY <1>1
    <2>3. Happens(i) <=> ColumnHazardIn(i, TrueState)
        BY <1>8 DEF Happens, ColumnHazard
    <2> HIDE DEF f
    <2>. QED BY <1>4, <1>5, <1>7, <1>8, <2>1, <2>2, <2>3 DEF nodes, n
<1>9. CASE i \in CallHazards
    <2> DEFINE f == [m \in nodes |-> ApiFinding(m, services, WayOf(i))]
    <2>1. {<<m, f[m]>> : m \in nodes} = {<<m, ApiFinding(m, services, WayOf(i))>> : m \in nodes}
        OBVIOUS
    <2>2. f[n] = ApiFinding(n, services, WayOf(i))
        BY <1>1
    <2>3. i \notin ColumnHazards
        BY <1>9 DEF CallHazards, ColumnHazards, Endpoint, RequestField, ResponseField,
               ColumnReads, ColumnWrites, TypeChange, NotNull
    <2>4. Happens(i) <=> CallHazard(i)
        BY <2>3 DEF Happens
    <2>5. f[n].violations # {} <=> CallHazard(i)
        BY <1>1, <1>9, <2>2, FailureIsCall
    <2> HIDE DEF f
    <2>. QED BY <1>4, <1>6, <1>9, <2>1, <2>4, <2>5 DEF nodes, n
<1>. QED BY <1>8, <1>9

\* What a counterexample says: something violates where it is, and whatever
\* violates anywhere is not reached by fewer events.
LEMMA CounterexampleFacts ==
    ASSUME Inv, Verified, Forward, Honest(project), Independent(plan),
           NEW i \in ColumnHazards \cup CallHazards, NEW s \in report[i].counterexample
    PROVE  /\ s.at = Here => Happens(i)
           /\ Happens(i) => ~(EventsTo(Here) < EventsTo(s.at))
<1>1. PICK f : /\ report[i] = Diagnose({<<m, f[m]>> : m \in Build(plan)})
               /\ f[NodeHere].violations # {} <=> Happens(i)
    BY HazardIsDiagnosed
<1>2. IsPlan(plan) /\ Place \in Positions(plan) /\ Here = Place
    BY DeploymentIs DEF Inv
<1>3. s \in Diagnose({<<m, f[m]>> : m \in Build(plan)}).counterexample
    BY <1>1
<1>4. /\ \E m \in Build(plan) : m.at = s.at /\ f[m].violations # {}
      /\ \A m \in Build(plan) : f[m].violations # {} => EventsTo(s.at) <= EventsTo(m.at)
    BY <1>2, <1>3, EarliestViolation
<1>5. NodeHere \in Build(plan) /\ NodeHere.at = Place
    BY NodeHereFacts, NodeAtFacts DEF NodeHere
<1>6. \A m \in Build(plan) : m.at = Place => m = NodeHere
    BY <1>2, GraphNodes DEF NodeHere
<1>7. \A m \in Build(plan) : EventsTo(m.at) \in Nat
    <2> SUFFICES ASSUME NEW m \in Build(plan) PROVE EventsTo(m.at) \in Nat
        OBVIOUS
    <2>1. PICK pos \in Positions(plan) : m = NodeAt(plan, pos)
        BY DEF Build, NodeAt
    <2>2. m.at = pos
        BY <2>1, NodeAtFacts
    <2>. QED BY <1>2, <2>2, EventsAreCounted
<1>8. ASSUME s.at = Here PROVE Happens(i)
    BY <1>1, <1>2, <1>4, <1>6, <1>8
<1>9. ASSUME Happens(i) PROVE ~(EventsTo(Here) < EventsTo(s.at))
    <2>1. EventsTo(s.at) <= EventsTo(NodeHere.at)
        BY <1>1, <1>4, <1>5, <1>9
    <2>2. EventsTo(s.at) \in Nat /\ EventsTo(NodeHere.at) \in Nat
        BY <1>4, <1>5, <1>7
    <2>. QED BY <1>2, <1>5, <2>1, <2>2
<1>. QED BY <1>8, <1>9

\* A counterexample of RP-DB-001 to 004 or RP-API-001 to 003 is real: a rollout
\* that comes to the violating state, by whatever order of events, breaks there
\* as the diagnostic says (shortestByStateID and the ladders of rpdb*.go and
\* rpapi.go).
THEOREM CounterexampleReal ==
    Spec => [](Honest(project) /\ Independent(plan) => CounterexampleIsReal)
<1>1. Inv => (Honest(project) /\ Independent(plan) => CounterexampleIsReal)
    <2> SUFFICES ASSUME Inv, Honest(project), Independent(plan), Verified, Forward,
                        NEW i \in ColumnHazards \cup CallHazards, WhereOf(i) = {Here}
                 PROVE  Happens(i)
        BY DEF CounterexampleIsReal
    <2>1. PICK s \in report[i].counterexample : s.at = Here
        BY DEF WhereOf
    <2>. QED BY <2>1, CounterexampleFacts
<1>. QED BY <1>1, Invariance, PTL

\* A counterexample of one of these seven is the earliest: nothing its diagnostic
\* is about happens in fewer events than its path has, in any rollout
\* (architecture 4.4).
THEOREM CounterexampleEarliest ==
    Spec => [](Honest(project) /\ Independent(plan) => CounterexampleIsEarliest)
<1>1. Inv => (Honest(project) /\ Independent(plan) => CounterexampleIsEarliest)
    <2> SUFFICES ASSUME Inv, Honest(project), Independent(plan), Verified, Forward,
                        NEW i \in ColumnHazards \cup CallHazards, NEW pos \in WhereOf(i),
                        EventsTo(Here) < EventsTo(pos)
                 PROVE  ~Happens(i)
        BY DEF CounterexampleIsEarliest
    <2>1. PICK s \in report[i].counterexample : pos = s.at
        BY DEF WhereOf
    <2>. QED BY <2>1, CounterexampleFacts
<1>. QED BY <1>1, Invariance, PTL
=============================================================================
