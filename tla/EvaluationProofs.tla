--------------------------- MODULE EvaluationProofs ---------------------------
(***************************************************************************)
(* What the graph and the report made of it are worth, for every plan.     *)
(*                                                                         *)
(* The nodes.  The events of a rollout lead from a position to a position. *)
(* Their IDs are numerals: a digit of radix 3 for each workload, a bit for *)
(* each during-migration, the chain behind them (NodeNumbers).             *)
(* A node's schema state tells the state the database is in when a rollout *)
(* gets there (Tells), in whatever order the during-migrations committed,  *)
(* as long as no two of them name a column in common: what such migrations *)
(* do together is what each does to the base by itself (Canonical), and    *)
(* replaying them in the order of the list is one order among the others.  *)
(* What became of a column that is gone is told in the same way (Decided). *)
(*                                                                         *)
(* The report.  What a clean finding at a node says of the versions live   *)
(* there (Clean), that a diagnostic is SAFE only if every node is clean,   *)
(* where each diagnostic stands in the report (RunReport), and what the    *)
(* aggregated verdict says of them (AggregateIs).                          *)
(*                                                                         *)
(* The folds of the model are followed prefix by prefix (FoldFacts).       *)
(***************************************************************************)
EXTENDS Evaluation, FiniteSetTheorems, FunctionTheorems, TLAPS

Commit == INSTANCE FoldFacts WITH
            Op <- LAMBDA mig, none, st, op : CommitOp(st, mig, op)
Replay == INSTANCE FoldFacts WITH
            Op <- LAMBDA plan, committed, st, i :
                    IF i \in committed THEN ApplyOne(st, plan.migrations[i]) ELSE st
Trail == INSTANCE FoldFacts WITH
            Op <- LAMBDA plan, none, st, i : ApplyOne(st, plan.migrations[i])
Combo == INSTANCE FoldFacts WITH Op <- LAMBDA c, d, idx, s : idx * 3 + s
Vector == INSTANCE FoldFacts WITH
            Op <- LAMBDA during, pending, dv, i :
                    IF i \in during THEN 2 * dv + 1
                    ELSE IF i \in pending THEN 2 * dv ELSE dv
Size == INSTANCE FoldFacts WITH Op <- LAMBDA c, d, size, radix : radix * size

-----------------------------------------------------------------------------
(* Lists.                                                                  *)

\* What appending does to a list.
LEMMA ListFacts ==
    ASSUME NEW s, IsList(s)
    PROVE  /\ Len(s) \in Nat
           /\ DOMAIN s = 1 .. Len(s)
           /\ \A x : /\ IsList(Append(s, x))
                     /\ ToSet(Append(s, x)) = ToSet(s) \cup {x}
                     /\ Len(Append(s, x)) = Len(s) + 1
<1>1. s \in Seq(ToSet(s))
    BY DEF IsList
<1>2. Len(s) \in Nat /\ DOMAIN s = 1 .. Len(s)
    BY <1>1
<1>3. ASSUME NEW x
      PROVE  /\ IsList(Append(s, x))
             /\ ToSet(Append(s, x)) = ToSet(s) \cup {x}
             /\ Len(Append(s, x)) = Len(s) + 1
    <2> DEFINE S == ToSet(s) \cup {x}
               t == Append(s, x)
    <2>1. s \in Seq(S)
        BY <1>1
    <2>2. /\ t \in Seq(S) /\ Len(t) = Len(s) + 1
          /\ DOMAIN t = 1 .. Len(s) + 1 /\ t[Len(s) + 1] = x
          /\ \A j \in 1 .. Len(s) : t[j] = s[j]
        <3> HIDE DEF S
        <3>1. x \in S BY DEF S
        <3>. QED BY <2>1, <3>1
    <2>3. ToSet(t) \subseteq S
        BY <1>2, <2>2 DEF ToSet
    <2>4. S \subseteq ToSet(t)
        <3>1. Len(s) + 1 \in DOMAIN t BY <1>2, <2>2
        <3>2. \A j \in DOMAIN s : j \in DOMAIN t /\ t[j] = s[j] BY <1>2, <2>2
        <3>. QED BY <3>1, <3>2, <2>2 DEF ToSet
    <2>5. ToSet(t) = S
        BY <2>3, <2>4
    <2>. QED BY <2>2, <2>5 DEF IsList
<1>. QED BY <1>2, <1>3

\* Appending to a sequence adds its element to the set of its elements.
LEMMA AppendToSet ==
    ASSUME NEW S, NEW s \in Seq(S), NEW x \in S
    PROVE  /\ Append(s, x) \in Seq(S)
           /\ ToSet(Append(s, x)) = ToSet(s) \cup {x}
<1>1. s \in Seq(ToSet(s))
    BY DEF ToSet
<1>. QED BY <1>1, ListFacts DEF IsList

-----------------------------------------------------------------------------
(* Positions, and where the events of a rollout lead from one to another.  *)

\* Migrations of a phase are positions in the plan's list, of that phase only.
LEMMA PhaseFacts ==
    ASSUME NEW p, IsPlan(p)
    PROVE  /\ During(p) \subseteq DOMAIN p.migrations
           /\ After(p) \subseteq DOMAIN p.migrations
           /\ During(p) \cap After(p) = {}
           /\ DOMAIN p.migrations \subseteq Int
    BY DEF During, After, InPhase, IsPlan

\* A node of the lattice and the hypercube, where no after-migration has
\* committed yet.
LEMMA OffChain ==
    ASSUME NEW p, IsPlan(p), NEW pos \in Positions(p), pos.after = {}
    PROVE  /\ pos = Position(pos.steps, pos.during, {})
           /\ pos.steps \in [Workloads(p) -> Steps]
           /\ pos.during \in SUBSET During(p)
<1>1. \A n \in After(p) : n \in UpTo(p, n)
    BY PhaseFacts DEF UpTo
<1>2. pos \notin Chain(p)
    BY <1>1 DEF Chain, RolloutComplete, Position
<1>. QED BY <1>2 DEF Positions, Position

\* A node of the chain, where the rollout is complete.
LEMMA OnChain ==
    ASSUME NEW p, IsPlan(p), NEW pos \in Positions(p), pos.after # {}
    PROVE  \E n \in After(p) :
              /\ pos = Position([w \in Workloads(p) |-> LastStep], During(p), UpTo(p, n))
              /\ pos.after = UpTo(p, n)
<1>1. pos \in Chain(p)
    BY DEF Positions, Position
<1>. QED BY <1>1 DEF Chain, RolloutComplete, Position

\* Every node is a well-formed position.
LEMMA PositionFacts ==
    ASSUME NEW p, IsPlan(p), NEW pos \in Positions(p)
    PROVE  /\ pos.steps \in [Workloads(p) -> Steps]
           /\ pos.during \subseteq During(p)
           /\ pos.after \subseteq After(p)
<1>1. CASE pos.after = {}
    BY <1>1, OffChain
<1>2. CASE pos.after # {}
    BY <1>2, OnChain DEF Position, UpTo, Steps, LastStep
<1>. QED BY <1>1, <1>2

\* The rollout is complete at a node exactly when every workload is done and
\* every during-migration committed.
LEMMA CompleteNodes ==
    ASSUME NEW p, IsPlan(p), NEW pos \in Positions(p)
    PROVE  pos \in Chain(p) \cup {RolloutComplete(p)}
              <=> /\ \A w \in Workloads(p) : pos.steps[w] = LastStep
                  /\ During(p) \subseteq pos.during
<1>1. ASSUME pos \in Chain(p) \cup {RolloutComplete(p)}
      PROVE  /\ \A w \in Workloads(p) : pos.steps[w] = LastStep
             /\ During(p) \subseteq pos.during
    BY <1>1 DEF Chain, RolloutComplete, Position
<1>2. ASSUME \A w \in Workloads(p) : pos.steps[w] = LastStep,
             During(p) \subseteq pos.during
      PROVE  pos \in Chain(p) \cup {RolloutComplete(p)}
    <2>1. CASE pos.after = {}
        <3>1. pos.steps = [w \in Workloads(p) |-> LastStep]
            BY <2>1, <1>2, OffChain
        <3>2. pos.during = During(p)
            BY <2>1, <1>2, OffChain
        <3>. QED BY <2>1, <3>1, <3>2, OffChain DEF RolloutComplete
    <2>2. CASE pos.after # {}
        BY <2>2 DEF Positions, Position
    <2>. QED BY <2>1, <2>2
<1>. QED BY <1>1, <1>2

\* A workload that has not finished is at a node without after-migrations, and
\* its next step is at a node.
LEMMA AdvancePosition ==
    ASSUME NEW p, IsPlan(p), NEW pos \in Positions(p), NEW w \in Workloads(p),
           pos.steps[w] < LastStep
    PROVE  /\ pos.after = {}
           /\ Position([pos.steps EXCEPT ![w] = @ + 1], pos.during, {}) \in Positions(p)
<1>1. pos.after = {}
    BY OnChain DEF Position, LastStep
<1>2. pos.steps \in [Workloads(p) -> Steps] /\ pos.during \in SUBSET During(p)
    BY <1>1, OffChain
<1>3. [pos.steps EXCEPT ![w] = @ + 1] \in [Workloads(p) -> Steps]
    BY <1>2 DEF Steps, LastStep
<1>. QED BY <1>1, <1>2, <1>3 DEF Positions

\* So it is where a during-migration is still to commit.
LEMMA DuringPosition ==
    ASSUME NEW p, IsPlan(p), NEW pos \in Positions(p), NEW i \in During(p) \ pos.during
    PROVE  /\ pos.after = {}
           /\ Position(pos.steps, pos.during \cup {i}, {}) \in Positions(p)
<1>1. pos.after = {}
    BY OnChain DEF Position
<1>2. pos.steps \in [Workloads(p) -> Steps] /\ pos.during \in SUBSET During(p)
    BY <1>1, OffChain
<1>. QED BY <1>1, <1>2 DEF Positions

\* The next after-migration is behind all that have committed.
LEMMA AfterPosition ==
    ASSUME NEW p, IsPlan(p), NEW pos \in Positions(p), NEW i \in After(p) \ pos.after,
           pos \in Chain(p) \cup {RolloutComplete(p)}, UpTo(p, i) \ {i} \subseteq pos.after
    PROVE  /\ \A j \in pos.after : j \in Int /\ j < i
           /\ Position(pos.steps, pos.during, pos.after \cup {i}) \in Positions(p)
<1>1. i \in Int /\ After(p) \subseteq Int
    BY PhaseFacts
<1>2. pos = Position([w \in Workloads(p) |-> LastStep], During(p), pos.after)
    BY DEF Chain, RolloutComplete, Position
<1>3. (\A j \in pos.after : j \in Int /\ j < i) /\ pos.after \cup {i} = UpTo(p, i)
    <2>1. CASE pos.after = {}
        BY <2>1, <1>1 DEF UpTo
    <2>2. CASE pos.after # {}
        <3>1. PICK n \in After(p) : pos.after = UpTo(p, n)
            BY <2>2, OnChain
        <3>2. n < i
            BY <3>1, <1>1 DEF UpTo
        <3>. QED BY <3>1, <3>2, <1>1 DEF UpTo
    <2>. QED BY <2>1, <2>2
<1>4. Position(pos.steps, pos.during, pos.after \cup {i})
         = [RolloutComplete(p) EXCEPT !.after = UpTo(p, i)]
    BY <1>2, <1>3 DEF RolloutComplete, Position
<1>. QED BY <1>3, <1>4 DEF Positions, Chain

-----------------------------------------------------------------------------
(* The numbers of the nodes.                                               *)

\* f goes through the numbers that the first digits stand for, where the k-th
\* digit has the radix r[k], and g through how many there are.
HasRadices(r, n) == \A k \in 1 .. n : r[k] \in 1 .. 3
HasDigits(d, r, n) == \A k \in 1 .. n : d[k] \in 0 .. r[k] - 1
Passing(f, d, r, n) == f[0] = 0 /\ \A k \in 1 .. n : f[k] = r[k] * f[k - 1] + d[k]
IsNumber(x, r, n) ==
    \E d \in [1 .. n -> Int] : \E f : HasDigits(d, r, n) /\ Passing(f, d, r, n) /\ f[n] = x
Counting(g, r, n) == g[0] = 1 /\ \A k \in 1 .. n : g[k] = r[k] * g[k - 1]

\* One digit more.
LEMMA OneDigit ==
    ASSUME NEW r \in 1 .. 3, NEW s \in 0 .. r - 1, NEW t \in 0 .. r - 1,
           NEW x \in Nat, NEW y \in Nat, NEW g \in Nat \ {0}
    PROVE  /\ r * x + s \in Nat /\ r * g \in Nat \ {0}
           /\ x < g => r * x + s < r * g
           /\ r * x + s = r * y + t => x = y /\ s = t
           /\ x <= y /\ s <= t => r * x + s <= r * y + t
           /\ x <= y /\ s <= t /\ (x < y \/ s < t) => r * x + s < r * y + t
           /\ x = g - 1 /\ s = r - 1 => r * x + s = r * g - 1
<1>1. CASE r = 1
    BY <1>1
<1>2. CASE r = 2
    BY <1>2
<1>3. CASE r = 3
    BY <1>3
<1>. QED BY <1>1, <1>2, <1>3

\* Every number has a last digit.
LEMMA LastDigit ==
    ASSUME NEW r \in 1 .. 3, NEW g \in Nat \ {0}, NEW z \in 0 .. r * g - 1
    PROVE  \E q \in 0 .. g - 1, s \in 0 .. r - 1 : z = r * q + s
<1>1. CASE r = 1
    <2>1. z \in 0 .. g - 1 /\ 0 \in 0 .. r - 1 /\ z = r * z + 0
        BY <1>1
    <2>. QED BY <2>1
<1>2. CASE r = 2
    <2> DEFINE q == z \div 2
               s == z % 2
    <2>1. q \in 0 .. g - 1 /\ s \in 0 .. r - 1 /\ z = r * q + s
        BY <1>2
    <2>. QED BY <2>1
<1>3. CASE r = 3
    <2> DEFINE q == z \div 3
               s == z % 3
    <2>1. q \in 0 .. g - 1 /\ s \in 0 .. r - 1 /\ z = r * q + s
        BY <1>3
    <2>. QED BY <2>1
<1>. QED BY <1>1, <1>2, <1>3

\* Numbers below the count, in the order of the digits.
LEMMA NumeralFacts ==
    ASSUME NEW n \in Nat, NEW r, HasRadices(r, n), NEW g, Counting(g, r, n),
           NEW d, HasDigits(d, r, n), NEW f, Passing(f, d, r, n),
           NEW e, HasDigits(e, r, n), NEW h, Passing(h, e, r, n)
    PROVE  /\ g[n] \in Nat \ {0} /\ f[n] \in 0 .. g[n] - 1
           /\ f[n] = h[n] => \A k \in 1 .. n : d[k] = e[k]
           /\ (\A k \in 1 .. n : d[k] <= e[k]) /\ (\E k \in 1 .. n : d[k] < e[k]) => f[n] < h[n]
           /\ (\A k \in 1 .. n : d[k] = 0) => f[n] = 0
           /\ (\A k \in 1 .. n : d[k] = r[k] - 1) => f[n] = g[n] - 1
<1> DEFINE Sizes(m) == g[m] \in Nat \ {0} /\ f[m] \in 0 .. g[m] - 1 /\ h[m] \in Nat
           Same(m) == f[m] = h[m] => \A k \in 1 .. m : d[k] = e[k]
           Upto(m) == (\A k \in 1 .. m : d[k] <= e[k]) =>
                        /\ f[m] <= h[m]
                        /\ (\E k \in 1 .. m : d[k] < e[k]) => f[m] < h[m]
           Zero(m) == (\A k \in 1 .. m : d[k] = 0) => f[m] = 0
           Top(m) == (\A k \in 1 .. m : d[k] = r[k] - 1) => f[m] = g[m] - 1
           S == {m \in Nat : m <= n => Sizes(m) /\ Same(m) /\ Upto(m) /\ Zero(m) /\ Top(m)}
<1>1. 0 \in S
    BY DEF Passing, Counting
<1>2. ASSUME NEW m \in Nat, m \in S PROVE m + 1 \in S
    <2> SUFFICES ASSUME m + 1 <= n
                 PROVE  Sizes(m + 1) /\ Same(m + 1) /\ Upto(m + 1) /\ Zero(m + 1) /\ Top(m + 1)
        OBVIOUS
    <2>1. m + 1 \in 1 .. n /\ (m + 1) - 1 = m /\ m <= n
        OBVIOUS
    <2>2. /\ r[m + 1] \in 1 .. 3
          /\ d[m + 1] \in 0 .. r[m + 1] - 1 /\ e[m + 1] \in 0 .. r[m + 1] - 1
          /\ f[m + 1] = r[m + 1] * f[m] + d[m + 1]
          /\ h[m + 1] = r[m + 1] * h[m] + e[m + 1]
          /\ g[m + 1] = r[m + 1] * g[m]
        BY <2>1 DEF HasRadices, HasDigits, Passing, Counting
    <2>3. Sizes(m) /\ Same(m) /\ Upto(m) /\ Zero(m) /\ Top(m)
        BY <1>2, <2>1
    <2>4. /\ g[m] \in Nat \ {0} /\ f[m] \in Nat /\ h[m] \in Nat /\ f[m] < g[m]
        BY <2>3
    <2>5. \A k \in 1 .. m + 1 : k \in 1 .. m \/ k = m + 1
        OBVIOUS
    <2>6. \A k \in 1 .. m : k \in 1 .. m + 1
        OBVIOUS
    <2>7. /\ f[m + 1] \in Nat /\ h[m + 1] \in Nat /\ g[m + 1] \in Nat \ {0}
          /\ f[m + 1] < g[m + 1]
        BY <2>2, <2>4, OneDigit
    <2>8. Sizes(m + 1)
        BY <2>7
    <2>9. Same(m + 1)
        <3>1. f[m + 1] = h[m + 1] => f[m] = h[m] /\ d[m + 1] = e[m + 1]
            BY <2>2, <2>4, OneDigit
        <3>. QED BY <3>1, <2>3, <2>5
    <2>10. Upto(m + 1)
        <3> SUFFICES ASSUME \A k \in 1 .. m + 1 : d[k] <= e[k]
                     PROVE  /\ f[m + 1] <= h[m + 1]
                            /\ (\E k \in 1 .. m + 1 : d[k] < e[k]) => f[m + 1] < h[m + 1]
            OBVIOUS
        <3>1. f[m] <= h[m] /\ d[m + 1] <= e[m + 1]
              /\ ((\E k \in 1 .. m : d[k] < e[k]) => f[m] < h[m])
            BY <2>3, <2>6, <2>1
        <3>2. f[m + 1] <= h[m + 1]
            BY <3>1, <2>2, <2>4, OneDigit
        <3>3. f[m] < h[m] \/ d[m + 1] < e[m + 1] => f[m + 1] < h[m + 1]
            BY <3>1, <2>2, <2>4, OneDigit
        <3>. QED BY <3>1, <3>2, <3>3, <2>5
    <2>11. Zero(m + 1)
        <3> SUFFICES ASSUME \A k \in 1 .. m + 1 : d[k] = 0 PROVE f[m + 1] = 0
            OBVIOUS
        <3>1. f[m] = 0 /\ d[m + 1] = 0
            BY <2>3, <2>6, <2>1
        <3>. QED BY <3>1, <2>2
    <2>12. Top(m + 1)
        <3> SUFFICES ASSUME \A k \in 1 .. m + 1 : d[k] = r[k] - 1 PROVE f[m + 1] = g[m + 1] - 1
            OBVIOUS
        <3>1. f[m] = g[m] - 1 /\ d[m + 1] = r[m + 1] - 1
            BY <2>3, <2>6, <2>1
        <3>. QED BY <3>1, <2>2, <2>4, OneDigit
    <2>. QED BY <2>8, <2>9, <2>10, <2>11, <2>12
<1> HIDE DEF S
<1>3. n \in S
    BY <1>1, <1>2, Combo!Induction
<1>. QED BY <1>3 DEF S

\* Each number below the count is one of them.
LEMMA EveryNumber ==
    ASSUME NEW n \in Nat, NEW r, HasRadices(r, n), NEW g, Counting(g, r, n),
           \A k \in 0 .. n : g[k] \in Nat \ {0},
           NEW x \in 0 .. g[n] - 1
    PROVE  IsNumber(x, r, n)
<1> DEFINE S == {m \in Nat : m <= n => \A z \in 0 .. g[m] - 1 : IsNumber(z, r, m)}
<1>1. 0 \in S
    <2> SUFFICES ASSUME NEW z \in 0 .. g[0] - 1 PROVE IsNumber(z, r, 0)
        OBVIOUS
    <2> DEFINE d == [k \in 1 .. 0 |-> 0]
               f == [k \in {0} |-> 0]
    <2>1. z = 0
        BY DEF Counting
    <2>2. HasDigits(d, r, 0) /\ Passing(f, d, r, 0) /\ f[0] = z /\ d \in [1 .. 0 -> Int]
        BY <2>1 DEF HasDigits, Passing
    <2>. QED BY <2>2 DEF IsNumber
<1>2. ASSUME NEW m \in Nat, m \in S PROVE m + 1 \in S
    <2> SUFFICES ASSUME m + 1 <= n, NEW z \in 0 .. g[m + 1] - 1 PROVE IsNumber(z, r, m + 1)
        OBVIOUS
    <2>1. m + 1 \in 1 .. n /\ (m + 1) - 1 = m /\ m <= n /\ m \in 0 .. n
        OBVIOUS
    <2>2. r[m + 1] \in 1 .. 3 /\ g[m + 1] = r[m + 1] * g[m] /\ g[m] \in Nat \ {0}
        BY <2>1 DEF HasRadices, Counting
    <2>3. PICK q \in 0 .. g[m] - 1, s \in 0 .. r[m + 1] - 1 : z = r[m + 1] * q + s
        <3>1. z \in 0 .. r[m + 1] * g[m] - 1
            BY <2>2
        <3>. QED BY <3>1, <2>2, LastDigit
    <2>4. PICK d \in [1 .. m -> Int] : \E f : HasDigits(d, r, m) /\ Passing(f, d, r, m) /\ f[m] = q
        BY <1>2, <2>1, <2>3 DEF IsNumber
    <2>5. PICK f : HasDigits(d, r, m) /\ Passing(f, d, r, m) /\ f[m] = q
        BY <2>4
    <2> DEFINE more == [k \in 1 .. m + 1 |-> IF k = m + 1 THEN s ELSE d[k]]
               next == [k \in 0 .. m + 1 |-> IF k = m + 1 THEN z ELSE f[k]]
    <2>6. /\ \A k \in 1 .. m : more[k] = d[k] /\ d[k] \in Int
          /\ more[m + 1] = s /\ s \in Int /\ more \in [1 .. m + 1 -> Int]
        BY <2>2, <2>4
    <2>7. /\ \A k \in 0 .. m : next[k] = f[k]
          /\ next[m + 1] = z
        OBVIOUS
    <2>8. \A k \in 1 .. m + 1 : k = m + 1 \/ (k \in 1 .. m /\ k \in 0 .. m /\ k - 1 \in 0 .. m)
        OBVIOUS
    <2> HIDE DEF more, next
    <2>9. HasDigits(more, r, m + 1)
        BY <2>3, <2>5, <2>6, <2>8 DEF HasDigits
    <2>10. Passing(next, more, r, m + 1)
        <3>1. next[0] = 0
            BY <2>5, <2>7 DEF Passing
        <3>2. ASSUME NEW k \in 1 .. m + 1 PROVE next[k] = r[k] * next[k - 1] + more[k]
            <4>1. CASE k = m + 1
                <5>1. next[k] = z /\ next[k - 1] = q /\ more[k] = s
                    BY <4>1, <2>1, <2>5, <2>6, <2>7
                <5>. QED BY <4>1, <5>1, <2>3
            <4>2. CASE k \in 1 .. m
                <5>1. next[k] = f[k] /\ next[k - 1] = f[k - 1] /\ more[k] = d[k]
                    BY <4>2, <2>6, <2>7, <2>8
                <5>. QED BY <4>2, <5>1, <2>5 DEF Passing
            <4>. QED BY <4>1, <4>2, <2>8
        <3>. QED BY <3>1, <3>2 DEF Passing
    <2>. QED BY <2>6, <2>7, <2>9, <2>10 DEF IsNumber
<1> HIDE DEF S
<1>3. n \in S
    BY <1>1, <1>2, Combo!Induction
<1>. QED BY <1>3 DEF S

\* There is a count for all radices.
LEMMA Counted ==
    ASSUME NEW n \in Nat, NEW r, DOMAIN r = 1 .. n, HasRadices(r, n)
    PROVE  \E g : Counting(g, r, n) /\ \A k \in 0 .. n : g[k] \in Nat \ {0}
<1> DEFINE g == Size!Stages(0, 0, 1, r, n)
<1>1. Size!Passes(g, 0, 0, 1, r, n)
    BY Size!FoldSteps
<1> HIDE DEF g
<1>2. Counting(g, r, n)
    BY <1>1 DEF Size!Passes, Counting
<1> DEFINE S == {k \in Nat : k <= n => g[k] \in Nat \ {0}}
<1>3. 0 \in S
    BY <1>2 DEF Counting
<1>4. ASSUME NEW k \in Nat, k \in S PROVE k + 1 \in S
    <2> SUFFICES ASSUME k + 1 <= n PROVE g[k + 1] \in Nat \ {0}
        OBVIOUS
    <2>1. k + 1 \in 1 .. n /\ (k + 1) - 1 = k /\ g[k] \in Nat \ {0}
        BY <1>4
    <2>2. g[k + 1] = r[k + 1] * g[k] /\ r[k + 1] \in 1 .. 3
        BY <2>1, <1>2 DEF Counting, HasRadices
    <2>. QED BY <2>1, <2>2, OneDigit
<1>5. Nat \subseteq S
    <2> HIDE DEF S
    <2>. QED BY <1>3, <1>4, Combo!Induction
<1>6. \A k \in 0 .. n : g[k] \in Nat \ {0}
    BY <1>5
<1>. QED BY <1>2, <1>6

\* Digits stand for one number.
LEMMA SameNumber ==
    ASSUME NEW n \in Nat, NEW r, NEW d, NEW f, Passing(f, d, r, n), NEW h, Passing(h, d, r, n)
    PROVE  f[n] = h[n]
<1> DEFINE S == {k \in Nat : k <= n => f[k] = h[k]}
<1>1. 0 \in S
    BY DEF Passing
<1>2. ASSUME NEW k \in Nat, k \in S PROVE k + 1 \in S
    <2> SUFFICES ASSUME k + 1 <= n PROVE f[k + 1] = h[k + 1]
        OBVIOUS
    <2>1. k + 1 \in 1 .. n /\ (k + 1) - 1 = k /\ f[k] = h[k]
        BY <1>2
    <2>. QED BY <2>1 DEF Passing
<1> HIDE DEF S
<1>3. n \in S
    BY <1>1, <1>2, Combo!Induction
<1>. QED BY <1>3 DEF S

\* What is numbered from 0 on has as many members as there are numbers.
LEMMA BijectionCounts ==
    ASSUME NEW A, NEW n \in Nat, NEW F \in Bijection(A, 0 .. n - 1)
    PROVE  IsFiniteSet(A) /\ Cardinality(A) = n
<1>1. IsFiniteSet(0 .. n - 1) /\ Cardinality(0 .. n - 1) = n
    BY FS_Interval
<1>2. ExistsBijection(A, 0 .. n - 1)
    BY DEF ExistsBijection
<1>3. ExistsBijection(0 .. n - 1, A)
    BY <1>2, Fun_ExistsBijSymmetric
<1>. QED BY <1>1, <1>3, FS_Bijection

\* The numbering of the lattice.
LEMMA ComboNumbers ==
    ASSUME NEW n \in Nat, NEW size, size = Cardinality([1 .. n -> Steps])
    PROVE  /\ size \in Nat \ {0}
           /\ \A a \in [1 .. n -> Steps] : ComboIndex(a) \in 0 .. size - 1
           /\ \A a, b \in [1 .. n -> Steps] : ComboIndex(a) = ComboIndex(b) => a = b
           /\ \A x \in 0 .. size - 1 : \E a \in [1 .. n -> Steps] : ComboIndex(a) = x
           /\ \A a \in [1 .. n -> Steps], w \in 1 .. n : a[w] < LastStep =>
                 ComboIndex(a) < ComboIndex([a EXCEPT ![w] = @ + 1])
           /\ ComboIndex([w \in 1 .. n |-> 0]) = 0
           /\ ComboIndex([w \in 1 .. n |-> LastStep]) = size - 1
<1> DEFINE Lattice == [1 .. n -> Steps]
           r == [k \in 1 .. n |-> 3]
           Passed(a) == Combo!Stages(0, 0, 0, a, n)
<1>1. Steps = 0 .. 2 /\ LastStep = 2
    BY DEF Steps, LastStep
<1>2. DOMAIN r = 1 .. n /\ HasRadices(r, n) /\ \A k \in 1 .. n : r[k] = 3
    BY DEF HasRadices
<1> HIDE DEF r
<1>3. PICK g : Counting(g, r, n) /\ \A k \in 0 .. n : g[k] \in Nat \ {0}
    BY <1>2, Counted
<1>4. ASSUME NEW a \in Lattice
      PROVE  HasDigits(a, r, n) /\ Passing(Passed(a), a, r, n) /\ Passed(a)[n] = ComboIndex(a)
    <2>1. \A k \in 1 .. n : a[k] \in 0 .. 2
        BY <1>1
    <2>2. Combo!Passes(Passed(a), 0, 0, 0, a, n)
        <3>1. DOMAIN a = 1 .. n
            OBVIOUS
        <3>. QED BY <3>1, Combo!FoldSteps
    <2> DEFINE f == Passed(a)
    <2> HIDE DEF f
    <2>3. /\ f[0] = 0 /\ f[n] = Combo!Fold(0, 0, 0, a)
          /\ \A k \in 1 .. n : f[k] = f[k - 1] * 3 + a[k]
        BY <2>2 DEF Combo!Passes, f
    <2>4. Combo!Fold(0, 0, 0, a) = ComboIndex(a)
        BY DEF ComboIndex, Combo!Fold, FoldLeft, Combo!FoldLeft, MapThenFoldSet,
               Combo!MapThenFoldSet, Max, Combo!Max
    <2> DEFINE S == {k \in Nat : k <= n => f[k] \in Nat}
    <2>5. 0 \in S
        BY <2>3
    <2>6. ASSUME NEW k \in Nat, k \in S PROVE k + 1 \in S
        <3> SUFFICES ASSUME k + 1 <= n PROVE f[k + 1] \in Nat
            OBVIOUS
        <3>1. k + 1 \in 1 .. n /\ (k + 1) - 1 = k /\ f[k] \in Nat
            BY <2>6
        <3>2. f[k + 1] = f[k] * 3 + a[k + 1]
            BY <2>3, <3>1
        <3>. QED BY <3>1, <3>2, <2>1
    <2>7. Nat \subseteq S
        <3> HIDE DEF S
        <3>. QED BY <2>5, <2>6, Combo!Induction
    <2>8. Passing(f, a, r, n)
        <3>1. ASSUME NEW k \in 1 .. n PROVE f[k] = r[k] * f[k - 1] + a[k]
            <4>1. f[k - 1] \in Nat
                BY <2>7
            <4>. QED BY <4>1, <2>3, <1>2
        <3>. QED BY <3>1, <2>3 DEF Passing
    <2>9. HasDigits(a, r, n)
        BY <1>2, <2>1 DEF HasDigits
    <2>. QED BY <2>3, <2>4, <2>8, <2>9 DEF f
<1> DEFINE count == g[n]
<1>5. count \in Nat \ {0}
    BY <1>3
<1> HIDE DEF Passed
<1>6. \A a \in Lattice : ComboIndex(a) \in 0 .. count - 1
    BY <1>2, <1>3, <1>4, NumeralFacts
<1>7. ASSUME NEW a \in Lattice, NEW b \in Lattice, ComboIndex(a) = ComboIndex(b) PROVE a = b
    <2>1. \A k \in 1 .. n : a[k] = b[k]
        BY <1>2, <1>3, <1>4, <1>7, NumeralFacts
    <2>. QED BY <2>1
<1>8. ASSUME NEW x \in 0 .. count - 1 PROVE \E a \in Lattice : ComboIndex(a) = x
    <2>1. IsNumber(x, r, n)
        <3>1. HasRadices(r, n) /\ Counting(g, r, n) /\ \A k \in 0 .. n : g[k] \in Nat \ {0}
            BY <1>2, <1>3
        <3>2. x \in 0 .. g[n] - 1
            BY <1>8
        <3>. QED BY <3>1, <3>2, EveryNumber
    <2>2. PICK d \in [1 .. n -> Int] : \E f : HasDigits(d, r, n) /\ Passing(f, d, r, n) /\ f[n] = x
        BY <2>1 DEF IsNumber
    <2>3. PICK f : HasDigits(d, r, n) /\ Passing(f, d, r, n) /\ f[n] = x
        BY <2>2
    <2>4. d \in Lattice
        BY <2>3, <1>1, <1>2 DEF HasDigits
    <2>5. ComboIndex(d) \in 0 .. count - 1 /\ HasDigits(d, r, n)
          /\ Passing(Passed(d), d, r, n) /\ Passed(d)[n] = ComboIndex(d)
        BY <1>4, <1>6, <2>4
    <2>6. f[n] = Passed(d)[n]
        BY <2>3, <2>5, SameNumber
    <2>. QED BY <2>3, <2>4, <2>5, <2>6
<1>9. ASSUME NEW a \in Lattice, NEW w \in 1 .. n, a[w] < LastStep
      PROVE  ComboIndex(a) < ComboIndex([a EXCEPT ![w] = @ + 1])
    <2> DEFINE b == [a EXCEPT ![w] = @ + 1]
    <2>1. b \in Lattice /\ b[w] = a[w] + 1 /\ (\A k \in 1 .. n : a[k] <= b[k]) /\ a[w] < b[w]
        BY <1>1, <1>9
    <2> HIDE DEF b
    <2>2. Passed(a)[n] < Passed(b)[n]
        <3>1. HasRadices(r, n) /\ Counting(g, r, n)
            BY <1>2, <1>3
        <3>2. /\ HasDigits(a, r, n) /\ Passing(Passed(a), a, r, n)
              /\ HasDigits(b, r, n) /\ Passing(Passed(b), b, r, n)
            BY <1>4, <2>1
        <3> DEFINE f == Passed(a)
                   h == Passed(b)
        <3> HIDE DEF f, h
        <3>3. (\A k \in 1 .. n : a[k] <= b[k]) /\ (\E k \in 1 .. n : a[k] < b[k])
            BY <2>1
        <3>4. Passing(f, a, r, n) /\ Passing(h, b, r, n)
            BY <3>2 DEF f, h
        <3>5. f[n] < h[n]
            BY <3>1, <3>2, <3>3, <3>4, NumeralFacts
        <3>. QED BY <3>5 DEF f, h
    <2>3. ComboIndex(a) < ComboIndex(b)
        BY <2>1, <2>2, <1>4
    <2>. QED BY <2>3 DEF b
<1>10. ComboIndex([w \in 1 .. n |-> 0]) = 0
    <2> DEFINE a == [w \in 1 .. n |-> 0]
    <2>1. a \in Lattice /\ \A k \in 1 .. n : a[k] = 0
        BY <1>1
    <2> HIDE DEF a
    <2>2. ComboIndex(a) = 0
        BY <2>1, <1>2, <1>3, <1>4, NumeralFacts
    <2>. QED BY <2>2 DEF a
<1>11. ComboIndex([w \in 1 .. n |-> LastStep]) = count - 1
    <2> DEFINE a == [w \in 1 .. n |-> LastStep]
    <2>1. a \in Lattice /\ \A k \in 1 .. n : a[k] = r[k] - 1
        BY <1>1, <1>2
    <2> HIDE DEF a
    <2>2. ComboIndex(a) = count - 1
        BY <2>1, <1>2, <1>3, <1>4, NumeralFacts
    <2>. QED BY <2>2 DEF a
<1>12. size = count
    <2> DEFINE F == [a \in Lattice |-> ComboIndex(a)]
    <2> HIDE DEF count
    <2>1. F \in Bijection(Lattice, 0 .. count - 1)
        BY <1>6, <1>7, <1>8, Fun_IsBij
    <2>. QED BY <2>1, <1>5, BijectionCounts
<1>. QED BY <1>5, <1>6, <1>7, <1>8, <1>9, <1>10, <1>11, <1>12

\* The numbering of the hypercube.
LEMMA VectorNumbers ==
    ASSUME NEW p, IsPlan(p), NEW size, size = NumDuringVectors(p)
    PROVE  /\ size \in Nat \ {0}
           /\ \A d \in SUBSET During(p) : DuringVector(p, d) \in 0 .. size - 1
           /\ \A d, e \in SUBSET During(p) : DuringVector(p, d) = DuringVector(p, e) => d = e
           /\ \A x \in 0 .. size - 1 : \E d \in SUBSET During(p) : DuringVector(p, d) = x
           /\ \A d \in SUBSET During(p) : \A i \in During(p) \ d :
                 DuringVector(p, d) < DuringVector(p, d \cup {i})
           /\ DuringVector(p, {}) = 0
           /\ DuringVector(p, During(p)) = size - 1
<1> DEFINE n == Len(p.migrations)
           pending == During(p)
           r == [k \in 1 .. n |-> IF n + 1 - k \in pending THEN 2 ELSE 1]
           Bits(d) == [k \in 1 .. n |-> IF n + 1 - k \in d THEN 1 ELSE 0]
           list == FromLast(p)
           Passed(d) == Vector!Stages(d, pending, 0, list, n)
<1>1. n \in Nat /\ pending \subseteq 1 .. n /\ DOMAIN p.migrations = 1 .. n
    BY DEF IsPlan, During, InPhase
<1>2. DOMAIN list = 1 .. n /\ \A k \in 1 .. n : list[k] = n + 1 - k
    BY <1>1 DEF FromLast
<1> HIDE DEF n, pending, list
<1>3. /\ DOMAIN r = 1 .. n /\ HasRadices(r, n)
      /\ \A k \in 1 .. n : r[k] = IF n + 1 - k \in pending THEN 2 ELSE 1
    BY DEF HasRadices
<1> HIDE DEF r
<1>4. PICK g : Counting(g, r, n) /\ \A k \in 0 .. n : g[k] \in Nat \ {0}
    BY <1>1, <1>3, Counted
<1>5. ASSUME NEW d \in SUBSET pending
      PROVE  /\ HasDigits(Bits(d), r, n) /\ Passing(Passed(d), Bits(d), r, n)
             /\ Passed(d)[n] = DuringVector(p, d)
    <2>1. Vector!Passes(Passed(d), d, pending, 0, list, n)
        BY <1>1, <1>2, Vector!FoldSteps
    <2> DEFINE f == Passed(d)
               b == Bits(d)
    <2>2. \A k \in 1 .. n : b[k] = IF n + 1 - k \in d THEN 1 ELSE 0
        OBVIOUS
    <2> HIDE DEF f, b
    <2>3. /\ f[0] = 0 /\ f[n] = Vector!Fold(d, pending, 0, list)
          /\ \A k \in 1 .. n :
                f[k] = IF n + 1 - k \in d THEN 2 * f[k - 1] + 1
                       ELSE IF n + 1 - k \in pending THEN 2 * f[k - 1] ELSE f[k - 1]
        BY <2>1, <1>2 DEF Vector!Passes, f
    <2>4. Vector!Fold(d, pending, 0, list) = DuringVector(p, d)
        BY DEF DuringVector, Vector!Fold, FoldLeft, Vector!FoldLeft, MapThenFoldSet,
               Vector!MapThenFoldSet, Max, Vector!Max, pending, list
    <2> DEFINE S == {k \in Nat : k <= n => f[k] \in Nat}
    <2>5. 0 \in S
        BY <2>3
    <2>6. ASSUME NEW k \in Nat, k \in S PROVE k + 1 \in S
        <3> SUFFICES ASSUME k + 1 <= n PROVE f[k + 1] \in Nat
            OBVIOUS
        <3>1. k + 1 \in 1 .. n /\ (k + 1) - 1 = k /\ f[k] \in Nat
            BY <1>1, <2>6
        <3>2. f[k + 1] = IF n + 1 - (k + 1) \in d THEN 2 * f[k] + 1
                         ELSE IF n + 1 - (k + 1) \in pending THEN 2 * f[k] ELSE f[k]
            BY <2>3, <3>1
        <3>. QED BY <3>1, <3>2
    <2>7. Nat \subseteq S
        <3> HIDE DEF S
        <3>. QED BY <2>5, <2>6, Combo!Induction
    <2>8. ASSUME NEW k \in 1 .. n
          PROVE  f[k] = r[k] * f[k - 1] + b[k] /\ b[k] \in 0 .. r[k] - 1
        <3>1. f[k - 1] \in Nat
            BY <1>1, <2>7
        <3>2. n + 1 - k \in d => n + 1 - k \in pending
            OBVIOUS
        <3>. QED BY <3>1, <3>2, <2>2, <2>3, <1>3
    <2>9. HasDigits(b, r, n) /\ Passing(f, b, r, n)
        BY <2>8, <2>3 DEF HasDigits, Passing
    <2>. QED BY <2>3, <2>4, <2>9 DEF f, b
<1>6. \A d \in SUBSET pending, k \in 1 .. n : Bits(d)[k] = IF n + 1 - k \in d THEN 1 ELSE 0
    OBVIOUS
<1>7. \A i \in pending : n + 1 - i \in 1 .. n /\ n + 1 - (n + 1 - i) = i
    BY <1>1
<1> DEFINE count == g[n]
<1>8. count \in Nat \ {0}
    BY <1>1, <1>4
<1> HIDE DEF Passed, Bits
<1>9. \A d \in SUBSET pending : DuringVector(p, d) \in 0 .. count - 1
    BY <1>1, <1>3, <1>4, <1>5, NumeralFacts
<1>10. ASSUME NEW d \in SUBSET pending, NEW e \in SUBSET pending,
              DuringVector(p, d) = DuringVector(p, e)
       PROVE  d = e
    <2>1. \A k \in 1 .. n : Bits(d)[k] = Bits(e)[k]
        BY <1>1, <1>3, <1>4, <1>5, <1>10, NumeralFacts
    <2>2. ASSUME NEW i \in pending PROVE i \in d <=> i \in e
        BY <2>1, <1>6, <1>7
    <2>. QED BY <2>2
<1>11. ASSUME NEW x \in 0 .. count - 1
       PROVE  \E d \in SUBSET pending : DuringVector(p, d) = x
    <2>1. IsNumber(x, r, n)
        <3>1. HasRadices(r, n) /\ Counting(g, r, n) /\ \A k \in 0 .. n : g[k] \in Nat \ {0}
            BY <1>3, <1>4
        <3>2. x \in 0 .. g[n] - 1
            BY <1>11
        <3>. QED BY <3>1, <3>2, <1>1, EveryNumber
    <2>2. PICK b \in [1 .. n -> Int] : \E f : HasDigits(b, r, n) /\ Passing(f, b, r, n) /\ f[n] = x
        BY <2>1 DEF IsNumber
    <2>3. PICK f : HasDigits(b, r, n) /\ Passing(f, b, r, n) /\ f[n] = x
        BY <2>2
    <2> DEFINE d == {i \in pending : b[n + 1 - i] = 1}
    <2>4. d \in SUBSET pending
        OBVIOUS
    <2>5. \A k \in 1 .. n : Bits(d)[k] = b[k]
        <3> SUFFICES ASSUME NEW k \in 1 .. n PROVE Bits(d)[k] = b[k]
            OBVIOUS
        <3>1. Bits(d)[k] = IF n + 1 - k \in d THEN 1 ELSE 0
            BY <1>6, <2>4
        <3>2. b[k] \in 0 .. r[k] - 1 /\ r[k] = IF n + 1 - k \in pending THEN 2 ELSE 1
            BY <1>3, <2>3 DEF HasDigits
        <3>3. n + 1 - (n + 1 - k) = k
            BY <1>1
        <3>4. n + 1 - k \in d <=> n + 1 - k \in pending /\ b[k] = 1
            BY <3>3
        <3>. QED BY <3>1, <3>2, <3>4
    <2> HIDE DEF d
    <2>6. Passing(f, Bits(d), r, n)
        BY <2>3, <2>5 DEF Passing
    <2>7. Passing(Passed(d), Bits(d), r, n) /\ Passed(d)[n] = DuringVector(p, d)
        BY <1>5, <2>4
    <2>8. f[n] = Passed(d)[n]
        BY <1>1, <2>6, <2>7, SameNumber
    <2>. QED BY <2>3, <2>4, <2>7, <2>8
<1>12. ASSUME NEW d \in SUBSET pending, NEW i \in pending \ d
       PROVE  DuringVector(p, d) < DuringVector(p, d \cup {i})
    <2> DEFINE e == d \cup {i}
    <2>1. e \in SUBSET pending
        OBVIOUS
    <2>2. \A k \in 1 .. n : Bits(d)[k] <= Bits(e)[k]
        BY <1>6, <2>1
    <2>3. n + 1 - i \in 1 .. n /\ Bits(d)[n + 1 - i] = 0 /\ Bits(e)[n + 1 - i] = 1
        BY <1>6, <1>7, <2>1
    <2> HIDE DEF e
    <2>4. \E k \in 1 .. n : Bits(d)[k] < Bits(e)[k]
        BY <2>3
    <2>5. Passed(d)[n] < Passed(e)[n]
        <3>1. HasRadices(r, n) /\ Counting(g, r, n)
            BY <1>3, <1>4
        <3>2. /\ HasDigits(Bits(d), r, n) /\ Passing(Passed(d), Bits(d), r, n)
              /\ HasDigits(Bits(e), r, n) /\ Passing(Passed(e), Bits(e), r, n)
            BY <1>5, <2>1
        <3> DEFINE f == Passed(d)
                   h == Passed(e)
                   a == Bits(d)
                   b == Bits(e)
        <3> HIDE DEF f, h, a, b
        <3>3. (\A k \in 1 .. n : a[k] <= b[k]) /\ (\E k \in 1 .. n : a[k] < b[k])
            BY <2>2, <2>4 DEF a, b
        <3>4. HasDigits(a, r, n) /\ Passing(f, a, r, n) /\ HasDigits(b, r, n) /\ Passing(h, b, r, n)
            BY <3>2 DEF f, h, a, b
        <3>5. f[n] < h[n]
            BY <1>1, <3>1, <3>3, <3>4, NumeralFacts
        <3>. QED BY <3>5 DEF f, h
    <2>6. DuringVector(p, d) < DuringVector(p, e)
        BY <2>1, <2>5, <1>5
    <2>. QED BY <2>6 DEF e
<1>13. DuringVector(p, {}) = 0
    <2> DEFINE d == {}
    <2>1. d \in SUBSET pending /\ \A k \in 1 .. n : Bits(d)[k] = 0
        BY <1>6
    <2> HIDE DEF d
    <2>2. DuringVector(p, d) = 0
        BY <2>1, <1>1, <1>3, <1>4, <1>5, NumeralFacts
    <2>. QED BY <2>2 DEF d
<1>14. DuringVector(p, pending) = count - 1
    <2>1. pending \in SUBSET pending /\ \A k \in 1 .. n : Bits(pending)[k] = r[k] - 1
        BY <1>3, <1>6
    <2>. QED BY <2>1, <1>1, <1>3, <1>4, <1>5, NumeralFacts
<1>15. size = count
    <2> DEFINE F == [d \in SUBSET pending |-> DuringVector(p, d)]
    <2> HIDE DEF count
    <2>1. F \in Bijection(SUBSET pending, 0 .. count - 1)
        BY <1>9, <1>10, <1>11, Fun_IsBij
    <2>2. Cardinality(SUBSET pending) = count
        BY <2>1, <1>8, BijectionCounts
    <2>3. IsFiniteSet(1 .. n)
        BY <1>1, FS_Interval
    <2>4. IsFiniteSet(pending)
        BY <2>3, <1>1, FS_Subset
    <2>5. Cardinality(SUBSET pending) = 2^Cardinality(pending)
        BY <2>4, FS_SUBSET
    <2>. QED BY <2>2, <2>5 DEF NumDuringVectors, pending
<1> HIDE DEF count
<1>16. /\ size \in Nat \ {0}
       /\ \A d \in SUBSET pending : DuringVector(p, d) \in 0 .. size - 1
       /\ \A d, e \in SUBSET pending : DuringVector(p, d) = DuringVector(p, e) => d = e
       /\ \A x \in 0 .. size - 1 : \E d \in SUBSET pending : DuringVector(p, d) = x
       /\ \A d \in SUBSET pending : \A i \in pending \ d :
             DuringVector(p, d) < DuringVector(p, d \cup {i})
       /\ DuringVector(p, {}) = 0
       /\ DuringVector(p, pending) = size - 1
    BY <1>8, <1>9, <1>10, <1>11, <1>12, <1>13, <1>14, <1>15
<1>. QED BY <1>16 DEF pending

\* Rows of a table, numbered one after the other.
LEMMA RowMajor ==
    ASSUME NEW S \in Nat \ {0}, NEW N \in Nat \ {0},
           NEW a \in 0 .. S - 1, NEW b \in 0 .. N - 1, NEW c \in 0 .. S - 1, NEW e \in 0 .. N - 1
    PROVE  /\ a * N + b \in 0 .. S * N - 1
           /\ a < c => a * N + b < c * N + e
           /\ a = c /\ b < e => a * N + b < c * N + e
           /\ a * N + b = c * N + e => a = c /\ b = e
           /\ (S - 1) * N + (N - 1) = S * N - 1
           /\ S * N \in Nat \ {0}
<1>1. ASSUME NEW x \in Nat, NEW y \in Nat, x < y PROVE x * N + N <= y * N
    <2> DEFINE z == y - x - 1
    <2>1. z \in Nat /\ y = x + 1 + z
        BY <1>1
    <2> HIDE DEF z
    <2>2. z * N \in Nat
        BY <2>1
    <2>3. y * N = x * N + N + z * N
        BY <2>1
    <2>4. x * N \in Nat
        OBVIOUS
    <2>. QED BY <2>2, <2>3, <2>4
<1>2. a * N \in Nat /\ c * N \in Nat /\ S * N \in Nat
    OBVIOUS
<1>3. a * N + N <= S * N
    BY <1>1
<1>4. a < c => a * N + N <= c * N
    BY <1>1
<1>5. c < a => c * N + N <= a * N
    BY <1>1
<1>6. a \in Int /\ c \in Int /\ (a < c \/ c < a \/ a = c)
    OBVIOUS
<1>7. (S - 1) * N + (N - 1) = S * N - 1
    OBVIOUS
<1>8. a * N + b \in 0 .. S * N - 1
    BY <1>2, <1>3
<1>9. a < c => a * N + b < c * N + e
    BY <1>2, <1>4
<1>10. c < a => c * N + e < a * N + b
    BY <1>2, <1>5
<1>11. a = c /\ b < e => a * N + b < c * N + e
    BY <1>2
<1>12. a * N + b = c * N + e => a = c /\ b = e
    BY <1>2, <1>6, <1>9, <1>10
<1>13. S * N # 0
    BY <1>2, <1>3
<1>. QED BY <1>2, <1>7, <1>8, <1>9, <1>11, <1>12, <1>13

\* Every place in the table has its row.
LEMMA EveryRow ==
    ASSUME NEW S \in Nat \ {0}, NEW N \in Nat \ {0}, NEW z \in 0 .. S * N - 1
    PROVE  \E a \in 0 .. S - 1, b \in 0 .. N - 1 : z = a * N + b
<1> DEFINE T == {x \in Nat : x < S * N => \E a \in 0 .. S - 1, b \in 0 .. N - 1 : x = a * N + b}
<1>1. 0 \in T
    <2>1. 0 \in 0 .. S - 1 /\ 0 \in 0 .. N - 1 /\ 0 = 0 * N + 0
        OBVIOUS
    <2>. QED BY <2>1
<1>2. ASSUME NEW x \in Nat, x \in T PROVE x + 1 \in T
    <2> SUFFICES ASSUME x + 1 < S * N
                 PROVE  \E a \in 0 .. S - 1, b \in 0 .. N - 1 : x + 1 = a * N + b
        OBVIOUS
    <2>1. x < S * N
        BY RowMajor
    <2>2. PICK a \in 0 .. S - 1, b \in 0 .. N - 1 : x = a * N + b
        BY <1>2, <2>1
    <2>3. CASE b + 1 \in 0 .. N - 1
        <3>1. x + 1 = a * N + (b + 1)
            BY <2>2
        <3>. QED BY <2>3, <3>1
    <2>4. CASE b = N - 1
        <3>1. x + 1 = (a + 1) * N + 0
            BY <2>2, <2>4
        <3>2. a + 1 # S
            BY <3>1
        <3>3. a + 1 \in 0 .. S - 1 /\ 0 \in 0 .. N - 1
            BY <3>2
        <3>. QED BY <3>1, <3>3
    <2>. QED BY <2>3, <2>4
<1> HIDE DEF T
<1>3. z \in T
    BY <1>1, <1>2, RowMajor, Combo!Induction
<1>. QED BY <1>3 DEF T

\* The after-migrations committed at the nodes of the chain are one more at
\* each, up to all of them.
LEMMA ChainNumbers ==
    ASSUME NEW p, IsPlan(p), NEW size, size = Cardinality(After(p))
    PROVE  /\ size \in Nat
           /\ After(p) = {} <=> size = 0
           /\ \A n \in After(p) : Cardinality(UpTo(p, n)) \in 1 .. size
           /\ \A m, n \in After(p) : Cardinality(UpTo(p, m)) = Cardinality(UpTo(p, n)) => m = n
           /\ \A k \in 1 .. size : \E n \in After(p) : Cardinality(UpTo(p, n)) = k
<1> DEFINE A == After(p)
           Early(n) == UpTo(p, n)
<1>1. A \subseteq 1 .. Len(p.migrations) /\ Len(p.migrations) \in Nat
    BY DEF IsPlan, After, InPhase
<1>2. IsFiniteSet(1 .. Len(p.migrations))
    BY <1>1, FS_Interval
<1>3. IsFiniteSet(A) /\ size \in Nat /\ (A = {} <=> size = 0)
    BY <1>1, <1>2, FS_Subset, FS_CardinalityType, FS_EmptySet
<1>4. \A n \in A : Early(n) = {i \in A : i <= n}
    BY DEF UpTo
<1>5. A \subseteq Int
    BY <1>1
<1> HIDE DEF A, Early
<1>6. \A n \in A : /\ Early(n) \subseteq A /\ n \in Early(n)
                   /\ IsFiniteSet(Early(n)) /\ Cardinality(Early(n)) \in Nat
                   /\ Cardinality(Early(n)) <= Cardinality(A)
    <2> SUFFICES ASSUME NEW n \in A
                 PROVE  /\ Early(n) \subseteq A /\ n \in Early(n)
                        /\ IsFiniteSet(Early(n)) /\ Cardinality(Early(n)) \in Nat
                        /\ Cardinality(Early(n)) <= Cardinality(A)
        OBVIOUS
    <2>1. Early(n) \subseteq A /\ n \in Early(n)
        BY <1>4, <1>5
    <2>. QED BY <2>1, <1>3, FS_Subset, FS_CardinalityType
<1>7. size = Cardinality(A)
    BY DEF A
<1>8. \A n \in A : Cardinality(Early(n)) \in 1 .. size
    <2> SUFFICES ASSUME NEW n \in A PROVE Cardinality(Early(n)) # 0
        BY <1>3, <1>6, <1>7
    <2>1. Early(n) # {} /\ IsFiniteSet(Early(n))
        BY <1>6
    <2>. QED BY <2>1, FS_EmptySet
<1>9. ASSUME NEW m \in A, NEW n \in A, Cardinality(Early(m)) = Cardinality(Early(n)) PROVE m = n
    <2>1. ASSUME NEW x \in A, NEW y \in A, x < y, Cardinality(Early(x)) = Cardinality(Early(y))
          PROVE  FALSE
        <3>1. Early(x) \in SUBSET Early(y) /\ y \notin Early(x) /\ y \in Early(y)
            <4>1. x \in Int /\ y \in Int /\ ~(y <= x) /\ y <= y
                BY <1>5, <2>1
            <4>2. ASSUME NEW i \in Early(x) PROVE i \in Early(y)
                <5>1. i \in A /\ i <= x /\ i \in Int
                    BY <1>4, <1>5
                <5>2. i <= y
                    BY <4>1, <5>1, <2>1
                <5>. QED BY <5>1, <5>2, <1>4
            <4>. QED BY <4>1, <4>2, <1>4
        <3>2. Early(x) = Early(y)
            BY <3>1, <2>1, <1>6, FS_Subset
        <3>. QED BY <3>1, <3>2
    <2>2. m \in Int /\ n \in Int
        BY <1>5
    <2>. QED BY <2>1, <2>2, <1>9
<1>10. ASSUME NEW k \in 1 .. size PROVE \E n \in A : Cardinality(Early(n)) = k
    <2> DEFINE F == [n \in A |-> Cardinality(Early(n))]
    <2>1. F \in Injection(A, 1 .. size)
        BY <1>8, <1>9, Fun_IsInj
    <2>2. IsFiniteSet(1 .. size) /\ Cardinality(1 .. size) = size
        BY <1>3, FS_Interval
    <2> HIDE DEF F
    <2>3. F \in Surjection(A, 1 .. size)
        BY <2>1, <2>2, <1>7, FS_Injection
    <2>4. PICK n \in A : F[n] = k
        BY <2>3 DEF Surjection
    <2>. QED BY <2>4 DEF F
<1>. QED BY <1>3, <1>8, <1>9, <1>10 DEF A, Early

\* The nodes are numbered from 0 on, the lattice row by row before the chain.
LEMMA NodeNumbers ==
    ASSUME NEW p, IsPlan(p)
    PROVE  LET size == Cardinality(Positions(p))
           IN  /\ size \in Nat
               /\ \A pos \in Positions(p) : NodeId(p, pos) \in 0 .. size - 1
               /\ \A m, n \in Positions(p) : NodeId(p, m) = NodeId(p, n) => m = n
               /\ \A x \in 0 .. size - 1 : \E pos \in Positions(p) : NodeId(p, pos) = x
               /\ NodeId(p, StartPosition(p)) = 0
               /\ NodeId(p, TargetPosition(p)) = size - 1
<1> DEFINE n == Len(p.workloads)
           combos == Cardinality([1 .. n -> Steps])
           vectors == NumDuringVectors(p)
           chain == Cardinality(After(p))
           lattice == LatticeSize(p)
           all == lattice + chain
           Id(pos) == NodeId(p, pos)
           Step(pos) == ComboIndex(pos.steps)
           Bits(pos) == DuringVector(p, pos.during)
<1>1. n \in Nat /\ Workloads(p) = 1 .. n
    BY DEF IsPlan, Workloads
<1>2. lattice = combos * vectors
    BY <1>1 DEF LatticeSize
<1>3. \A pos : /\ pos.after = {} => Id(pos) = Step(pos) * vectors + Bits(pos)
               /\ pos.after # {} => Id(pos) = lattice + Cardinality(pos.after) - 1
    BY DEF NodeId
<1> HIDE DEF n, combos, vectors, chain, lattice, Id
<1>4. /\ combos \in Nat \ {0}
      /\ \A a \in [1 .. n -> Steps] : ComboIndex(a) \in 0 .. combos - 1
      /\ \A a, b \in [1 .. n -> Steps] : ComboIndex(a) = ComboIndex(b) => a = b
      /\ \A x \in 0 .. combos - 1 : \E a \in [1 .. n -> Steps] : ComboIndex(a) = x
      /\ ComboIndex([w \in 1 .. n |-> 0]) = 0
      /\ ComboIndex([w \in 1 .. n |-> LastStep]) = combos - 1
    BY <1>1, ComboNumbers DEF combos
<1>5. /\ vectors \in Nat \ {0}
      /\ \A d \in SUBSET During(p) : DuringVector(p, d) \in 0 .. vectors - 1
      /\ \A d, e \in SUBSET During(p) : DuringVector(p, d) = DuringVector(p, e) => d = e
      /\ \A x \in 0 .. vectors - 1 : \E d \in SUBSET During(p) : DuringVector(p, d) = x
      /\ DuringVector(p, {}) = 0
      /\ DuringVector(p, During(p)) = vectors - 1
    BY VectorNumbers DEF vectors
<1>6. /\ chain \in Nat /\ (After(p) = {} <=> chain = 0)
      /\ \A m \in After(p) : Cardinality(UpTo(p, m)) \in 1 .. chain
      /\ \A l, m \in After(p) : Cardinality(UpTo(p, l)) = Cardinality(UpTo(p, m)) => l = m
      /\ \A k \in 1 .. chain : \E m \in After(p) : Cardinality(UpTo(p, m)) = k
    BY ChainNumbers DEF chain
<1>7. lattice \in Nat \ {0} /\ all \in Nat \ {0} /\ lattice <= all
    <2>1. 0 \in 0 .. combos - 1 /\ 0 \in 0 .. vectors - 1
        BY <1>4, <1>5
    <2>2. combos * vectors \in Nat \ {0}
        BY <2>1, <1>4, <1>5, RowMajor
    <2>. QED BY <2>2, <1>2, <1>6
<1>8. ASSUME NEW pos \in Positions(p), pos.after = {}
      PROVE  /\ pos = Position(pos.steps, pos.during, {})
             /\ pos.steps \in [1 .. n -> Steps] /\ pos.during \in SUBSET During(p)
             /\ Step(pos) \in 0 .. combos - 1 /\ Bits(pos) \in 0 .. vectors - 1
             /\ Id(pos) = Step(pos) * vectors + Bits(pos)
             /\ Id(pos) \in 0 .. lattice - 1
    <2>1. /\ pos = Position(pos.steps, pos.during, {})
          /\ pos.steps \in [1 .. n -> Steps] /\ pos.during \in SUBSET During(p)
        BY <1>1, <1>8, OffChain
    <2>2. Step(pos) \in 0 .. combos - 1 /\ Bits(pos) \in 0 .. vectors - 1
        BY <2>1, <1>4, <1>5
    <2>3. Id(pos) = Step(pos) * vectors + Bits(pos)
        BY <1>3, <1>8
    <2> HIDE DEF Step, Bits
    <2>4. Step(pos) * vectors + Bits(pos) \in 0 .. combos * vectors - 1
        BY <2>2, <1>4, <1>5, RowMajor
    <2>5. Id(pos) \in 0 .. lattice - 1
        BY <2>3, <2>4, <1>2
    <2>. QED BY <2>1, <2>2, <2>3, <2>5
<1>9. ASSUME NEW pos \in Positions(p), pos.after # {}
      PROVE  \E m \in After(p) :
                /\ pos = Position([w \in Workloads(p) |-> LastStep], During(p), UpTo(p, m))
                /\ Id(pos) = lattice + Cardinality(UpTo(p, m)) - 1
                /\ Id(pos) \in lattice .. all - 1
    <2>1. PICK m \in After(p) :
            /\ pos = Position([w \in Workloads(p) |-> LastStep], During(p), UpTo(p, m))
            /\ pos.after = UpTo(p, m)
        BY <1>9, OnChain
    <2>2. Id(pos) = lattice + Cardinality(UpTo(p, m)) - 1
        BY <2>1, <1>3, <1>9
    <2>3. Cardinality(UpTo(p, m)) \in 1 .. chain
        BY <1>6
    <2>4. Id(pos) \in lattice .. all - 1
        BY <2>2, <2>3, <1>6, <1>7
    <2>. QED BY <2>1, <2>2, <2>4
<1>10. \A pos \in Positions(p) : Id(pos) \in 0 .. all - 1
    <2> SUFFICES ASSUME NEW pos \in Positions(p) PROVE Id(pos) \in 0 .. all - 1
        OBVIOUS
    <2>1. Id(pos) \in 0 .. lattice - 1 \/ Id(pos) \in lattice .. all - 1
        BY <1>8, <1>9
    <2> HIDE DEF all
    <2>. QED BY <2>1, <1>7
<1>11. ASSUME NEW k \in Positions(p), NEW m \in Positions(p), Id(k) = Id(m) PROVE k = m
    <2>1. CASE k.after = {} /\ m.after = {}
        <3>1. Step(k) * vectors + Bits(k) = Step(m) * vectors + Bits(m)
            BY <1>8, <1>11, <2>1
        <3>2. /\ Step(k) \in 0 .. combos - 1 /\ Bits(k) \in 0 .. vectors - 1
              /\ Step(m) \in 0 .. combos - 1 /\ Bits(m) \in 0 .. vectors - 1
            BY <1>8, <2>1
        <3>3. Step(k) = Step(m) /\ Bits(k) = Bits(m)
            <4> DEFINE a == Step(k)
                       b == Bits(k)
                       c == Step(m)
                       e == Bits(m)
            <4>1. combos \in Nat \ {0} /\ vectors \in Nat \ {0}
                BY <1>4, <1>5
            <4>2. /\ a \in 0 .. combos - 1 /\ b \in 0 .. vectors - 1
                  /\ c \in 0 .. combos - 1 /\ e \in 0 .. vectors - 1
                BY <3>2
            <4>3. a * vectors + b = c * vectors + e
                BY <3>1
            <4> HIDE DEF a, b, c, e
            <4>4. a = c /\ b = e
                BY <4>1, <4>2, <4>3, RowMajor
            <4>. QED BY <4>4 DEF a, b, c, e
        <3>4. /\ k.steps \in [1 .. n -> Steps] /\ k.during \in SUBSET During(p)
              /\ m.steps \in [1 .. n -> Steps] /\ m.during \in SUBSET During(p)
            BY <1>8, <2>1
        <3>5. ComboIndex(k.steps) = ComboIndex(m.steps)
            BY <3>3
        <3>6. DuringVector(p, k.during) = DuringVector(p, m.during)
            BY <3>3
        <3>7. k.steps = m.steps
            BY <3>4, <3>5, <1>4, Zenon
        <3>8. k.during = m.during
            <4>1. \A d, e \in SUBSET During(p) :
                     DuringVector(p, d) = DuringVector(p, e) => d = e
                BY <1>5
            <4>. QED BY <3>4, <3>6, <4>1
        <3>9. /\ k = Position(k.steps, k.during, {})
              /\ m = Position(m.steps, m.during, {})
            BY <1>8, <2>1
        <3>. QED BY <3>7, <3>8, <3>9, Zenon
    <2>2. CASE k.after # {} /\ m.after # {}
        <3>1. PICK i \in After(p) :
                /\ k = Position([w \in Workloads(p) |-> LastStep], During(p), UpTo(p, i))
                /\ Id(k) = lattice + Cardinality(UpTo(p, i)) - 1
            BY <1>9, <2>2
        <3>2. PICK j \in After(p) :
                /\ m = Position([w \in Workloads(p) |-> LastStep], During(p), UpTo(p, j))
                /\ Id(m) = lattice + Cardinality(UpTo(p, j)) - 1
            BY <1>9, <2>2
        <3>3. Cardinality(UpTo(p, i)) \in Nat /\ Cardinality(UpTo(p, j)) \in Nat
            BY <1>6
        <3>4. Cardinality(UpTo(p, i)) = Cardinality(UpTo(p, j))
            BY <3>1, <3>2, <3>3, <1>7, <1>11
        <3>5. i = j
            BY <3>4, <1>6
        <3>. QED BY <3>1, <3>2, <3>5
    <2>3. CASE k.after = {} /\ m.after # {}
        <3>1. Id(k) \in 0 .. lattice - 1 /\ Id(m) \in lattice .. all - 1
            BY <1>8, <1>9, <2>3
        <3> HIDE DEF all
        <3>. QED BY <3>1, <1>7, <1>11
    <2>4. CASE k.after # {} /\ m.after = {}
        <3>1. Id(m) \in 0 .. lattice - 1 /\ Id(k) \in lattice .. all - 1
            BY <1>8, <1>9, <2>4
        <3> HIDE DEF all
        <3>. QED BY <3>1, <1>7, <1>11
    <2>. QED BY <2>1, <2>2, <2>3, <2>4
<1>12. ASSUME NEW x \in 0 .. all - 1 PROVE \E pos \in Positions(p) : Id(pos) = x
    <2>1. CASE x < lattice
        <3>1. x \in 0 .. combos * vectors - 1
            BY <2>1, <1>2, <1>7
        <3>2. PICK c \in 0 .. combos - 1, v \in 0 .. vectors - 1 : x = c * vectors + v
            <4>1. combos \in Nat \ {0} /\ vectors \in Nat \ {0}
                BY <1>4, <1>5
            <4>. QED BY <3>1, <4>1, EveryRow
        <3>3. PICK a \in [1 .. n -> Steps] : ComboIndex(a) = c
            BY <1>4
        <3>4. PICK d \in SUBSET During(p) : DuringVector(p, d) = v
            BY <1>5
        <3> DEFINE pos == Position(a, d, {})
        <3>5. pos \in Positions(p)
            BY <1>1, <3>3, <3>4 DEF Positions
        <3>6. pos.after = {} /\ pos.steps = a /\ pos.during = d
            BY DEF Position
        <3>7. Id(pos) = x
            <4> HIDE DEF pos
            <4>. QED BY <3>2, <3>3, <3>4, <3>6, <1>3
        <3>. QED BY <3>5, <3>7
    <2>2. CASE lattice <= x
        <3>1. x - lattice + 1 \in 1 .. chain
            BY <2>2, <1>6, <1>7
        <3>2. PICK m \in After(p) : Cardinality(UpTo(p, m)) = x - lattice + 1
            BY <3>1, <1>6
        <3> DEFINE pos == [RolloutComplete(p) EXCEPT !.after = UpTo(p, m)]
        <3>3. pos \in Positions(p)
            BY DEF Positions, Chain
        <3>4. pos.after = UpTo(p, m)
            BY DEF RolloutComplete, Position
        <3>5. m \in UpTo(p, m)
            BY PhaseFacts DEF UpTo
        <3>6. Id(pos) = x
            <4> HIDE DEF pos
            <4>1. Id(pos) = lattice + (x - lattice + 1) - 1
                BY <3>2, <3>4, <3>5, <1>3
            <4>. QED BY <4>1, <1>7
        <3>. QED BY <3>3, <3>6
    <2>3. x \in Int /\ lattice \in Int
        BY <1>7
    <2>. QED BY <2>1, <2>2, <2>3
<1>13. Cardinality(Positions(p)) = all
    <2> DEFINE F == [pos \in Positions(p) |-> Id(pos)]
    <2> HIDE DEF all
    <2>1. F \in Bijection(Positions(p), 0 .. all - 1)
        BY <1>10, <1>11, <1>12, Fun_IsBij
    <2>. QED BY <2>1, <1>7, BijectionCounts
<1>14. Id(StartPosition(p)) = 0
    <2> DEFINE s == StartPosition(p)
    <2>1. s.after = {} /\ s.steps = [w \in 1 .. n |-> 0] /\ s.during = {}
        BY <1>1 DEF StartPosition, Position
    <2> HIDE DEF s
    <2>2. Step(s) = 0 /\ Bits(s) = 0
        BY <2>1, <1>4, <1>5
    <2>3. Id(s) = Step(s) * vectors + Bits(s)
        BY <2>1, <1>3
    <2> HIDE DEF Step, Bits
    <2>. QED BY <2>2, <2>3, <1>5 DEF s
<1>15. Id(TargetPosition(p)) = all - 1
    <2> DEFINE t == TargetPosition(p)
    <2>1. /\ t.steps = [w \in 1 .. n |-> LastStep]
          /\ t.during = During(p) /\ t.after = After(p)
        BY <1>1 DEF TargetPosition, RolloutComplete, Position
    <2> HIDE DEF t
    <2>2. CASE After(p) = {}
        <3>1. Id(t) = (combos - 1) * vectors + (vectors - 1)
            <4>1. t.steps = [w \in 1 .. n |-> LastStep] /\ t.during = During(p) /\ t.after = {}
                BY <2>1, <2>2
            <4>2. Step(t) = combos - 1
                BY <4>1, <1>4
            <4>3. Bits(t) = vectors - 1
                BY <4>1, <1>5
            <4>4. Id(t) = Step(t) * vectors + Bits(t)
                BY <4>1, <1>3
            <4> HIDE DEF Step, Bits
            <4>. QED BY <4>2, <4>3, <4>4
        <3>2. 0 \in 0 .. combos - 1 /\ 0 \in 0 .. vectors - 1
            BY <1>4, <1>5
        <3>3. (combos - 1) * vectors + (vectors - 1) = combos * vectors - 1
            BY <3>2, <1>4, <1>5, RowMajor
        <3>4. chain = 0
            BY <2>2, <1>6
        <3>. QED BY <3>1, <3>3, <3>4, <1>2, <1>7 DEF t
    <2>3. CASE After(p) # {}
        <3>1. Id(t) = lattice + Cardinality(t.after) - 1
            BY <2>1, <2>3, <1>3
        <3>2. Cardinality(t.after) = chain
            BY <2>1 DEF chain
        <3>. QED BY <3>1, <3>2, <1>6, <1>7 DEF t
    <2>. QED BY <2>2, <2>3
<1> HIDE DEF all
<1>. QED BY <1>7, <1>10, <1>11, <1>12, <1>13, <1>14, <1>15 DEF Id

\* An event leads to a node with a higher number.
LEMMA EventsNumberUp ==
    ASSUME NEW p, IsPlan(p), NEW pos \in Positions(p)
    PROVE  /\ \A w \in Workloads(p) : pos.steps[w] < LastStep =>
                 NodeId(p, pos)
                   < NodeId(p, Position([pos.steps EXCEPT ![w] = @ + 1], pos.during, {}))
           /\ \A i \in During(p) \ pos.during :
                 NodeId(p, pos) < NodeId(p, Position(pos.steps, pos.during \cup {i}, {}))
           /\ \A i \in After(p) \ pos.after :
                 /\ pos \in Chain(p) \cup {RolloutComplete(p)}
                 /\ UpTo(p, i) \ {i} \subseteq pos.after
                 => NodeId(p, pos) < NodeId(p, Position(pos.steps, pos.during, pos.after \cup {i}))
<1> DEFINE n == Len(p.workloads)
           combos == Cardinality([1 .. n -> Steps])
           vectors == NumDuringVectors(p)
           lattice == LatticeSize(p)
<1>1. n \in Nat /\ Workloads(p) = 1 .. n
    BY DEF IsPlan, Workloads
<1>2. lattice = combos * vectors
    BY <1>1 DEF LatticeSize
<1>3. \A s, d : NodeId(p, Position(s, d, {})) = ComboIndex(s) * vectors + DuringVector(p, d)
    BY DEF NodeId, Position
<1>4. \A s, d, a : a # {} => NodeId(p, Position(s, d, a)) = lattice + Cardinality(a) - 1
    BY DEF NodeId, Position
<1> HIDE DEF n, combos, vectors, lattice
<1>5. /\ combos \in Nat \ {0}
      /\ \A a \in [1 .. n -> Steps] : ComboIndex(a) \in 0 .. combos - 1
      /\ \A a \in [1 .. n -> Steps], w \in 1 .. n : a[w] < LastStep =>
            ComboIndex(a) < ComboIndex([a EXCEPT ![w] = @ + 1])
    <2>1. n \in Nat /\ combos = Cardinality([1 .. n -> Steps])
        BY <1>1 DEF combos
    <2>2. combos \in Nat \ {0}
        BY <2>1, ComboNumbers
    <2>3. \A a \in [1 .. n -> Steps] : ComboIndex(a) \in 0 .. combos - 1
        <3> DEFINE InRange(size) == \A a \in [1 .. n -> Steps] : ComboIndex(a) \in 0 .. size - 1
        <3>1. \A size : size = Cardinality([1 .. n -> Steps]) => InRange(size)
            BY <2>1, ComboNumbers
        <3> HIDE DEF InRange
        <3>2. InRange(combos)
            BY <2>1, <3>1
        <3>. QED BY <3>2 DEF InRange
    <2>4. \A a \in [1 .. n -> Steps], w \in 1 .. n : a[w] < LastStep =>
             ComboIndex(a) < ComboIndex([a EXCEPT ![w] = @ + 1])
        BY <2>1, ComboNumbers, Zenon
    <2>. QED BY <2>2, <2>3, <2>4
<1>6. /\ vectors \in Nat \ {0}
      /\ \A d \in SUBSET During(p) : DuringVector(p, d) \in 0 .. vectors - 1
      /\ \A d \in SUBSET During(p) : \A i \in During(p) \ d :
            DuringVector(p, d) < DuringVector(p, d \cup {i})
    BY VectorNumbers DEF vectors
<1>7. ASSUME NEW w \in Workloads(p), pos.steps[w] < LastStep
      PROVE  NodeId(p, pos)
               < NodeId(p, Position([pos.steps EXCEPT ![w] = @ + 1], pos.during, {}))
    <2> DEFINE next == [pos.steps EXCEPT ![w] = @ + 1]
               c == ComboIndex(pos.steps)
               e == ComboIndex(next)
               v == DuringVector(p, pos.during)
    <2>1. pos.after = {}
        BY <1>7, AdvancePosition
    <2>2. /\ pos = Position(pos.steps, pos.during, {})
          /\ pos.steps \in [1 .. n -> Steps] /\ pos.during \in SUBSET During(p)
        BY <1>1, <2>1, OffChain
    <2>3. next \in [1 .. n -> Steps]
        BY <1>1, <1>7, <2>2 DEF Steps, LastStep
    <2>4. c \in 0 .. combos - 1 /\ e \in 0 .. combos - 1 /\ v \in 0 .. vectors - 1 /\ c < e
        BY <1>1, <1>5, <1>6, <1>7, <2>2, <2>3
    <2>5. NodeId(p, pos) = c * vectors + v
        BY <2>2, <1>3
    <2>6. NodeId(p, Position(next, pos.during, {})) = e * vectors + v
        BY <1>3
    <2> HIDE DEF c, e, v, next
    <2>7. c * vectors + v < e * vectors + v
        BY <2>4, <1>5, <1>6, RowMajor
    <2>8. NodeId(p, pos) < NodeId(p, Position(next, pos.during, {}))
        BY <2>5, <2>6, <2>7
    <2>. QED BY <2>8 DEF next
<1>8. ASSUME NEW i \in During(p) \ pos.during
      PROVE  NodeId(p, pos) < NodeId(p, Position(pos.steps, pos.during \cup {i}, {}))
    <2> DEFINE next == pos.during \cup {i}
               c == ComboIndex(pos.steps)
               v == DuringVector(p, pos.during)
               u == DuringVector(p, next)
    <2>1. pos.after = {}
        BY DuringPosition
    <2>2. /\ pos = Position(pos.steps, pos.during, {})
          /\ pos.steps \in [1 .. n -> Steps] /\ pos.during \in SUBSET During(p)
        BY <1>1, <2>1, OffChain
    <2>3. next \in SUBSET During(p)
        BY <2>2
    <2>4. c \in 0 .. combos - 1 /\ v \in 0 .. vectors - 1 /\ u \in 0 .. vectors - 1 /\ v < u
        BY <1>5, <1>6, <2>2, <2>3
    <2>5. NodeId(p, pos) = c * vectors + v
        BY <2>2, <1>3
    <2>6. NodeId(p, Position(pos.steps, next, {})) = c * vectors + u
        BY <1>3
    <2> HIDE DEF c, v, u, next
    <2>7. c * vectors + v < c * vectors + u
        BY <2>4, <1>5, <1>6, RowMajor
    <2>8. NodeId(p, pos) < NodeId(p, Position(pos.steps, next, {}))
        BY <2>5, <2>6, <2>7
    <2>. QED BY <2>8 DEF next
<1>9. ASSUME NEW i \in After(p) \ pos.after, pos \in Chain(p) \cup {RolloutComplete(p)},
             UpTo(p, i) \ {i} \subseteq pos.after
      PROVE  NodeId(p, pos) < NodeId(p, Position(pos.steps, pos.during, pos.after \cup {i}))
    <2> DEFINE next == pos.after \cup {i}
    <2>1. /\ IsFiniteSet(pos.after) /\ Cardinality(pos.after) \in Nat
          /\ Cardinality(next) = Cardinality(pos.after) + 1 /\ next # {}
        <3>1. After(p) \subseteq 1 .. Len(p.migrations) /\ Len(p.migrations) \in Nat
            BY DEF IsPlan, After, InPhase
        <3>2. IsFiniteSet(1 .. Len(p.migrations))
            BY <3>1, FS_Interval
        <3>3. IsFiniteSet(pos.after)
            BY <3>1, <3>2, PositionFacts, FS_Subset
        <3>. QED BY <3>3, FS_AddElement, FS_CardinalityType
    <2>2. NodeId(p, Position(pos.steps, pos.during, next)) = lattice + Cardinality(next) - 1
        BY <2>1, <1>4
    <2>3. lattice \in Nat /\ \A c \in 0 .. combos - 1, v \in 0 .. vectors - 1 :
                               c * vectors + v \in 0 .. lattice - 1
        BY <1>2, <1>5, <1>6, RowMajor
    <2>4. CASE pos.after = {}
        <3>1. /\ pos = Position(pos.steps, pos.during, {})
              /\ pos.steps \in [1 .. n -> Steps] /\ pos.during \in SUBSET During(p)
            BY <1>1, <2>4, OffChain
        <3>2. NodeId(p, pos) = ComboIndex(pos.steps) * vectors + DuringVector(p, pos.during)
            BY <3>1, <1>3
        <3>3. NodeId(p, pos) \in 0 .. lattice - 1
            BY <3>1, <3>2, <2>3, <1>5, <1>6
        <3>4. Cardinality(next) = 1
            BY <2>1, <2>4, FS_EmptySet
        <3>. QED BY <3>3, <3>4, <2>2, <2>3
    <2>5. CASE pos.after # {}
        <3>1. NodeId(p, pos) = lattice + Cardinality(pos.after) - 1
            <4>1. pos = Position(pos.steps, pos.during, pos.after)
                BY <1>9 DEF Chain, RolloutComplete, Position
            <4>. QED BY <4>1, <2>5, <1>4
        <3>. QED BY <3>1, <2>1, <2>2, <2>3
    <2>. QED BY <2>4, <2>5
<1>. QED BY <1>7, <1>8, <1>9

-----------------------------------------------------------------------------
(* One operation.                                                          *)

\* Two schemas tell the same of a column.
SameAt(a, b, ref) ==
    /\ ref \in DOMAIN a <=> ref \in DOMAIN b
    /\ ref \in DOMAIN a => a[ref] = b[ref]


\* The operations that can be applied are of the kinds Apply knows.
LEMMA ApplicableKinds ==
    ASSUME NEW schema, NEW op, Applicable(schema, op)
    PROVE  op.kind \in OpKinds \ {"Unclassified"}
BY DEF Applicable, OpKinds, ColumnOpKinds

\* An operation leaves the columns it does not name alone.
LEMMA ApplyElsewhere ==
    ASSUME NEW schema, NEW op, op.kind \in OpKinds \ {"Unclassified"},
           NEW ref, ref \notin Names(op)
    PROVE  SameAt(Apply(schema, op), schema, ref)
BY DEF Apply, With, Without, SameAt, Names, OpKinds, ColumnOpKinds

\* What an operation does to the columns it names depends on those only.
LEMMA ApplyThere ==
    ASSUME NEW a, NEW b, NEW op, Applicable(a, op),
           op.kind \in OpKinds \ {"Unclassified"},
           \A ref \in Names(op) : SameAt(a, b, ref)
    PROVE  \A ref \in Names(op) : SameAt(Apply(a, op), Apply(b, op), ref)
BY DEF Apply, With, Without, SameAt, Names, OpKinds, ColumnOpKinds, Applicable, HasColumn

\* So does whether it can be applied.
LEMMA ApplicableThere ==
    ASSUME NEW a, NEW b, NEW op, \A ref \in Names(op) : SameAt(a, b, ref)
    PROVE  Applicable(a, op) <=> Applicable(b, op)
<1>1. TargetColumn(op) \in Names(op)
    BY DEF Names
<1>2. op.kind = "RenameColumn" => RenamedColumn(op) \in Names(op)
    BY DEF Names
<1>. QED BY <1>1, <1>2 DEF SameAt, Applicable, HasColumn

\* An operation leaves a map of columns.
LEMMA ApplyMap ==
    ASSUME NEW schema, NEW op, op.kind \in OpKinds \ {"Unclassified"}
    PROVE  IsMap(Apply(schema, op))
BY DEF Apply, With, Without, OpKinds, ColumnOpKinds, IsMap

\* Two states that tell the same of the columns an operation names go on to
\* do so, and the same operation joins their trails.
Alike(a, b, refs) ==
    /\ a.indeterminate = b.indeterminate
    /\ \A ref \in refs : SameAt(a.schema, b.schema, ref)

\* An operation does the same to two states alike in the columns it names.
LEMMA CommitOpAlike ==
    ASSUME NEW a, NEW b, NEW mig, NEW op, NEW refs, Names(op) \subseteq refs, Alike(a, b, refs)
    PROVE  /\ Alike(CommitOp(a, mig, op), CommitOp(b, mig, op), refs)
           /\ PriorType(a, op) = PriorType(b, op)
<1>1. TargetColumn(op) \in refs
    BY DEF Names
<1>2. PriorType(a, op) = PriorType(b, op)
    BY <1>1 DEF PriorType, Alike, SameAt, HasColumn
<1>3. Applicable(a.schema, op) <=> Applicable(b.schema, op)
    BY ApplicableThere DEF Alike
<1> DEFINE applies == ~a.indeterminate /\ Applicable(a.schema, op)
           a2 == CommitOp(a, mig, op)
           b2 == CommitOp(b, mig, op)
<1>4. applies <=> ~b.indeterminate /\ Applicable(b.schema, op)
    BY <1>3 DEF Alike
<1>5. /\ a2.indeterminate = ~applies
      /\ b2.indeterminate = ~applies
      /\ a2.schema = IF applies THEN Apply(a.schema, op) ELSE a.schema
      /\ b2.schema = IF applies THEN Apply(b.schema, op) ELSE b.schema
    BY <1>4 DEF CommitOp, SchemaState
<1> HIDE DEF a2, b2, applies
<1>6. ASSUME NEW ref \in refs PROVE SameAt(a2.schema, b2.schema, ref)
    <2>1. CASE ~applies
        BY <2>1, <1>5 DEF Alike
    <2>2. CASE applies
        <3>1. op.kind \in OpKinds \ {"Unclassified"} /\ Applicable(a.schema, op)
            BY <2>2, ApplicableKinds DEF applies
        <3>2. CASE ref \in Names(op)
            BY <3>1, <3>2, <2>2, <1>5, ApplyThere DEF Alike
        <3>3. CASE ref \notin Names(op)
            <4>1. SameAt(Apply(a.schema, op), a.schema, ref)
                BY <3>1, <3>3, ApplyElsewhere
            <4>2. SameAt(Apply(b.schema, op), b.schema, ref)
                BY <3>1, <3>3, ApplyElsewhere
            <4>3. SameAt(a.schema, b.schema, ref)
                BY DEF Alike
            <4>. QED BY <4>1, <4>2, <4>3, <2>2, <1>5 DEF SameAt
        <3>. QED BY <3>2, <3>3
    <2>. QED BY <2>1, <2>2
<1>. QED BY <1>2, <1>5, <1>6 DEF Alike, a2, b2

\* One operation: the columns it does not name stay as they are, it joins the
\* trail, and a state that is unknown stays unknown.
LEMMA CommitOpKeeps ==
    ASSUME NEW st, NEW mig, NEW op, IsList(st.committed)
    PROVE  LET st2 == CommitOp(st, mig, op)
           IN  /\ st2 = SchemaState(st2.schema, st2.committed, st2.indeterminate)
               /\ IsList(st2.committed)
               /\ ToSet(st2.committed) = ToSet(st.committed)
                    \cup {[migration |-> mig, op |-> op, priorType |-> PriorType(st, op)]}
               /\ st2.indeterminate \in BOOLEAN
               /\ st.indeterminate => st2.indeterminate
               /\ IsMap(st.schema) => IsMap(st2.schema)
               /\ \A ref : ref \notin Names(op) => SameAt(st2.schema, st.schema, ref)
<1> DEFINE cop == [migration |-> mig, op |-> op, priorType |-> PriorType(st, op)]
           applies == ~st.indeterminate /\ Applicable(st.schema, op)
           st2 == CommitOp(st, mig, op)
<1>1. /\ st2 = SchemaState(IF applies THEN Apply(st.schema, op) ELSE st.schema,
                          Append(st.committed, cop), ~applies)
      /\ st2.committed = Append(st.committed, cop)
      /\ st2.indeterminate = ~applies
      /\ st2.schema = IF applies THEN Apply(st.schema, op) ELSE st.schema
    BY DEF CommitOp, SchemaState
<1> HIDE DEF st2, cop
<1>2. IsList(st2.committed) /\ ToSet(st2.committed) = ToSet(st.committed) \cup {cop}
    <2>1. st2.committed = Append(st.committed, cop)
        BY <1>1
    <2>. QED BY <2>1, ListFacts
<1>3. applies => op.kind \in OpKinds \ {"Unclassified"}
    BY ApplicableKinds
<1>4. IsMap(st.schema) => IsMap(st2.schema)
    BY <1>1, <1>3, ApplyMap
<1>5. ASSUME NEW ref, ref \notin Names(op) PROVE SameAt(st2.schema, st.schema, ref)
    <2>1. SameAt(st.schema, st.schema, ref)
        BY DEF SameAt
    <2>. QED BY <2>1, <1>1, <1>3, <1>5, ApplyElsewhere
<1>6. /\ st2 = SchemaState(st2.schema, st2.committed, st2.indeterminate)
      /\ st2.indeterminate \in BOOLEAN
      /\ st.indeterminate => st2.indeterminate
    BY <1>1 DEF SchemaState
<1>. QED BY <1>2, <1>4, <1>5, <1>6 DEF st2, cop

-----------------------------------------------------------------------------
(* One migration.                                                          *)

\* The states a migration goes through, and the operations it adds to the trail.
Stage(st, mig) == Commit!Stages(mig.id, 0, st, mig.operations, Len(mig.operations))
Adds(st, mig, j) ==
    [migration |-> mig.id, op |-> mig.operations[j],
     priorType |-> PriorType(Stage(st, mig)[j - 1], mig.operations[j])]
Added(st, mig) == {Adds(st, mig, j) : j \in DOMAIN mig.operations}
AddedUpTo(st, mig, k) == {Adds(st, mig, j) : j \in 1 .. k}

\* A migration is its operations, one after the other.
LEMMA ApplySteps ==
    ASSUME NEW st, NEW mig, IsList(mig.operations)
    PROVE  /\ Stage(st, mig)[0] = st
           /\ Stage(st, mig)[Len(mig.operations)] = ApplyOne(st, mig)
           /\ \A k \in 1 .. Len(mig.operations) :
                 Stage(st, mig)[k] =
                    CommitOp(Stage(st, mig)[k - 1], mig.id, mig.operations[k])
<1> DEFINE n == Len(mig.operations)
           f == Commit!Stages(mig.id, 0, st, mig.operations, n)
<1>1. n \in Nat /\ DOMAIN mig.operations = 1 .. n
    BY ListFacts
<1>2. Commit!Passes(f, mig.id, 0, st, mig.operations, n)
    <2> HIDE DEF n
    <2>. QED BY <1>1, Commit!FoldSteps
<1>3. /\ f[0] = st /\ f[n] = Commit!Fold(mig.id, 0, st, mig.operations)
      /\ \A k \in 1 .. n : f[k] = CommitOp(f[k - 1], mig.id, mig.operations[k])
    <2> HIDE DEF n, f
    <2>. QED BY <1>2 DEF Commit!Passes
<1>4. ApplyOne(st, mig) = Commit!Fold(mig.id, 0, st, mig.operations)
    BY DEF ApplyOne, Commit!Fold, FoldLeft, Commit!FoldLeft, MapThenFoldSet,
           Commit!MapThenFoldSet, Max, Commit!Max
<1>. QED BY <1>3, <1>4 DEF Stage

\* A schema state of the shape the code builds.
IsState(st) ==
    /\ st = SchemaState(st.schema, st.committed, st.indeterminate)
    /\ IsList(st.committed) /\ IsMap(st.schema) /\ st.indeterminate \in BOOLEAN

\* The operations of a trail.
Ops(st) == {cop.op : cop \in ToSet(st.committed)}

\* A migration adds its operations to the trail, leaves the columns it does not
\* name alone, and makes nothing known that was not.
LEMMA ApplyOneKeeps ==
    ASSUME NEW st, NEW mig, IsList(mig.operations), IsState(st)
    PROVE  LET st2 == ApplyOne(st, mig)
           IN  /\ IsState(st2)
               /\ ToSet(st2.committed) = ToSet(st.committed) \cup Added(st, mig)
               /\ st.indeterminate => st2.indeterminate
               /\ \A ref : ref \notin ColumnsOf(mig) => SameAt(st2.schema, st.schema, ref)
<1> DEFINE n == Len(mig.operations)
           f == Stage(st, mig)
           ops == mig.operations
           Fine(k) == /\ IsState(f[k])
                      /\ ToSet(f[k].committed) = ToSet(st.committed) \cup AddedUpTo(st, mig, k)
                      /\ st.indeterminate => f[k].indeterminate
                      /\ \A ref : ref \notin ColumnsOf(mig) => SameAt(f[k].schema, st.schema, ref)
           S == {k \in Nat : k <= n => Fine(k)}
<1>1. n \in Nat /\ DOMAIN ops = 1 .. n
    BY ListFacts
<1>2. /\ f[0] = st /\ f[n] = ApplyOne(st, mig)
      /\ \A k \in 1 .. n : f[k] = CommitOp(f[k - 1], mig.id, ops[k])
    BY ApplySteps
<1>3. 0 \in S
    <2>1. 1 .. 0 = {} /\ AddedUpTo(st, mig, 0) = {}
        BY DEF AddedUpTo
    <2>. QED BY <2>1, <1>2 DEF SameAt
<1>4. ASSUME NEW k \in Nat, k \in S PROVE k + 1 \in S
    <2> SUFFICES ASSUME k + 1 <= n PROVE Fine(k + 1)
        OBVIOUS
    <2>1. Fine(k) /\ k + 1 \in 1 .. n /\ (k + 1) - 1 = k
        BY <1>1, <1>4
    <2> DEFINE op == ops[k + 1]
    <2>2. f[k + 1] = CommitOp(f[k], mig.id, op)
        BY <2>1, <1>2
    <2>3. Names(op) \subseteq ColumnsOf(mig)
        <3>1. op \in ToSet(ops)
            BY <2>1, <1>1 DEF ToSet
        <3>. QED BY <3>1 DEF ColumnsOf
    <2>4. Adds(st, mig, k + 1) = [migration |-> mig.id, op |-> op, priorType |-> PriorType(f[k], op)]
        BY <2>1 DEF Adds
    <2>5. AddedUpTo(st, mig, k + 1) = AddedUpTo(st, mig, k) \cup {Adds(st, mig, k + 1)}
        <3>1. 1 .. k + 1 = (1 .. k) \cup {k + 1}
            OBVIOUS
        <3>. QED BY <3>1 DEF AddedUpTo
    <2> HIDE DEF f, op, n, ops
    <2>6. LET st2 == CommitOp(f[k], mig.id, op)
          IN  /\ st2 = SchemaState(st2.schema, st2.committed, st2.indeterminate)
              /\ IsList(st2.committed)
              /\ ToSet(st2.committed) = ToSet(f[k].committed)
                   \cup {[migration |-> mig.id, op |-> op, priorType |-> PriorType(f[k], op)]}
              /\ st2.indeterminate \in BOOLEAN
              /\ f[k].indeterminate => st2.indeterminate
              /\ IsMap(f[k].schema) => IsMap(st2.schema)
              /\ \A ref : ref \notin Names(op) => SameAt(st2.schema, f[k].schema, ref)
        <3>1. IsList(f[k].committed)
            BY <2>1 DEF IsState
        <3>. QED BY <3>1, CommitOpKeeps
    <2>7. IsState(f[k + 1])
        BY <2>1, <2>2, <2>6 DEF IsState
    <2>8. ToSet(f[k + 1].committed) = ToSet(st.committed) \cup AddedUpTo(st, mig, k + 1)
        BY <2>1, <2>2, <2>4, <2>5, <2>6
    <2>9. ASSUME NEW ref, ref \notin ColumnsOf(mig)
          PROVE  SameAt(f[k + 1].schema, st.schema, ref)
        <3>1. SameAt(f[k + 1].schema, f[k].schema, ref)
            BY <2>2, <2>3, <2>6, <2>9
        <3>2. SameAt(f[k].schema, st.schema, ref)
            BY <2>1, <2>9
        <3>. QED BY <3>1, <3>2 DEF SameAt
    <2>. QED BY <2>1, <2>2, <2>6, <2>7, <2>8, <2>9
<1>5. Fine(n)
    <2> HIDE DEF Fine
    <2>1. n \in S
        <3> HIDE DEF S
        <3>. QED BY <1>1, <1>3, <1>4, Commit!Induction
    <2>. QED BY <2>1
<1>6. AddedUpTo(st, mig, n) = Added(st, mig)
    BY <1>1 DEF AddedUpTo, Added
<1>. QED BY <1>2, <1>5, <1>6

\* What a migration does to the columns it names, whether it can be applied and
\* what joins the trail depend on those columns only.
LEMMA ApplyOneAlike ==
    ASSUME NEW a, NEW b, NEW mig, IsList(mig.operations),
           NEW refs, ColumnsOf(mig) \subseteq refs, Alike(a, b, refs)
    PROVE  /\ Alike(ApplyOne(a, mig), ApplyOne(b, mig), refs)
           /\ Added(a, mig) = Added(b, mig)
<1> DEFINE n == Len(mig.operations)
           f == Stage(a, mig)
           g == Stage(b, mig)
           ops == mig.operations
           S == {k \in Nat : k <= n => Alike(f[k], g[k], refs)}
<1>1. n \in Nat /\ DOMAIN ops = 1 .. n
    BY ListFacts
<1>2. /\ f[0] = a /\ f[n] = ApplyOne(a, mig)
      /\ \A k \in 1 .. n : f[k] = CommitOp(f[k - 1], mig.id, ops[k])
    BY ApplySteps
<1>3. /\ g[0] = b /\ g[n] = ApplyOne(b, mig)
      /\ \A k \in 1 .. n : g[k] = CommitOp(g[k - 1], mig.id, ops[k])
    BY ApplySteps
<1>4. \A k \in 1 .. n : Names(ops[k]) \subseteq refs
    <2> SUFFICES ASSUME NEW k \in 1 .. n PROVE Names(ops[k]) \subseteq refs
        OBVIOUS
    <2>1. ops[k] \in ToSet(ops)
        BY <1>1 DEF ToSet
    <2>. QED BY <2>1 DEF ColumnsOf
<1> HIDE DEF f, g, ops
<1>5. 0 \in S
    BY <1>2, <1>3
<1>6. ASSUME NEW k \in Nat, k \in S PROVE k + 1 \in S
    <2> SUFFICES ASSUME k + 1 <= n PROVE Alike(f[k + 1], g[k + 1], refs)
        OBVIOUS
    <2>1. Alike(f[k], g[k], refs) /\ k + 1 \in 1 .. n /\ (k + 1) - 1 = k
        BY <1>1, <1>6
    <2>2. /\ f[k + 1] = CommitOp(f[k], mig.id, ops[k + 1])
          /\ g[k + 1] = CommitOp(g[k], mig.id, ops[k + 1])
        BY <2>1, <1>2, <1>3
    <2>3. Names(ops[k + 1]) \subseteq refs
        BY <2>1, <1>4
    <2>. QED BY <2>1, <2>2, <2>3, CommitOpAlike
<1>7. \A k \in Nat : k <= n => Alike(f[k], g[k], refs)
    <2>1. Nat \subseteq S
        <3> HIDE DEF S
        <3>. QED BY <1>5, <1>6, Commit!Induction
    <2>. QED BY <2>1
<1>8. ASSUME NEW k \in 1 .. n PROVE Adds(a, mig, k) = Adds(b, mig, k)
    <2>1. k - 1 \in Nat /\ k - 1 <= n
        BY <1>1
    <2>2. Alike(f[k - 1], g[k - 1], refs) /\ Names(ops[k]) \subseteq refs
        BY <2>1, <1>4, <1>7
    <2>3. PriorType(f[k - 1], ops[k]) = PriorType(g[k - 1], ops[k])
        BY <2>2, CommitOpAlike
    <2>. QED BY <2>3 DEF Adds, f, g, ops
<1>9. Added(a, mig) = Added(b, mig)
    BY <1>1, <1>8 DEF Added, ops
<1>. QED BY <1>1, <1>2, <1>3, <1>7, <1>9

\* Nothing an indeterminate state goes through makes it known again, and of two
\* states with the same evidence a migration makes two with the same evidence.
LEMMA ApplyOneSame ==
    ASSUME NEW a, NEW b, NEW mig, IsList(mig.operations), IsState(a), IsState(b),
           SameEvidence(a, b)
    PROVE  SameEvidence(ApplyOne(a, mig), ApplyOne(b, mig))
<1> DEFINE a2 == ApplyOne(a, mig)
           b2 == ApplyOne(b, mig)
           refs == ColumnsOf(mig) \cup DOMAIN a2.schema \cup DOMAIN b2.schema
<1>1. /\ IsState(a2) /\ IsState(b2)
      /\ ToSet(a2.committed) = ToSet(a.committed) \cup Added(a, mig)
      /\ ToSet(b2.committed) = ToSet(b.committed) \cup Added(b, mig)
      /\ a.indeterminate => a2.indeterminate
      /\ b.indeterminate => b2.indeterminate
    BY ApplyOneKeeps
<1>2. CASE a.indeterminate
    <2>1. a2.indeterminate = TRUE /\ b2.indeterminate = TRUE
        BY <1>1, <1>2 DEF SameEvidence, IsState
    <2>. QED BY <2>1 DEF SameEvidence
<1>3. CASE ~a.indeterminate
    <2>1. Alike(a, b, refs)
        BY <1>3 DEF SameEvidence, Alike, SameAt
    <2>2. Alike(a2, b2, refs) /\ Added(a, mig) = Added(b, mig)
        <3> DEFINE R == refs
        <3>1. ColumnsOf(mig) \subseteq R /\ Alike(a, b, R)
            BY <2>1
        <3> HIDE DEF R
        <3>2. Alike(ApplyOne(a, mig), ApplyOne(b, mig), R) /\ Added(a, mig) = Added(b, mig)
            BY <3>1, ApplyOneAlike
        <3>. QED BY <3>2 DEF R
    <2> HIDE DEF a2, b2
    <2>3. a2.schema = b2.schema
        <3>1. DOMAIN a2.schema = DOMAIN b2.schema
            BY <2>2 DEF Alike, SameAt
        <3>2. \A ref \in DOMAIN a2.schema : a2.schema[ref] = b2.schema[ref]
            BY <2>2 DEF Alike, SameAt
        <3>3. IsMap(a2.schema) /\ IsMap(b2.schema)
            BY <1>1 DEF IsState
        <3>. QED BY <3>1, <3>2, <3>3 DEF IsMap
    <2>4. SameEvidence(a2, b2)
        BY <1>1, <1>3, <2>2, <2>3 DEF SameEvidence, Alike
    <2>. QED BY <2>4 DEF a2, b2
<1>4. a.indeterminate \in BOOLEAN
    BY DEF IsState
<1>. QED BY <1>2, <1>3, <1>4

\* The operations of a migration's part of the trail are those of the migration.
LEMMA AddedOps ==
    ASSUME NEW st, NEW mig, IsList(mig.operations), IsState(st)
    PROVE  Ops(ApplyOne(st, mig)) = Ops(st) \cup ToSet(mig.operations)
<1>1. ToSet(ApplyOne(st, mig).committed) = ToSet(st.committed) \cup Added(st, mig)
    BY ApplyOneKeeps
<1>2. {cop.op : cop \in Added(st, mig)} = ToSet(mig.operations)
    <2>1. \A j \in DOMAIN mig.operations : Adds(st, mig, j).op = mig.operations[j]
        BY DEF Adds
    <2>2. ASSUME NEW op \in ToSet(mig.operations) PROVE op \in {cop.op : cop \in Added(st, mig)}
        <3>1. PICK j \in DOMAIN mig.operations : op = mig.operations[j]
            BY DEF ToSet
        <3>2. Adds(st, mig, j) \in Added(st, mig)
            BY DEF Added
        <3>. QED BY <3>1, <3>2, <2>1
    <2>3. ASSUME NEW cop \in Added(st, mig) PROVE cop.op \in ToSet(mig.operations)
        <3>1. PICK j \in DOMAIN mig.operations : cop = Adds(st, mig, j)
            BY DEF Added
        <3>. QED BY <3>1, <2>1 DEF ToSet
    <2>. QED BY <2>2, <2>3
<1>. QED BY <1>1, <1>2 DEF Ops

-----------------------------------------------------------------------------
(* Migrations in the order of the list.                                    *)

Indices(plan) == [i \in DOMAIN plan.migrations |-> i]
PrefixesOf(plan, st, committed) ==
    Replay!Stages(plan, committed, st, Indices(plan), Len(plan.migrations))

\* Committing in order goes through the list and passes over what is not
\* committed.
LEMMA InOrderSteps ==
    ASSUME NEW plan, IsPlan(plan), NEW st, NEW committed
    PROVE  LET f == PrefixesOf(plan, st, committed)
           IN  /\ f[0] = st
               /\ f[Len(plan.migrations)] = ApplyInOrder(plan, st, committed)
               /\ \A k \in DOMAIN plan.migrations :
                     f[k] = IF k \in committed THEN ApplyOne(f[k - 1], plan.migrations[k])
                                               ELSE f[k - 1]
<1> DEFINE n == Len(plan.migrations)
           list == Indices(plan)
           f == Replay!Stages(plan, committed, st, list, n)
<1>1. n \in Nat /\ DOMAIN plan.migrations = 1 .. n /\ DOMAIN list = 1 .. n
      /\ \A k \in 1 .. n : list[k] = k
    BY DEF IsPlan, Indices
<1> HIDE DEF list, n
<1>2. Replay!Passes(f, plan, committed, st, list, n)
    BY <1>1, Replay!FoldSteps
<1> HIDE DEF f
<1>3. /\ f[0] = st /\ f[n] = Replay!Fold(plan, committed, st, list)
      /\ \A k \in 1 .. n :
            f[k] = IF list[k] \in committed THEN ApplyOne(f[k - 1], plan.migrations[list[k]])
                                            ELSE f[k - 1]
    BY <1>2 DEF Replay!Passes
<1>4. ApplyInOrder(plan, st, committed) = Replay!Fold(plan, committed, st, Indices(plan))
    BY DEF ApplyInOrder, Indices, Replay!Fold, FoldLeft, Replay!FoldLeft, MapThenFoldSet,
           Replay!MapThenFoldSet, Max, Replay!Max
<1>. QED BY <1>1, <1>3, <1>4 DEF PrefixesOf, f, list, n

\* Committing in order keeps a schema state well formed, adds the operations of
\* what is committed and makes nothing known that was not.
LEMMA InOrderKeeps ==
    ASSUME NEW plan, IsPlan(plan), NEW st, IsState(st), NEW committed
    PROVE  LET st2 == ApplyInOrder(plan, st, committed)
           IN  /\ IsState(st2)
               /\ Ops(st2) = Ops(st) \cup UNION {ToSet(plan.migrations[i].operations) :
                                                   i \in committed \cap DOMAIN plan.migrations}
               /\ st.indeterminate => st2.indeterminate
<1> DEFINE n == Len(plan.migrations)
           f == PrefixesOf(plan, st, committed)
           OpsOf(i) == ToSet(plan.migrations[i].operations)
           Fine(k) == /\ IsState(f[k])
                      /\ Ops(f[k]) = Ops(st) \cup UNION {OpsOf(i) : i \in committed \cap (1 .. k)}
                      /\ st.indeterminate => f[k].indeterminate
           S == {k \in Nat : k <= n => Fine(k)}
<1>1. n \in Nat /\ DOMAIN plan.migrations = 1 .. n
      /\ \A i \in 1 .. n : IsList(plan.migrations[i].operations)
    BY DEF IsPlan
<1>2. /\ f[0] = st /\ f[n] = ApplyInOrder(plan, st, committed)
      /\ \A k \in 1 .. n : f[k] = IF k \in committed
                                  THEN ApplyOne(f[k - 1], plan.migrations[k]) ELSE f[k - 1]
    BY <1>1, InOrderSteps
<1> HIDE DEF f
<1>3. 0 \in S
    <2>1. 1 .. 0 = {}
        OBVIOUS
    <2>. QED BY <2>1, <1>2
<1>4. ASSUME NEW k \in Nat, k \in S PROVE k + 1 \in S
    <2> SUFFICES ASSUME k + 1 <= n PROVE Fine(k + 1)
        OBVIOUS
    <2>1. Fine(k) /\ k + 1 \in 1 .. n /\ (k + 1) - 1 = k
        BY <1>1, <1>4
    <2>2. 1 .. k + 1 = (1 .. k) \cup {k + 1}
        OBVIOUS
    <2> HIDE DEF OpsOf
    <2>3. CASE k + 1 \in committed
        <3>1. f[k + 1] = ApplyOne(f[k], plan.migrations[k + 1])
            BY <2>1, <2>3, <1>2
        <3>2. IsList(plan.migrations[k + 1].operations) /\ IsState(f[k])
            BY <2>1, <1>1
        <3>3. /\ IsState(f[k + 1])
              /\ f[k].indeterminate => f[k + 1].indeterminate
              /\ Ops(f[k + 1]) = Ops(f[k]) \cup OpsOf(k + 1)
            BY <3>1, <3>2, ApplyOneKeeps, AddedOps DEF OpsOf
        <3>4. committed \cap (1 .. k + 1) = (committed \cap (1 .. k)) \cup {k + 1}
            BY <2>2, <2>3
        <3>5. UNION {OpsOf(i) : i \in committed \cap (1 .. k + 1)}
                 = (UNION {OpsOf(i) : i \in committed \cap (1 .. k)}) \cup OpsOf(k + 1)
            BY <3>4
        <3>. QED BY <2>1, <3>3, <3>5
    <2>4. CASE k + 1 \notin committed
        <3>1. f[k + 1] = f[k]
            BY <2>1, <2>4, <1>2
        <3>2. committed \cap (1 .. k + 1) = committed \cap (1 .. k)
            BY <2>2, <2>4
        <3>. QED BY <2>1, <3>1, <3>2
    <2>. QED BY <2>3, <2>4
<1>5. Fine(n)
    <2> HIDE DEF Fine
    <2>1. n \in S
        <3> HIDE DEF S
        <3>. QED BY <1>1, <1>3, <1>4, Commit!Induction
    <2>. QED BY <2>1
<1>. QED BY <1>1, <1>2, <1>5

\* With nothing to commit nothing happens.
LEMMA InOrderNone ==
    ASSUME NEW plan, IsPlan(plan), NEW st
    PROVE  ApplyInOrder(plan, st, {}) = st
<1> DEFINE n == Len(plan.migrations)
           f == PrefixesOf(plan, st, {})
           S == {k \in Nat : k <= n => f[k] = st}
<1>1. n \in Nat /\ DOMAIN plan.migrations = 1 .. n
    BY DEF IsPlan
<1>2. /\ f[0] = st /\ f[n] = ApplyInOrder(plan, st, {})
      /\ \A k \in 1 .. n : f[k] = f[k - 1]
    BY <1>1, InOrderSteps
<1> HIDE DEF f
<1>3. 0 \in S
    BY <1>2
<1>4. ASSUME NEW k \in Nat, k \in S PROVE k + 1 \in S
    <2> SUFFICES ASSUME k + 1 <= n PROVE f[k + 1] = st
        OBVIOUS
    <2>1. f[k] = st /\ k + 1 \in 1 .. n /\ (k + 1) - 1 = k
        BY <1>1, <1>4
    <2>. QED BY <2>1, <1>2
<1>5. n \in S
    <2> HIDE DEF S
    <2>. QED BY <1>1, <1>3, <1>4, Commit!Induction
<1>. QED BY <1>1, <1>2, <1>5

\* What commits behind everything else commits last.
LEMMA InOrderLast ==
    ASSUME NEW plan, IsPlan(plan), NEW st, NEW committed, NEW i \in DOMAIN plan.migrations,
           \A j \in committed : j \in Int /\ j < i
    PROVE  ApplyInOrder(plan, st, committed \cup {i})
              = ApplyOne(ApplyInOrder(plan, st, committed), plan.migrations[i])
<1> DEFINE n == Len(plan.migrations)
           more == committed \cup {i}
           f == PrefixesOf(plan, st, committed)
           g == PrefixesOf(plan, st, more)
           Fine(k) == IF k < i THEN g[k] = f[k]
                               ELSE /\ f[k] = f[i]
                                    /\ g[k] = ApplyOne(f[i], plan.migrations[i])
           S == {k \in Nat : k <= n => Fine(k)}
<1>1. n \in Nat /\ DOMAIN plan.migrations = 1 .. n /\ i \in 1 .. n
    BY DEF IsPlan
<1>2. /\ f[0] = st /\ f[n] = ApplyInOrder(plan, st, committed)
      /\ \A k \in 1 .. n : f[k] = IF k \in committed
                                  THEN ApplyOne(f[k - 1], plan.migrations[k]) ELSE f[k - 1]
    BY <1>1, InOrderSteps
<1>3. /\ g[0] = st /\ g[n] = ApplyInOrder(plan, st, more)
      /\ \A k \in 1 .. n : g[k] = IF k \in more
                                  THEN ApplyOne(g[k - 1], plan.migrations[k]) ELSE g[k - 1]
    <2> HIDE DEF more
    <2>. QED BY <1>1, InOrderSteps
<1> HIDE DEF f, g, n
<1>4. 0 \in S
    BY <1>1, <1>2, <1>3
<1>5. ASSUME NEW k \in Nat, k \in S PROVE k + 1 \in S
    <2> SUFFICES ASSUME k + 1 <= n PROVE Fine(k + 1)
        OBVIOUS
    <2>1. Fine(k) /\ k + 1 \in 1 .. n /\ (k + 1) - 1 = k
        BY <1>1, <1>5
    <2>2. CASE k + 1 < i
        <3>1. g[k] = f[k] /\ k + 1 # i
            BY <2>1, <2>2, <1>1
        <3>. QED BY <3>1, <2>1, <2>2, <1>2, <1>3
    <2>3. CASE k + 1 = i
        <3>1. g[k] = f[k] /\ k + 1 \notin committed
            BY <2>1, <2>3, <1>1
        <3>2. f[k + 1] = f[k]
            BY <3>1, <2>1, <1>2
        <3>3. g[k + 1] = ApplyOne(g[k], plan.migrations[k + 1])
            BY <2>1, <2>3, <1>3
        <3>4. ~(k + 1 < i)
            BY <2>3
        <3>. QED BY <3>1, <3>2, <3>3, <3>4, <2>3
    <2>4. CASE k + 1 > i
        <3>1. ~(k < i) /\ ~(k + 1 < i) /\ k + 1 # i /\ k + 1 \notin committed
            BY <2>4, <1>1
        <3>2. f[k + 1] = f[k] /\ g[k + 1] = g[k]
            BY <3>1, <2>1, <1>2, <1>3
        <3>. QED BY <3>1, <3>2, <2>1
    <2>. QED BY <2>2, <2>3, <2>4, <1>1
<1>6. Fine(n)
    <2> HIDE DEF Fine
    <2>1. n \in S
        <3> HIDE DEF S
        <3>. QED BY <1>1, <1>4, <1>5, Commit!Induction
    <2>. QED BY <2>1
<1>7. ~(n < i)
    BY <1>1
<1>. QED BY <1>1, <1>2, <1>3, <1>6, <1>7

-----------------------------------------------------------------------------
(* Migrations that name no column in common, in any order.                 *)

\* What a state must tell once a set of migrations has committed on top of a
\* base: what each of them does to the base by itself, all together.
Effect(plan, base, i) == ApplyOne(base, plan.migrations[i])
Canonical(plan, base, done, st) ==
    /\ IsState(st)
    /\ st.indeterminate <=>
          base.indeterminate \/ \E i \in done : Effect(plan, base, i).indeterminate
    /\ ~st.indeterminate =>
          /\ ToSet(st.committed) = ToSet(base.committed)
                \cup UNION {Added(base, plan.migrations[i]) : i \in done}
          /\ \A i \in done : \A ref \in ColumnsOf(plan.migrations[i]) :
                SameAt(st.schema, Effect(plan, base, i).schema, ref)
          /\ \A ref : (\A i \in done : ref \notin ColumnsOf(plan.migrations[i]))
                         => SameAt(st.schema, base.schema, ref)

\* With nothing committed, what is there is the base itself.
LEMMA CanonicalStart ==
    ASSUME NEW plan, NEW base, IsState(base)
    PROVE  Canonical(plan, base, {}, base)
BY DEF Canonical, SameAt

\* Two such states carry the same evidence.
LEMMA CanonicalSame ==
    ASSUME NEW plan, NEW base, NEW done, NEW a, NEW b,
           Canonical(plan, base, done, a), Canonical(plan, base, done, b)
    PROVE  SameEvidence(a, b)
<1>1. IsState(a) /\ IsState(b)
    BY DEF Canonical
<1>2. a.indeterminate = b.indeterminate
    BY <1>1 DEF Canonical, IsState
<1>3. ASSUME ~a.indeterminate PROVE a.schema = b.schema /\ ToSet(a.committed) = ToSet(b.committed)
    <2>1. ASSUME NEW ref PROVE SameAt(a.schema, b.schema, ref)
        <3>1. CASE \E i \in done : ref \in ColumnsOf(plan.migrations[i])
            <4>1. PICK i \in done : ref \in ColumnsOf(plan.migrations[i])
                BY <3>1
            <4>2. SameAt(a.schema, Effect(plan, base, i).schema, ref)
                BY <4>1, <1>3 DEF Canonical
            <4>3. SameAt(b.schema, Effect(plan, base, i).schema, ref)
                BY <4>1, <1>2, <1>3 DEF Canonical
            <4>. QED BY <4>2, <4>3 DEF SameAt
        <3>2. CASE \A i \in done : ref \notin ColumnsOf(plan.migrations[i])
            <4>1. SameAt(a.schema, base.schema, ref)
                BY <3>2, <1>3 DEF Canonical
            <4>2. SameAt(b.schema, base.schema, ref)
                BY <3>2, <1>2, <1>3 DEF Canonical
            <4>. QED BY <4>1, <4>2 DEF SameAt
        <3>. QED BY <3>1, <3>2
    <2>2. DOMAIN a.schema = DOMAIN b.schema
        BY <2>1 DEF SameAt
    <2>3. \A ref \in DOMAIN a.schema : a.schema[ref] = b.schema[ref]
        BY <2>1 DEF SameAt
    <2>4. a.schema = b.schema
        BY <1>1, <2>2, <2>3 DEF IsState, IsMap
    <2>5. ToSet(a.committed) = ToSet(b.committed)
        BY <1>2, <1>3 DEF Canonical
    <2>. QED BY <2>4, <2>5
<1>. QED BY <1>2, <1>3 DEF SameEvidence

\* One migration more, whichever it is.
LEMMA CanonicalStep ==
    ASSUME NEW plan, IsPlan(plan), Independent(plan), NEW base, IsState(base), NEW st,
           NEW done \in SUBSET During(plan), NEW i \in During(plan) \ done,
           Canonical(plan, base, done, st)
    PROVE  Canonical(plan, base, done \cup {i}, ApplyOne(st, plan.migrations[i]))
<1> DEFINE mig == plan.migrations[i]
           st2 == ApplyOne(st, mig)
           own == ApplyOne(base, mig)
<1>0. /\ IsList(mig.operations)
      /\ \A j \in done : ColumnsOf(plan.migrations[j]) \cap ColumnsOf(mig) = {}
    BY DEF Independent, IsPlan, During, InPhase
<1>1. Effect(plan, base, i) = own
    BY DEF Effect
<1> HIDE DEF mig
<1>2. /\ IsState(st2)
      /\ ToSet(st2.committed) = ToSet(st.committed) \cup Added(st, mig)
      /\ st.indeterminate => st2.indeterminate
      /\ \A ref : ref \notin ColumnsOf(mig) => SameAt(st2.schema, st.schema, ref)
    <2>1. IsState(st)
        BY DEF Canonical
    <2>. QED BY <1>0, <2>1, ApplyOneKeeps
<1> HIDE DEF st2, own
<1>3. CASE st.indeterminate
    <2>1. st2.indeterminate
        BY <1>2, <1>3
    <2>2. base.indeterminate \/ \E j \in done \cup {i} : Effect(plan, base, j).indeterminate
        BY <1>3 DEF Canonical
    <2>. QED BY <1>2, <2>1, <2>2 DEF Canonical, st2, mig
<1>4. CASE ~st.indeterminate
    <2>1. /\ ~base.indeterminate
          /\ \A j \in done : ~Effect(plan, base, j).indeterminate
          /\ ToSet(st.committed) = ToSet(base.committed)
                \cup UNION {Added(base, plan.migrations[j]) : j \in done}
          /\ \A j \in done : \A ref \in ColumnsOf(plan.migrations[j]) :
                SameAt(st.schema, Effect(plan, base, j).schema, ref)
          /\ \A ref : (\A j \in done : ref \notin ColumnsOf(plan.migrations[j]))
                         => SameAt(st.schema, base.schema, ref)
        BY <1>4 DEF Canonical
    <2>2. base.indeterminate = st.indeterminate
        <3>1. base.indeterminate \in BOOLEAN /\ st.indeterminate \in BOOLEAN
            BY DEF Canonical, IsState
        <3>. QED BY <1>4, <2>1, <3>1
    <2>3. Alike(st, base, ColumnsOf(mig))
        <3>1. ASSUME NEW ref \in ColumnsOf(mig) PROVE SameAt(st.schema, base.schema, ref)
            <4>1. \A j \in done : ref \notin ColumnsOf(plan.migrations[j])
                BY <1>0
            <4>. QED BY <4>1, <2>1
        <3>. QED BY <2>2, <3>1 DEF Alike
    <2>4. Alike(st2, own, ColumnsOf(mig)) /\ Added(st, mig) = Added(base, mig)
        BY <2>3, <1>0, ApplyOneAlike DEF st2, own
    <2>5. st2.indeterminate <=>
             base.indeterminate \/ \E j \in done \cup {i} : Effect(plan, base, j).indeterminate
        <3>1. st2.indeterminate = own.indeterminate
            BY <2>4 DEF Alike
        <3>. QED BY <3>1, <2>1, <1>1
    <2>6. ToSet(st2.committed) = ToSet(base.committed)
             \cup UNION {Added(base, plan.migrations[j]) : j \in done \cup {i}}
        <3> DEFINE A(j) == Added(base, plan.migrations[j])
        <3>1. A(i) = Added(base, mig)
            BY DEF mig
        <3>2. UNION {A(j) : j \in done \cup {i}} = (UNION {A(j) : j \in done}) \cup A(i)
            <4> HIDE DEF A
            <4>. QED OBVIOUS
        <3>3. ToSet(st.committed) = ToSet(base.committed) \cup UNION {A(j) : j \in done}
            BY <2>1
        <3>4. ToSet(st2.committed) = ToSet(base.committed) \cup UNION {A(j) : j \in done \cup {i}}
            <4> HIDE DEF A
            <4>. QED BY <3>1, <3>2, <3>3, <1>2, <2>4
        <3>. QED BY <3>4
    <2>7. ASSUME NEW j \in done \cup {i}, NEW ref \in ColumnsOf(plan.migrations[j])
          PROVE  SameAt(st2.schema, Effect(plan, base, j).schema, ref)
        <3>1. CASE j = i
            BY <3>1, <2>4, <1>1, <2>7 DEF Alike, mig
        <3>2. CASE j \in done
            <4>1. ref \notin ColumnsOf(mig)
                BY <3>2, <1>0, <2>7
            <4>2. SameAt(st2.schema, st.schema, ref) /\ SameAt(st.schema, Effect(plan, base, j).schema, ref)
                BY <4>1, <3>2, <1>2, <2>1, <2>7
            <4>. QED BY <4>2 DEF SameAt
        <3>. QED BY <3>1, <3>2
    <2>8. ASSUME NEW ref, \A j \in done \cup {i} : ref \notin ColumnsOf(plan.migrations[j])
          PROVE  SameAt(st2.schema, base.schema, ref)
        <3>1. ref \notin ColumnsOf(mig) /\ \A j \in done : ref \notin ColumnsOf(plan.migrations[j])
            BY <2>8 DEF mig
        <3>2. SameAt(st2.schema, st.schema, ref) /\ SameAt(st.schema, base.schema, ref)
            BY <3>1, <1>2, <2>1
        <3>. QED BY <3>2 DEF SameAt
    <2>9. Canonical(plan, base, done \cup {i}, st2)
        BY <1>2, <2>5, <2>6, <2>7, <2>8 DEF Canonical
    <2>. QED BY <2>9 DEF st2, mig
<1>. QED BY <1>3, <1>4

\* A subset committed in the order of the list is such a state.
LEMMA InOrderCanonical ==
    ASSUME NEW plan, IsPlan(plan), Independent(plan), NEW base, IsState(base),
           NEW done \in SUBSET During(plan)
    PROVE  Canonical(plan, base, done, ApplyInOrder(plan, base, done))
<1> DEFINE n == Len(plan.migrations)
           f == PrefixesOf(plan, base, done)
           S == {k \in Nat : k <= n => Canonical(plan, base, done \cap (1 .. k), f[k])}
<1>1. n \in Nat /\ DOMAIN plan.migrations = 1 .. n /\ done \subseteq 1 .. n
    BY DEF IsPlan, During, InPhase
<1>2. /\ f[0] = base /\ f[n] = ApplyInOrder(plan, base, done)
      /\ \A k \in 1 .. n : f[k] = IF k \in done
                                  THEN ApplyOne(f[k - 1], plan.migrations[k]) ELSE f[k - 1]
    BY <1>1, InOrderSteps
<1> HIDE DEF f
<1>3. 0 \in S
    <2>1. done \cap (1 .. 0) = {}
        OBVIOUS
    <2>. QED BY <2>1, <1>2, CanonicalStart
<1>4. ASSUME NEW k \in Nat, k \in S PROVE k + 1 \in S
    <2> SUFFICES ASSUME k + 1 <= n PROVE Canonical(plan, base, done \cap (1 .. k + 1), f[k + 1])
        OBVIOUS
    <2>1. Canonical(plan, base, done \cap (1 .. k), f[k]) /\ k + 1 \in 1 .. n /\ (k + 1) - 1 = k
        BY <1>1, <1>4
    <2>2. 1 .. k + 1 = (1 .. k) \cup {k + 1} /\ k + 1 \notin 1 .. k
        OBVIOUS
    <2> DEFINE before == done \cap (1 .. k)
               i == k + 1
    <2>3. CASE k + 1 \in done
        <3>1. f[k + 1] = ApplyOne(f[k], plan.migrations[k + 1])
            BY <2>1, <2>3, <1>2
        <3>2. done \cap (1 .. k + 1) = before \cup {i}
            BY <2>2, <2>3
        <3>3. before \in SUBSET During(plan) /\ i \in During(plan) \ before
            BY <2>2, <2>3
        <3>4. Canonical(plan, base, before, f[k])
            BY <2>1
        <3> HIDE DEF before, i
        <3>5. Canonical(plan, base, before \cup {i}, ApplyOne(f[k], plan.migrations[i]))
            BY <3>3, <3>4, CanonicalStep
        <3>. QED BY <3>1, <3>2, <3>5 DEF i
    <2>4. CASE k + 1 \notin done
        <3>1. f[k + 1] = f[k] /\ done \cap (1 .. k + 1) = done \cap (1 .. k)
            BY <2>1, <2>2, <2>4, <1>2
        <3>. QED BY <3>1, <2>1
    <2>. QED BY <2>3, <2>4
<1>5. n \in S
    <2> HIDE DEF S
    <2>. QED BY <1>1, <1>3, <1>4, Commit!Induction
<1>6. Canonical(plan, base, done \cap (1 .. n), f[n])
    <2>1. n <= n
        BY <1>1
    <2>. QED BY <1>5, <2>1
<1>7. done \cap (1 .. n) = done
    BY <1>1
<1>. QED BY <1>2, <1>6, <1>7

-----------------------------------------------------------------------------
(* What a node tells.                                                      *)

\* What every node starts from is a schema state.
LEMMA BaseStateFacts ==
    ASSUME NEW plan, IsPlan(plan)
    PROVE  IsState(BaseState(plan))
<1> DEFINE st == SchemaState(plan.base, plan.history, FALSE)
<1>1. IsState(st)
    BY DEF SchemaState, IsState, IsPlan
<1>2. IsState(ApplyInOrder(plan, st, Before(plan)))
    <2> HIDE DEF st
    <2>. QED BY <1>1, InOrderKeeps
<1> DEFINE st2 == ApplyInOrder(plan, st, Before(plan))
<1>3. BaseState(plan) = [st2 EXCEPT !.indeterminate = @ \/ plan.unknown]
    BY DEF BaseState
<1> HIDE DEF st2
<1>4. /\ st2 = SchemaState(st2.schema, st2.committed, st2.indeterminate)
      /\ IsList(st2.committed) /\ IsMap(st2.schema) /\ st2.indeterminate \in BOOLEAN
    BY <1>2 DEF IsState, st2
<1>5. BaseState(plan) = SchemaState(st2.schema, st2.committed, st2.indeterminate \/ plan.unknown)
    BY <1>3, <1>4 DEF SchemaState
<1>6. IsState(SchemaState(st2.schema, st2.committed, st2.indeterminate \/ plan.unknown))
    BY <1>4 DEF IsState, SchemaState, IsPlan
<1>. QED BY <1>5, <1>6

-----------------------------------------------------------------------------
(* What became of a column that is gone: the last operation that removed   *)
(* it, which the checks read back from the trail, is the same on a node's  *)
(* trail and on the database's, although the trails are not.               *)

Removes(op, ref) == op.kind \in {"DropColumn", "RenameColumn"} /\ TargetColumn(op) = ref
SameFate(a, b, ref) == RenamedAway(a.committed, ref) <=> RenamedAway(b.committed, ref)
SameFates(a, b) == \A ref : SameFate(a, b, ref)

\* The last operation that removes a column decides.
LEMMA FateOfOp ==
    ASSUME NEW st, NEW mig, NEW op, IsList(st.committed), NEW ref
    PROVE  RenamedAway(CommitOp(st, mig, op).committed, ref)
              <=> IF Removes(op, ref) THEN op.kind = "RenameColumn"
                                      ELSE RenamedAway(st.committed, ref)
<1> DEFINE cop == [migration |-> mig, op |-> op, priorType |-> PriorType(st, op)]
           old == st.committed
           new == Append(old, cop)
           n == Len(old)
<1>1. CommitOp(st, mig, op).committed = new
    BY DEF CommitOp, SchemaState
<1>2. /\ n \in Nat /\ DOMAIN old = 1 .. n /\ DOMAIN new = 1 .. n + 1
      /\ new[n + 1] = cop /\ \A k \in 1 .. n : new[k] = old[k]
    <2>1. old \in Seq(ToSet(old))
        BY DEF IsList
    <2> HIDE DEF cop, old
    <2>. QED BY <2>1
<1>3. cop.op = op
    OBVIOUS
<1> HIDE DEF cop, old, new, n
<1>4. RemovingOps(new, ref)
         = RemovingOps(old, ref) \cup (IF Removes(op, ref) THEN {n + 1} ELSE {})
    <2>1. \A k \in 1 .. n + 1 : k \in 1 .. n \/ k = n + 1
        BY <1>2
    <2>. QED BY <2>1, <1>2, <1>3 DEF RemovingOps, Removes
<1>5. RemovingOps(old, ref) \subseteq 1 .. n
    BY <1>2 DEF RemovingOps
<1>6. CASE Removes(op, ref)
    <2>1. \A j \in RemovingOps(new, ref) : j <= n + 1
        BY <1>2, <1>4, <1>5
    <2>2. n + 1 \in RemovingOps(new, ref)
        BY <1>4, <1>6
    <2>3. \A i \in RemovingOps(old, ref) : ~(n + 1 <= i)
        BY <1>2, <1>5
    <2>4. RenamedAway(new, ref) <=> new[n + 1].op.kind = "RenameColumn"
        BY <1>4, <1>6, <2>1, <2>2, <2>3 DEF RenamedAway
    <2>. QED BY <1>1, <1>2, <1>3, <1>6, <2>4 DEF old
<1>7. CASE ~Removes(op, ref)
    <2>1. RemovingOps(new, ref) = RemovingOps(old, ref)
        BY <1>4, <1>7
    <2>2. RenamedAway(new, ref) <=> RenamedAway(old, ref)
        BY <1>2, <1>5, <2>1 DEF RenamedAway
    <2>. QED BY <1>1, <1>7, <2>2 DEF old
<1>. QED BY <1>6, <1>7

\* A migration decides the same of a column in two states that agree on it.
LEMMA FateAlike ==
    ASSUME NEW a, NEW b, NEW mig, IsList(mig.operations), IsList(a.committed), IsList(b.committed),
           NEW ref, SameFate(a, b, ref)
    PROVE  SameFate(ApplyOne(a, mig), ApplyOne(b, mig), ref)
<1> DEFINE n == Len(mig.operations)
           f == Stage(a, mig)
           g == Stage(b, mig)
           ops == mig.operations
           Fine(k) == IsList(f[k].committed) /\ IsList(g[k].committed) /\ SameFate(f[k], g[k], ref)
           S == {k \in Nat : k <= n => Fine(k)}
<1>1. n \in Nat
    BY ListFacts
<1>2. /\ f[0] = a /\ f[n] = ApplyOne(a, mig)
      /\ \A k \in 1 .. n : f[k] = CommitOp(f[k - 1], mig.id, ops[k])
    BY ApplySteps
<1>3. /\ g[0] = b /\ g[n] = ApplyOne(b, mig)
      /\ \A k \in 1 .. n : g[k] = CommitOp(g[k - 1], mig.id, ops[k])
    BY ApplySteps
<1> HIDE DEF f, g, ops, n
<1>4. 0 \in S
    BY <1>2, <1>3
<1>5. ASSUME NEW k \in Nat, k \in S PROVE k + 1 \in S
    <2> SUFFICES ASSUME k + 1 <= n PROVE Fine(k + 1)
        OBVIOUS
    <2>1. Fine(k) /\ k + 1 \in 1 .. n /\ (k + 1) - 1 = k
        BY <1>1, <1>5
    <2>2. /\ f[k + 1] = CommitOp(f[k], mig.id, ops[k + 1])
          /\ g[k + 1] = CommitOp(g[k], mig.id, ops[k + 1])
        BY <2>1, <1>2, <1>3
    <2>3. IsList(f[k + 1].committed) /\ IsList(g[k + 1].committed)
        BY <2>1, <2>2, CommitOpKeeps
    <2>4. SameFate(f[k + 1], g[k + 1], ref)
        BY <2>1, <2>2, FateOfOp DEF SameFate
    <2>. QED BY <2>3, <2>4
<1>6. Fine(n)
    <2> HIDE DEF Fine
    <2>1. n \in S
        <3> HIDE DEF S
        <3>. QED BY <1>1, <1>4, <1>5, Commit!Induction
    <2>. QED BY <2>1, <1>1
<1>. QED BY <1>2, <1>3, <1>6

\* A migration that does not name a column does not decide what became of it.
LEMMA FateElsewhere ==
    ASSUME NEW st, NEW mig, IsList(mig.operations), IsList(st.committed),
           NEW ref, ref \notin ColumnsOf(mig)
    PROVE  SameFate(ApplyOne(st, mig), st, ref)
<1> DEFINE n == Len(mig.operations)
           f == Stage(st, mig)
           ops == mig.operations
           Fine(k) == IsList(f[k].committed) /\ SameFate(f[k], st, ref)
           S == {k \in Nat : k <= n => Fine(k)}
<1>1. n \in Nat /\ DOMAIN ops = 1 .. n
    BY ListFacts
<1>2. /\ f[0] = st /\ f[n] = ApplyOne(st, mig)
      /\ \A k \in 1 .. n : f[k] = CommitOp(f[k - 1], mig.id, ops[k])
    BY ApplySteps
<1>3. \A k \in 1 .. n : ~Removes(ops[k], ref)
    <2> SUFFICES ASSUME NEW k \in 1 .. n, Removes(ops[k], ref) PROVE FALSE
        OBVIOUS
    <2>1. ops[k] \in ToSet(ops)
        BY <1>1 DEF ToSet
    <2>2. Names(ops[k]) \subseteq ColumnsOf(mig)
        BY <2>1 DEF ColumnsOf
    <2>. QED BY <2>2 DEF Removes, Names
<1> HIDE DEF f, ops, n
<1>4. 0 \in S
    BY <1>2 DEF SameFate
<1>5. ASSUME NEW k \in Nat, k \in S PROVE k + 1 \in S
    <2> SUFFICES ASSUME k + 1 <= n PROVE Fine(k + 1)
        OBVIOUS
    <2>1. Fine(k) /\ k + 1 \in 1 .. n /\ (k + 1) - 1 = k
        BY <1>1, <1>5
    <2>2. f[k + 1] = CommitOp(f[k], mig.id, ops[k + 1]) /\ ~Removes(ops[k + 1], ref)
        BY <2>1, <1>2, <1>3
    <2>3. IsList(f[k + 1].committed)
        BY <2>1, <2>2, CommitOpKeeps
    <2>4. SameFate(f[k + 1], st, ref)
        BY <2>1, <2>2, FateOfOp DEF SameFate
    <2>. QED BY <2>3, <2>4
<1>6. Fine(n)
    <2> HIDE DEF Fine
    <2>1. n \in S
        <3> HIDE DEF S
        <3>. QED BY <1>1, <1>4, <1>5, Commit!Induction
    <2>. QED BY <2>1, <1>1
<1>. QED BY <1>2, <1>6

\* What became of each column once a set of migrations has committed on top of
\* a base: what the one that names it makes of it by itself.
Decided(p, base, done, st) ==
    /\ IsState(st)
    /\ \A i \in done : \A ref \in ColumnsOf(p.migrations[i]) : SameFate(st, Effect(p, base, i), ref)
    /\ \A ref : (\A i \in done : ref \notin ColumnsOf(p.migrations[i])) => SameFate(st, base, ref)

\* Two such states agree on every column.
LEMMA DecidedSame ==
    ASSUME NEW p, NEW base, NEW done, NEW a, NEW b,
           Decided(p, base, done, a), Decided(p, base, done, b), NEW ref
    PROVE  SameFate(a, b, ref)
<1>1. CASE \E i \in done : ref \in ColumnsOf(p.migrations[i])
    <2>1. PICK i \in done : ref \in ColumnsOf(p.migrations[i])
        BY <1>1
    <2>2. SameFate(a, Effect(p, base, i), ref) /\ SameFate(b, Effect(p, base, i), ref)
        BY <2>1 DEF Decided
    <2>. QED BY <2>2 DEF SameFate
<1>2. CASE \A i \in done : ref \notin ColumnsOf(p.migrations[i])
    <2>1. SameFate(a, base, ref) /\ SameFate(b, base, ref)
        BY <1>2 DEF Decided
    <2>. QED BY <2>1 DEF SameFate
<1>. QED BY <1>1, <1>2

\* One migration more, whichever it is.
LEMMA DecidedStep ==
    ASSUME NEW p, IsPlan(p), Independent(p), NEW base, IsState(base), NEW st,
           NEW done \in SUBSET During(p), NEW i \in During(p) \ done,
           Decided(p, base, done, st)
    PROVE  Decided(p, base, done \cup {i}, ApplyOne(st, p.migrations[i]))
<1> DEFINE mig == p.migrations[i]
           st2 == ApplyOne(st, mig)
           own == ApplyOne(base, mig)
<1>0. /\ IsList(mig.operations)
      /\ \A j \in done : ColumnsOf(p.migrations[j]) \cap ColumnsOf(mig) = {}
    BY DEF Independent, IsPlan, During, InPhase
<1>1. Effect(p, base, i) = own
    BY DEF Effect
<1> HIDE DEF mig
<1>2. IsState(st) /\ IsList(st.committed) /\ IsList(base.committed)
    BY DEF Decided, IsState
<1>3. IsState(st2)
    BY <1>0, <1>2, ApplyOneKeeps
<1> HIDE DEF st2, own
<1>4. ASSUME NEW j \in done \cup {i}, NEW ref \in ColumnsOf(p.migrations[j])
      PROVE  SameFate(st2, Effect(p, base, j), ref)
    <2>1. CASE j = i
        <3>1. ref \in ColumnsOf(mig)
            BY <2>1, <1>4 DEF mig
        <3>2. \A k \in done : ref \notin ColumnsOf(p.migrations[k])
            BY <3>1, <1>0
        <3>3. SameFate(st, base, ref)
            BY <3>2 DEF Decided
        <3>. QED BY <2>1, <3>3, <1>0, <1>1, <1>2, FateAlike DEF st2, own
    <2>2. CASE j \in done
        <3>1. ref \notin ColumnsOf(mig)
            BY <2>2, <1>0, <1>4
        <3>2. SameFate(st2, st, ref)
            BY <3>1, <1>0, <1>2, FateElsewhere DEF st2
        <3>3. SameFate(st, Effect(p, base, j), ref)
            BY <2>2, <1>4 DEF Decided
        <3>. QED BY <3>2, <3>3 DEF SameFate
    <2>. QED BY <2>1, <2>2
<1>5. ASSUME NEW ref, \A j \in done \cup {i} : ref \notin ColumnsOf(p.migrations[j])
      PROVE  SameFate(st2, base, ref)
    <2>1. ref \notin ColumnsOf(mig) /\ \A j \in done : ref \notin ColumnsOf(p.migrations[j])
        BY <1>5 DEF mig
    <2>2. SameFate(st2, st, ref)
        BY <2>1, <1>0, <1>2, FateElsewhere DEF st2
    <2>3. SameFate(st, base, ref)
        BY <2>1 DEF Decided
    <2>. QED BY <2>2, <2>3 DEF SameFate
<1>6. Decided(p, base, done \cup {i}, st2)
    BY <1>3, <1>4, <1>5 DEF Decided
<1>. QED BY <1>6 DEF st2, mig

\* A subset committed in the order of the list is such a state.
LEMMA InOrderDecided ==
    ASSUME NEW p, IsPlan(p), Independent(p), NEW base, IsState(base),
           NEW done \in SUBSET During(p)
    PROVE  Decided(p, base, done, ApplyInOrder(p, base, done))
<1> DEFINE n == Len(p.migrations)
           f == PrefixesOf(p, base, done)
           S == {k \in Nat : k <= n => Decided(p, base, done \cap (1 .. k), f[k])}
<1>1. n \in Nat /\ DOMAIN p.migrations = 1 .. n /\ done \subseteq 1 .. n
    BY DEF IsPlan, During, InPhase
<1>2. /\ f[0] = base /\ f[n] = ApplyInOrder(p, base, done)
      /\ \A k \in 1 .. n : f[k] = IF k \in done
                                  THEN ApplyOne(f[k - 1], p.migrations[k]) ELSE f[k - 1]
    BY <1>1, InOrderSteps
<1> HIDE DEF f
<1>3. 0 \in S
    <2>1. done \cap (1 .. 0) = {}
        OBVIOUS
    <2>2. Decided(p, base, {}, base)
        BY DEF Decided, SameFate
    <2>. QED BY <2>1, <2>2, <1>2
<1>4. ASSUME NEW k \in Nat, k \in S PROVE k + 1 \in S
    <2> SUFFICES ASSUME k + 1 <= n PROVE Decided(p, base, done \cap (1 .. k + 1), f[k + 1])
        OBVIOUS
    <2>1. Decided(p, base, done \cap (1 .. k), f[k]) /\ k + 1 \in 1 .. n /\ (k + 1) - 1 = k
        BY <1>1, <1>4
    <2>2. 1 .. k + 1 = (1 .. k) \cup {k + 1} /\ k + 1 \notin 1 .. k
        OBVIOUS
    <2> DEFINE early == done \cap (1 .. k)
               i == k + 1
    <2>3. CASE k + 1 \in done
        <3>1. f[k + 1] = ApplyOne(f[k], p.migrations[k + 1])
            BY <2>1, <2>3, <1>2
        <3>2. done \cap (1 .. k + 1) = early \cup {i}
            BY <2>2, <2>3
        <3>3. early \in SUBSET During(p) /\ i \in During(p) \ early
            BY <2>2, <2>3
        <3>4. Decided(p, base, early, f[k])
            BY <2>1
        <3> HIDE DEF early, i
        <3>5. Decided(p, base, early \cup {i}, ApplyOne(f[k], p.migrations[i]))
            BY <3>3, <3>4, DecidedStep
        <3>. QED BY <3>1, <3>2, <3>5 DEF i
    <2>4. CASE k + 1 \notin done
        <3>1. f[k + 1] = f[k] /\ done \cap (1 .. k + 1) = done \cap (1 .. k)
            BY <2>1, <2>2, <2>4, <1>2
        <3>. QED BY <3>1, <2>1
    <2>. QED BY <2>3, <2>4
<1>5. n \in S
    <2> HIDE DEF S
    <2>. QED BY <1>1, <1>3, <1>4, Commit!Induction
<1>6. Decided(p, base, done \cap (1 .. n), f[n])
    <2>1. n <= n
        BY <1>1
    <2>. QED BY <1>5, <2>1
<1>7. done \cap (1 .. n) = done
    BY <1>1
<1>. QED BY <1>2, <1>6, <1>7

-----------------------------------------------------------------------------
(* What the nodes tell.                                                    *)

\* A schema state tells what the node at a position tells; while the rollout is
\* under way it is the effect of the committed migrations, whatever their order.
Tells(plan, pos, st) ==
    LET told == SchemaStateAt(plan, pos)
    IN  /\ IsState(st)
        /\ SameEvidence(told, st)
        /\ Ops(told) = Ops(st)
        /\ SameFates(told, st)
        /\ pos.after = {} => /\ Canonical(plan, BaseState(plan), pos.during, st)
                            /\ Decided(plan, BaseState(plan), pos.during, st)

\* The operations on a node's trail: those the base has, those of the
\* before-migrations and those of the migrations committed at the node.
LEMMA NodeFacts ==
    ASSUME NEW plan, IsPlan(plan), NEW pos
    PROVE  /\ IsState(SchemaStateAt(plan, pos))
           /\ Ops(SchemaStateAt(plan, pos)) =
                 Ops(BaseState(plan)) \cup UNION {ToSet(plan.migrations[i].operations) :
                        i \in (pos.during \cup pos.after) \cap DOMAIN plan.migrations}
<1> DEFINE base == BaseState(plan)
           mid == ApplyInOrder(plan, base, pos.during)
           end == ApplyInOrder(plan, mid, pos.after)
           OpsOf(i) == ToSet(plan.migrations[i].operations)
           D == DOMAIN plan.migrations
<1>1. SchemaStateAt(plan, pos) = end
    BY DEF SchemaStateAt, DuringSubset
<1>2. IsState(base)
    BY BaseStateFacts
<1>3. IsState(mid) /\ Ops(mid) = Ops(base) \cup UNION {OpsOf(i) : i \in pos.during \cap D}
    <2> HIDE DEF base
    <2>. QED BY <1>2, InOrderKeeps
<1>4. IsState(end) /\ Ops(end) = Ops(mid) \cup UNION {OpsOf(i) : i \in pos.after \cap D}
    <2> HIDE DEF mid
    <2>. QED BY <1>3, InOrderKeeps
<1> HIDE DEF base, mid, end, OpsOf, D
<1>5. UNION {OpsOf(i) : i \in (pos.during \cup pos.after) \cap D}
         = (UNION {OpsOf(i) : i \in pos.during \cap D})
              \cup (UNION {OpsOf(i) : i \in pos.after \cap D})
    OBVIOUS
<1>6. Ops(end) = Ops(base) \cup UNION {OpsOf(i) : i \in (pos.during \cup pos.after) \cap D}
    BY <1>3, <1>4, <1>5
<1>. QED BY <1>1, <1>4, <1>6 DEF base, OpsOf, D

\* Before anything has committed.
LEMMA TellsAtStart ==
    ASSUME NEW plan, IsPlan(plan), NEW pos, pos.during = {}, pos.after = {}
    PROVE  Tells(plan, pos, BaseState(plan))
<1>1. IsState(BaseState(plan))
    BY BaseStateFacts
<1>2. SchemaStateAt(plan, pos) = BaseState(plan)
    <2>1. SchemaStateAt(plan, pos) = ApplyInOrder(plan, ApplyInOrder(plan, BaseState(plan), {}), {})
        BY DEF SchemaStateAt, DuringSubset
    <2>. QED BY <2>1, InOrderNone
<1>3. Canonical(plan, BaseState(plan), {}, BaseState(plan))
    BY <1>1, CanonicalStart
<1>4. /\ SameFates(BaseState(plan), BaseState(plan))
      /\ Decided(plan, BaseState(plan), {}, BaseState(plan))
    BY <1>1 DEF SameFates, SameFate, Decided
<1>. QED BY <1>1, <1>2, <1>3, <1>4 DEF Tells, SameEvidence

\* A during-migration commits, whichever it is.
LEMMA TellsDuring ==
    ASSUME NEW plan, IsPlan(plan), Independent(plan), NEW pos, NEW pos2, NEW st,
           Tells(plan, pos, st), pos.during \subseteq During(plan), pos.after = {},
           NEW i \in During(plan) \ pos.during,
           pos2.during = pos.during \cup {i}, pos2.after = {}
    PROVE  Tells(plan, pos2, ApplyOne(st, plan.migrations[i]))
<1> DEFINE base == BaseState(plan)
           done == pos.during
           more == pos2.during
           st2 == ApplyOne(st, plan.migrations[i])
           told2 == SchemaStateAt(plan, pos2)
<1>0. /\ IsState(base) /\ IsState(st) /\ i \in DOMAIN plan.migrations
      /\ IsList(plan.migrations[i].operations)
      /\ During(plan) \subseteq DOMAIN plan.migrations
    BY BaseStateFacts DEF Tells, During, InPhase, IsPlan
<1>1. Canonical(plan, base, more, st2)
    <2>1. Canonical(plan, base, done, st)
        BY DEF Tells
    <2>2. Canonical(plan, base, done \cup {i}, st2)
        <3> HIDE DEF base, done
        <3>1. done \in SUBSET During(plan) /\ i \in During(plan) \ done
            BY DEF done
        <3>. QED BY <1>0, <2>1, <3>1, CanonicalStep
    <2>. QED BY <2>2
<1>2. Canonical(plan, base, more, told2)
    <2>1. told2 = ApplyInOrder(plan, ApplyInOrder(plan, base, more), {})
        BY DEF SchemaStateAt, DuringSubset
    <2>2. told2 = ApplyInOrder(plan, base, more)
        BY <2>1, InOrderNone
    <2>3. more \in SUBSET During(plan)
        OBVIOUS
    <2>4. Canonical(plan, base, more, ApplyInOrder(plan, base, more))
        <3> HIDE DEF base, more
        <3>. QED BY <1>0, <2>3, InOrderCanonical
    <2>. QED BY <2>2, <2>4
<1>3. SameEvidence(told2, st2)
    <2> HIDE DEF base, more, told2, st2
    <2>. QED BY <1>1, <1>2, CanonicalSame
<1>4. Ops(told2) = Ops(st2)
    <2> DEFINE OpsOf(k) == ToSet(plan.migrations[k].operations)
    <2>1. Ops(SchemaStateAt(plan, pos))
             = Ops(base) \cup UNION {OpsOf(k) : k \in (done \cup {}) \cap DOMAIN plan.migrations}
        BY NodeFacts
    <2>2. Ops(told2)
             = Ops(base) \cup UNION {OpsOf(k) : k \in (more \cup {}) \cap DOMAIN plan.migrations}
        BY NodeFacts
    <2>3. (done \cup {}) \cap DOMAIN plan.migrations = done
          /\ (more \cup {}) \cap DOMAIN plan.migrations = done \cup {i}
        BY <1>0
    <2>4. Ops(st2) = Ops(st) \cup OpsOf(i)
        BY <1>0, AddedOps
    <2>5. Ops(SchemaStateAt(plan, pos)) = Ops(st)
        BY DEF Tells
    <2> HIDE DEF OpsOf, done, more, told2, st2, base
    <2>6. UNION {OpsOf(k) : k \in done \cup {i}} = (UNION {OpsOf(k) : k \in done}) \cup OpsOf(i)
        OBVIOUS
    <2>. QED BY <2>1, <2>2, <2>3, <2>4, <2>5, <2>6
<1>5. IsState(st2)
    BY <1>1 DEF Canonical
<1>6. Decided(plan, base, more, st2)
    <2>1. Decided(plan, base, done, st)
        BY DEF Tells
    <2>2. done \in SUBSET During(plan) /\ i \in During(plan) \ done
        BY DEF done
    <2> HIDE DEF base, done
    <2>3. Decided(plan, base, done \cup {i}, st2)
        BY <1>0, <2>1, <2>2, DecidedStep
    <2>. QED BY <2>3 DEF done
<1>7. SameFates(told2, st2)
    <2>1. told2 = ApplyInOrder(plan, ApplyInOrder(plan, base, more), {})
        BY DEF SchemaStateAt, DuringSubset
    <2>2. told2 = ApplyInOrder(plan, base, more)
        BY <2>1, InOrderNone
    <2>3. more \in SUBSET During(plan)
        OBVIOUS
    <2> HIDE DEF base, more, told2, st2
    <2>4. Decided(plan, base, more, told2)
        BY <1>0, <2>2, <2>3, InOrderDecided
    <2>. QED BY <1>6, <2>4, DecidedSame DEF SameFates
<1>. QED BY <1>1, <1>3, <1>4, <1>5, <1>6, <1>7 DEF Tells

\* The next after-migration commits.
LEMMA TellsAfter ==
    ASSUME NEW plan, IsPlan(plan), NEW pos, NEW pos2, NEW st,
           Tells(plan, pos, st), NEW i \in DOMAIN plan.migrations,
           \A j \in pos.after : j \in Int /\ j < i,
           pos2.during = pos.during, pos2.after = pos.after \cup {i}
    PROVE  Tells(plan, pos2, ApplyOne(st, plan.migrations[i]))
<1> DEFINE mid == ApplyInOrder(plan, BaseState(plan), pos.during)
           after == pos.after
           mig == plan.migrations[i]
           told == SchemaStateAt(plan, pos)
<1>1. SchemaStateAt(plan, pos2) = ApplyOne(told, mig)
    <2>1. told = ApplyInOrder(plan, mid, after)
        BY DEF SchemaStateAt, DuringSubset
    <2>2. SchemaStateAt(plan, pos2) = ApplyInOrder(plan, mid, after \cup {i})
        BY DEF SchemaStateAt, DuringSubset
    <2>3. ApplyInOrder(plan, mid, after \cup {i}) = ApplyOne(ApplyInOrder(plan, mid, after), mig)
        <3>1. \A j \in after : j \in Int /\ j < i
            OBVIOUS
        <3> HIDE DEF mid, after
        <3>. QED BY <3>1, InOrderLast
    <2>. QED BY <2>1, <2>2, <2>3
<1>2. /\ IsState(told) /\ IsState(st) /\ SameEvidence(told, st) /\ Ops(told) = Ops(st)
      /\ SameFates(told, st) /\ IsList(mig.operations)
    BY NodeFacts DEF Tells, IsPlan
<1> HIDE DEF told, mig
<1>3. /\ IsState(ApplyOne(st, mig))
      /\ SameEvidence(ApplyOne(told, mig), ApplyOne(st, mig))
      /\ Ops(ApplyOne(told, mig)) = Ops(ApplyOne(st, mig))
    BY <1>2, ApplyOneKeeps, ApplyOneSame, AddedOps
<1>4. pos2.after # {}
    OBVIOUS
<1>5. SameFates(ApplyOne(told, mig), ApplyOne(st, mig))
    BY <1>2, FateAlike DEF SameFates, IsState
<1>. QED BY <1>1, <1>3, <1>4, <1>5 DEF Tells, mig

\* The state of the database, one commit after the other.
LEMMA TrailSteps ==
    ASSUME NEW plan, NEW S, NEW trail \in Seq(S), NEW i \in S
    PROVE  /\ StateAfter(plan, <<>>) = BaseState(plan)
           /\ StateAfter(plan, Append(trail, i))
                 = ApplyOne(StateAfter(plan, trail), plan.migrations[i])
<1> DEFINE base == BaseState(plan)
           more == Append(trail, i)
<1>1. \A s : StateAfter(plan, s) = Trail!Fold(plan, 0, BaseState(plan), s)
    BY DEF StateAfter, Trail!Fold, FoldLeft, Trail!FoldLeft, MapThenFoldSet,
           Trail!MapThenFoldSet, Max, Trail!Max
<1>2. Trail!Fold(plan, 0, base, <<>>) = base
    <2> DEFINE s == <<>>
               f == Trail!Stages(plan, 0, base, s, 0)
    <2>1. DOMAIN s = 1 .. 0 /\ 0 \in Nat
        OBVIOUS
    <2> HIDE DEF base, s
    <2>2. Trail!Passes(f, plan, 0, base, s, 0)
        BY <2>1, Trail!FoldSteps
    <2>. QED BY <2>2 DEF Trail!Passes, s
<1>3. /\ Len(trail) \in Nat /\ DOMAIN trail = 1 .. Len(trail)
      /\ DOMAIN more = 1 .. Len(trail) + 1
      /\ more[Len(trail) + 1] = i
      /\ \A k \in 1 .. Len(trail) : more[k] = trail[k]
    OBVIOUS
<1>4. Trail!Fold(plan, 0, base, more)
         = ApplyOne(Trail!Fold(plan, 0, base, trail), plan.migrations[more[Len(trail) + 1]])
    <2> DEFINE n == Len(trail)
    <2> HIDE DEF base, more, n
    <2>1. n \in Nat /\ DOMAIN trail = 1 .. n /\ DOMAIN more = 1 .. n + 1
          /\ \A k \in 1 .. n : more[k] = trail[k]
        BY <1>3 DEF n
    <2>2. Trail!Fold(plan, 0, base, more)
             = ApplyOne(Trail!Fold(plan, 0, base, trail), plan.migrations[more[n + 1]])
        BY <2>1, Trail!FoldAppend
    <2>. QED BY <2>2 DEF n
<1>. QED BY <1>1, <1>2, <1>3, <1>4

-----------------------------------------------------------------------------
(* The graph.                                                              *)

\* The target is a node.
LEMMA TargetIsNode ==
    ASSUME NEW p, IsPlan(p)
    PROVE  TargetPosition(p) \in Positions(p)
<1> DEFINE done == [w \in Workloads(p) |-> LastStep]
<1>1. TargetPosition(p) = Position(done, During(p), After(p))
    BY DEF TargetPosition, RolloutComplete, Position
<1>2. CASE After(p) = {}
    <2>1. done \in [Workloads(p) -> Steps]
        BY DEF Steps, LastStep
    <2>. QED BY <1>1, <1>2, <2>1 DEF Positions
<1>3. CASE After(p) # {}
    <2> DEFINE m == Commit!Max(After(p))
               n == Len(p.migrations)
    <2>1. n \in Nat /\ After(p) \in SUBSET (1 .. n)
        BY DEF IsPlan, After, InPhase
    <2>2. m \in After(p) /\ \A y \in After(p) : y <= m
        <3> HIDE DEF n
        <3>. QED BY <1>3, <2>1, Commit!MaxOfSome
    <2>3. UpTo(p, m) = After(p)
        BY <2>2 DEF UpTo
    <2>4. TargetPosition(p) = [RolloutComplete(p) EXCEPT !.after = UpTo(p, m)]
        BY <2>3 DEF TargetPosition
    <2> HIDE DEF m
    <2>. QED BY <2>2, <2>4 DEF Positions, Chain
<1>. QED BY <1>2, <1>3

\* The graph has one node for every position.
NodeAt(p, pos) == RolloutState(p, pos, SchemaStateAt(p, pos))

\* What a node carries, from its position and its schema state.
LEMMA NodeAtFacts ==
    ASSUME NEW p, NEW pos
    PROVE  LET n == NodeAt(p, pos)
               st == SchemaStateAt(p, pos)
           IN  /\ n.at = pos /\ n.live = LiveSet(p, pos.steps)
               /\ n.schema = st.schema /\ n.committed = st.committed
               /\ n.indeterminate = st.indeterminate
BY DEF NodeAt, RolloutState

\* The graph has one node for every position.
LEMMA GraphNodes ==
    ASSUME NEW p, NEW pos \in Positions(p)
    PROVE  /\ NodeAt(p, pos) \in Build(p)
           /\ \A n \in Build(p) : n.at = pos => n = NodeAt(p, pos)
<1>1. NodeAt(p, pos) \in Build(p)
    BY DEF Build, NodeAt
<1>2. ASSUME NEW n \in Build(p), n.at = pos PROVE n = NodeAt(p, pos)
    <2>1. PICK q \in Positions(p) : n = NodeAt(p, q)
        BY DEF Build, NodeAt
    <2>2. q = pos
        BY <1>2, <2>1, NodeAtFacts
    <2>. QED BY <2>1, <2>2
<1>. QED BY <1>1, <1>2

-----------------------------------------------------------------------------
(* Which violation is shown.                                               *)

Events == INSTANCE FoldFacts WITH Op <- LAMBDA none, nothing, n, s : n + s

\* Every set of naturals has a least element.
LEMMA LeastOfSome ==
    ASSUME NEW S \in SUBSET Nat, S # {}
    PROVE  \E x \in S : \A y \in S : x <= y
<1>1. IsWellFoundedOn({q \in Nat \X Nat : q[1] < q[2]}, Nat)
    BY NatLessThanWellFounded DEF OpToRel
<1>2. PICK x \in S : \A y \in S : <<y, x>> \notin {q \in Nat \X Nat : q[1] < q[2]}
    BY <1>1, WFMin
<1>3. \A y \in S : ~(y < x)
    BY <1>2
<1>. QED BY <1>3

\* The number of events up to a position is a number.
LEMMA EventsAreCounted ==
    ASSUME NEW p, IsPlan(p), NEW pos \in Positions(p)
    PROVE  EventsTo(pos) \in Nat
<1> DEFINE k == Len(p.workloads)
           n == Len(p.migrations)
           steps == pos.steps
<1>1. /\ k \in Nat /\ n \in Nat /\ Workloads(p) = 1 .. k
      /\ During(p) \subseteq 1 .. n /\ After(p) \subseteq 1 .. n
    BY DEF IsPlan, Workloads, During, After, InPhase
<1>2. /\ steps \in [1 .. k -> Steps] /\ pos.during \subseteq During(p) /\ pos.after \subseteq After(p)
    BY <1>1, PositionFacts
<1>3. Cardinality(pos.during) \in Nat /\ Cardinality(pos.after) \in Nat
    <2>1. IsFiniteSet(1 .. n)
        BY <1>1, FS_Interval
    <2>2. pos.during \subseteq 1 .. n /\ pos.after \subseteq 1 .. n
        BY <1>1, <1>2
    <2>3. IsFiniteSet(pos.during) /\ IsFiniteSet(pos.after)
        BY <2>1, <2>2, FS_Subset
    <2>. QED BY <2>3, FS_CardinalityType
<1> DEFINE f == Events!Stages(0, 0, 0, steps, k)
           S == {j \in Nat : j <= k => f[j] \in Nat}
<1>4. Events!Passes(f, 0, 0, 0, steps, k)
    <2>1. DOMAIN steps = 1 .. k
        BY <1>2
    <2> HIDE DEF k, steps
    <2>. QED BY <2>1, <1>1, Events!FoldSteps
<1>5. /\ f[0] = 0 /\ f[k] = Events!Fold(0, 0, 0, steps)
      /\ \A j \in 1 .. k : f[j] = f[j - 1] + steps[j]
    <2> HIDE DEF f, k, steps
    <2>. QED BY <1>4 DEF Events!Passes
<1> HIDE DEF f, k, steps
<1>6. 0 \in S
    BY <1>5
<1>7. ASSUME NEW j \in Nat, j \in S PROVE j + 1 \in S
    <2> SUFFICES ASSUME j + 1 <= k PROVE f[j + 1] \in Nat
        OBVIOUS
    <2>1. f[j] \in Nat /\ j + 1 \in 1 .. k /\ (j + 1) - 1 = j
        BY <1>1, <1>7
    <2>2. f[j + 1] = f[j] + steps[j + 1] /\ steps[j + 1] \in Nat
        BY <2>1, <1>2, <1>5 DEF Steps, LastStep
    <2>. QED BY <2>1, <2>2
<1>8. f[k] \in Nat
    <2>1. k \in S
        <3> HIDE DEF S
        <3>. QED BY <1>1, <1>6, <1>7, Events!Induction
    <2>. QED BY <2>1, <1>1
<1>9. EventsTo(pos) = Events!Fold(0, 0, 0, pos.steps) + Cardinality(pos.during) + Cardinality(pos.after)
    BY DEF EventsTo, Events!Fold, FoldLeft, Events!FoldLeft, MapThenFoldSet, Events!MapThenFoldSet,
           Max, Events!Max
<1>. QED BY <1>3, <1>5, <1>8, <1>9 DEF steps

\* No two nodes of a graph share an ID.
LEMMA Numbered ==
    ASSUME NEW p, IsPlan(p)
    PROVE  \A m, n \in Build(p) : m.id \in Nat /\ (m.id = n.id => m = n)
<1> SUFFICES ASSUME NEW m \in Build(p), NEW n \in Build(p)
             PROVE  m.id \in Nat /\ (m.id = n.id => m = n)
    OBVIOUS
<1>1. PICK x \in Positions(p) : m = NodeAt(p, x)
    BY DEF Build, NodeAt
<1>2. PICK y \in Positions(p) : n = NodeAt(p, y)
    BY DEF Build, NodeAt
<1>3. m.id = NodeId(p, x) /\ n.id = NodeId(p, y)
    BY <1>1, <1>2 DEF NodeAt, RolloutState
<1>4. NodeId(p, x) \in Nat /\ (NodeId(p, x) = NodeId(p, y) => x = y)
    BY NodeNumbers
<1>. QED BY <1>1, <1>2, <1>3, <1>4

\* The node shortestByStateID picks is one of those it is given, and no other
\* is reached by fewer events.
LEMMA ShortestIsEarliest ==
    ASSUME NEW p, IsPlan(p), NEW nodes \in SUBSET Build(p), nodes # {}
    PROVE  /\ ShortestByStateID(nodes) \in nodes
           /\ \A m \in nodes : EventsTo(ShortestByStateID(nodes).at) <= EventsTo(m.at)
<1> DEFINE Best(n) == \A m \in nodes \ {n} :
                         \/ EventsTo(n.at) < EventsTo(m.at)
                         \/ EventsTo(n.at) = EventsTo(m.at) /\ n.id < m.id
           events == {EventsTo(m.at) : m \in nodes}
<1>1. \A m \in nodes : EventsTo(m.at) \in Nat
    <2> SUFFICES ASSUME NEW m \in nodes PROVE EventsTo(m.at) \in Nat
        OBVIOUS
    <2>1. PICK pos \in Positions(p) : m = NodeAt(p, pos)
        BY DEF Build, NodeAt
    <2>2. m.at = pos
        BY <2>1, NodeAtFacts
    <2>. QED BY <2>2, EventsAreCounted
<1>2. PICK e \in events : \A y \in events : e <= y
    <2>1. events \in SUBSET Nat /\ events # {}
        BY <1>1
    <2> HIDE DEF events
    <2>. QED BY <2>1, LeastOfSome
<1>3. \A m \in nodes : e <= EventsTo(m.at)
    BY <1>2
<1> DEFINE early == {m \in nodes : EventsTo(m.at) = e}
           ids == {m.id : m \in early}
<1>4. PICK k \in ids : \A y \in ids : k <= y
    <2>1. ids \in SUBSET Nat
        BY Numbered
    <2>2. ids # {}
        BY <1>2
    <2> HIDE DEF ids
    <2>. QED BY <2>1, <2>2, LeastOfSome
<1>5. PICK n \in early : n.id = k
    BY <1>4
<1>6. n \in nodes /\ Best(n)
    <2> SUFFICES ASSUME NEW m \in nodes, m # n
                 PROVE  \/ EventsTo(n.at) < EventsTo(m.at)
                        \/ EventsTo(n.at) = EventsTo(m.at) /\ n.id < m.id
        OBVIOUS
    <2>1. EventsTo(n.at) = e /\ EventsTo(m.at) \in Nat /\ e <= EventsTo(m.at) /\ e \in Nat
        BY <1>1, <1>2, <1>3, <1>5
    <2>2. ASSUME EventsTo(m.at) = e PROVE n.id < m.id
        <3>1. m \in early
            BY <2>2
        <3>2. k <= m.id
            BY <3>1, <1>4
        <3>3. m.id # n.id /\ m.id \in Nat /\ n.id \in Nat
            BY <1>5, Numbered
        <3>. QED BY <3>2, <3>3, <1>5
    <2>. QED BY <2>1, <2>2
<1> DEFINE best == ShortestByStateID(nodes)
<1>7. best \in nodes /\ Best(best)
    <2>1. best = CHOOSE x \in nodes : Best(x)
        BY DEF ShortestByStateID
    <2> HIDE DEF Best, best
    <2>. QED BY <2>1, <1>6
<1> HIDE DEF best
<1>8. ASSUME NEW m \in nodes PROVE EventsTo(best.at) <= EventsTo(m.at)
    <2>1. EventsTo(best.at) \in Nat /\ EventsTo(m.at) \in Nat
        BY <1>1, <1>7
    <2>2. CASE m = best
        BY <2>1, <2>2
    <2>3. CASE m # best
        BY <2>1, <2>3, <1>7
    <2>. QED BY <2>2, <2>3
<1>. QED BY <1>7, <1>8 DEF best

\* The counterexample of a diagnostic is at a node that violates it, and no
\* node that does is reached by fewer events.
LEMMA EarliestViolation ==
    ASSUME NEW p, IsPlan(p), NEW f,
           NEW s \in Diagnose({<<n, f[n]>> : n \in Build(p)}).counterexample
    PROVE  /\ \E n \in Build(p) : n.at = s.at /\ f[n].violations # {}
           /\ \A n \in Build(p) : f[n].violations # {} => EventsTo(s.at) <= EventsTo(n.at)
<1> DEFINE findings == {<<n, f[n]>> : n \in Build(p)}
           violating == {g[1] : g \in {h \in findings : h[2].violations # {}}}
           worst == {n \in Build(p) : f[n].violations # {}}
<1>1. violating = worst
    <2>1. ASSUME NEW n \in violating PROVE n \in worst
        <3>1. PICK g \in findings : g[2].violations # {} /\ n = g[1]
            BY <2>1
        <3>2. PICK m \in Build(p) : g = <<m, f[m]>>
            OBVIOUS
        <3>3. g[1] = m /\ g[2] = f[m]
            BY <3>2
        <3>. QED BY <3>1, <3>3
    <2>2. ASSUME NEW n \in worst PROVE n \in violating
        <3>1. <<n, f[n]>> \in findings
            BY <2>2
        <3>2. <<n, f[n]>>[1] = n /\ <<n, f[n]>>[2] = f[n]
            OBVIOUS
        <3>. QED BY <3>1, <3>2, <2>2
    <2>. QED BY <2>1, <2>2
<1>2. Diagnose(findings).counterexample
         = IF violating # {} THEN {ViolatingState(ShortestByStateID(violating))} ELSE {}
    BY DEF Diagnose, Diagnostic
<1>3. s \in Diagnose(findings).counterexample
    OBVIOUS
<1> HIDE DEF findings, violating
<1>4. worst # {} /\ s = ViolatingState(ShortestByStateID(worst))
    BY <1>1, <1>2, <1>3
<1>5. s.at = ShortestByStateID(worst).at
    BY <1>4 DEF ViolatingState
<1>6. /\ ShortestByStateID(worst) \in worst
      /\ \A m \in worst : EventsTo(ShortestByStateID(worst).at) <= EventsTo(m.at)
    <2>1. worst \in SUBSET Build(p)
        OBVIOUS
    <2> HIDE DEF worst
    <2>. QED BY <1>4, <2>1, ShortestIsEarliest
<1>. QED BY <1>5, <1>6
-----------------------------------------------------------------------------
(* One node.  What the absence of findings means, for every schema, every  *)
(* trail of committed operations, every live set and every catalogue of    *)
(* contracts.                                                              *)

\* Nothing was found, and nothing was missing.
Clean(finding) == finding.violations = {} /\ ~finding.gap

\* A clean existence check was made on a known schema with every contract.
LEMMA CleanExistence ==
    ASSUME NEW n, NEW services, NEW access, Clean(ColumnExistenceAt(n, services, access))
    PROVE  /\ ~n.indeterminate
           /\ \A lv \in n.live : HasContract(services, lv)
           /\ \A lv \in n.live : MissingColumns(n, services[lv], access) = {}
<1> DEFINE declared == {lv \in n.live : HasContract(services, lv)}
           missing == UNION {{lv} \X MissingColumns(n, services[lv], access) : lv \in declared}
<1>1. ~n.indeterminate
    BY DEF Clean, ColumnExistenceAt, Unless, Finding
<1>2. ColumnExistenceAt(n, services, access) = Finding(missing, declared # n.live)
    BY <1>1 DEF ColumnExistenceAt, Unless
<1>3. missing = {} /\ declared = n.live
    <2>. HIDE DEF missing, declared
    <2>1. Clean(Finding(missing, declared # n.live))
        BY <1>2
    <2>. QED BY <2>1 DEF Clean, Finding
<1>4. \A lv \in declared : {lv} \X MissingColumns(n, services[lv], access) \subseteq missing
    OBVIOUS
<1>5. \A lv \in declared : MissingColumns(n, services[lv], access) = {}
    <2> SUFFICES ASSUME NEW lv \in declared, NEW ref \in MissingColumns(n, services[lv], access)
                 PROVE  FALSE
        OBVIOUS
    <2>1. <<lv, ref>> \in missing BY <1>4
    <2>. QED BY <2>1, <1>3
<1>. QED BY <1>1, <1>3, <1>5

\* A clean check of a rename leaves no live version that uses an old name.
LEMMA CleanRename ==
    ASSUME NEW n, NEW services, ~n.indeterminate, Clean(RenameAt(n, services)),
           NEW lv \in n.live, NEW ref \in OldNames(n)
    PROVE  ~UsesColumn(services[lv], ref)
<1>1. Uses(n, services, OldNames(n)) = {} /\ ~Unmentioned(n, services, OldNames(n))
    BY DEF RenameAt, Unless, Clean, Finding
<1>2. <<lv, ref>> \in Mentioned(n, services, OldNames(n))
    BY <1>1 DEF Mentioned, Unmentioned
<1>. QED BY <1>1, <1>2 DEF Uses

\* RP-DB-001, 002 and 005 together: a column that is gone because it was
\* renamed is passed over by the first two and left to the third, and nothing
\* falls between them.  Where all three are clean, every column a live version
\* declares it reads or writes exists.
THEOREM EveryColumnExists ==
    ASSUME NEW n, NEW services,
           Clean(ColumnExistenceAt(n, services, "reads")),
           Clean(ColumnExistenceAt(n, services, "writes")),
           Clean(RenameAt(n, services))
    PROVE  \A lv \in n.live :
              /\ services[lv].reads \subseteq DOMAIN n.schema
              /\ services[lv].writes \subseteq DOMAIN n.schema
<1>1. ~n.indeterminate
    BY CleanExistence
<1>2. ASSUME NEW lv \in n.live, NEW ref, RenamedAway(n.committed, ref)
      PROVE  ~UsesColumn(services[lv], ref)
    <2>1. PICK i \in DOMAIN n.committed :
            n.committed[i].op.kind = "RenameColumn" /\ TargetColumn(n.committed[i].op) = ref
        BY <1>2 DEF RenamedAway, RemovingOps
    <2>2. n.committed[i] \in ToSet(n.committed)
        BY DEF ToSet
    <2>3. ref \in OldNames(n)
        BY <2>1, <2>2 DEF OldNames
    <2>. QED BY <1>1, <2>3, CleanRename
<1>3. ASSUME NEW lv \in n.live, NEW ref \in services[lv].reads
      PROVE  ref \in DOMAIN n.schema
    <2>1. MissingColumns(n, services[lv], "reads") = {}
        BY CleanExistence
    <2>2. UsesColumn(services[lv], ref)
        BY <1>3 DEF UsesColumn, ReadsColumn
    <2>3. services[lv]["reads"] = services[lv].reads
        OBVIOUS
    <2>. QED BY <1>2, <1>3, <2>1, <2>2, <2>3 DEF MissingColumns, HasColumn
<1>4. ASSUME NEW lv \in n.live, NEW ref \in services[lv].writes
      PROVE  ref \in DOMAIN n.schema
    <2>1. MissingColumns(n, services[lv], "writes") = {}
        BY CleanExistence
    <2>2. UsesColumn(services[lv], ref)
        BY <1>4 DEF UsesColumn, WritesColumn
    <2>3. services[lv]["writes"] = services[lv].writes
        OBVIOUS
    <2>. QED BY <1>2, <1>4, <2>1, <2>2, <2>3 DEF MissingColumns, HasColumn
<1>. QED BY <1>3, <1>4

\* RP-DB-004: where it is clean, every row a live version writes to a table
\* carries the columns the table requires.
THEOREM EveryWriteIsComplete ==
    ASSUME NEW n, NEW services, Clean(NotNullAt(n, services))
    PROVE  \A lv \in n.live, ref \in Required(n.schema) :
              WritesTable(services[lv], ref.table) => WritesColumn(services[lv], ref)
<1> DEFINE required == Required(n.schema)
           omitted == {p \in Mentioned(n, services, required) : OmitsColumn(services[p[1]], p[2])}
<1>1. ~n.indeterminate
    BY DEF Clean, NotNullAt, Unless, Finding
<1>2. omitted = {} /\ ~Unmentioned(n, services, required)
    <2>1. NotNullAt(n, services) = Finding(omitted, Unmentioned(n, services, required))
        BY <1>1 DEF NotNullAt, Unless
    <2>. HIDE DEF omitted, required
    <2>. QED BY <2>1 DEF Clean, Finding
<1>3. ASSUME NEW lv \in n.live, NEW ref \in required
      PROVE  ~OmitsColumn(services[lv], ref)
    <2>1. <<lv, ref>> \in Mentioned(n, services, required)
        BY <1>2 DEF Mentioned, Unmentioned
    <2>. QED BY <1>2, <2>1
<1>. QED BY <1>3 DEF OmitsColumn

\* RP-DB-003: where it is clean, no column a live version uses has changed its
\* type otherwise than by widening.
THEOREM EveryTypeStillFits ==
    ASSUME NEW n, NEW services, Clean(TypeCompatibilityAt(n, services)),
           NEW lv \in n.live, NEW cop \in ToSet(n.committed),
           cop.op.kind = "AlterColumnType", NonWidening(cop)
    PROVE  ~UsesColumn(services[lv], TargetColumn(cop.op))
<1> DEFINE retyped == {TargetColumn(c.op) : c \in {a \in Alterations(n) : NonWidening(a)}}
           some == \E c \in Alterations(n) : c.priorType = NoType
           ref == TargetColumn(cop.op)
<1>1. ~n.indeterminate
    BY DEF Clean, TypeCompatibilityAt, Unless, Finding
<1>2. Uses(n, services, retyped) = {} /\ ~Unmentioned(n, services, retyped)
    <2> DEFINE used == Uses(n, services, retyped)
               gap == Unmentioned(n, services, retyped) \/ some
    <2>1. TypeCompatibilityAt(n, services) = Finding(used, gap)
        BY <1>1 DEF TypeCompatibilityAt, Unless
    <2>2. used = {} /\ ~gap
        <3>. HIDE DEF used, gap
        <3>. QED BY <2>1 DEF Clean, Finding
    <2>. QED BY <2>2
<1>3. ref \in retyped
    BY DEF Alterations
<1> HIDE DEF retyped, ref
<1>4. <<lv, ref>> \in Mentioned(n, services, retyped)
    BY <1>2, <1>3 DEF Mentioned, Unmentioned
<1>5. ~UsesColumn(services[lv], ref)
    BY <1>2, <1>4 DEF Uses
<1>. QED BY <1>5 DEF ref

-----------------------------------------------------------------------------
(* Many findings, one diagnostic; many diagnostics, one verdict.           *)

\* A diagnostic of the shape the code builds, and a list of n of them.
IsDiagnostic(d) ==
    /\ d.verdict \in VerdictValues
    /\ d.rollback \in RollbackVerdictValues
    /\ d.advisory \in BOOLEAN
IsReport(diags, n) ==
    /\ IsList(diags) /\ Len(diags) = n
    /\ \A i \in 1 .. n : IsDiagnostic(diags[i])

\* What a diagnostic is made of.
LEMMA DiagnosticFacts ==
    ASSUME NEW verdict \in VerdictValues, NEW counterexample
    PROVE  /\ IsDiagnostic(Diagnostic(verdict, counterexample))
           /\ Diagnostic(verdict, counterexample).verdict = verdict
           /\ ~Diagnostic(verdict, counterexample).advisory
BY DEF IsDiagnostic, Diagnostic, RollbackVerdictValues, VerdictValues

\* A diagnostic is SAFE only if every node is clean.
LEMMA DiagnoseFacts ==
    ASSUME NEW findings
    PROVE  /\ IsDiagnostic(Diagnose(findings)) /\ ~Diagnose(findings).advisory
           /\ Diagnose(findings).verdict = "SAFE" => \A f \in findings : Clean(f[2])
<1> DEFINE violating == {f[1] : f \in {g \in findings : g[2].violations # {}}}
<1>1. CASE violating # {}
    <2>1. Diagnose(findings) = Diagnostic("UNSAFE", {ViolatingState(ShortestByStateID(violating))})
        BY <1>1 DEF Diagnose
    <2>2. "UNSAFE" \in VerdictValues
        BY DEF VerdictValues
    <2>. QED BY <2>1, <2>2, DiagnosticFacts
<1>2. CASE violating = {}
    <2> DEFINE verdict == IF \E f \in findings : f[2].gap THEN "UNKNOWN" ELSE "SAFE"
    <2>1. Diagnose(findings) = Diagnostic(verdict, {})
        BY <1>2 DEF Diagnose
    <2>2. verdict \in VerdictValues
        BY DEF VerdictValues
    <2>3. ASSUME verdict = "SAFE", NEW f \in findings PROVE Clean(f[2])
        <3>1. ~f[2].gap
            BY <2>3
        <3>2. f[2].violations = {}
            BY <1>2
        <3>. QED BY <3>1, <3>2 DEF Clean
    <2> HIDE DEF verdict
    <2>. QED BY <2>1, <2>2, <2>3, DiagnosticFacts
<1>. QED BY <1>1, <1>2

\* Two verdicts together are SAFE only if both are, and UNSAFE if either is.
LEMMA CombineFacts ==
    ASSUME NEW a \in VerdictValues, NEW b \in VerdictValues
    PROVE  /\ Combine(a, b) \in VerdictValues
           /\ Combine(a, b) = "SAFE" <=> a = "SAFE" /\ b = "SAFE"
           /\ Combine(a, b) = "UNSAFE" <=> a = "UNSAFE" \/ b = "UNSAFE"
BY DEF Combine, Dominance, VerdictValues

\* Folding verdicts, an advisory UNSAFE passed over or not.
Verdict == INSTANCE FoldFacts WITH
             Op <- LAMBDA pass, none, v, d :
                     IF pass /\ d.advisory /\ d.verdict = "UNSAFE"
                     THEN v ELSE Combine(v, d.verdict)

\* The folded verdict is SAFE exactly when every verdict that counts is, and
\* UNSAFE when any is.
LEMMA VerdictFold ==
    ASSUME NEW pass \in BOOLEAN, NEW n \in Nat, NEW diags, IsReport(diags, n)
    PROVE  LET v == Verdict!Fold(pass, 0, "SAFE", diags)
               Passed(d) == pass /\ d.advisory /\ d.verdict = "UNSAFE"
           IN  /\ v \in VerdictValues
               /\ v = "SAFE" <=> \A i \in 1 .. n : Passed(diags[i]) \/ diags[i].verdict = "SAFE"
               /\ v = "UNSAFE" <=>
                     \E i \in 1 .. n : ~Passed(diags[i]) /\ diags[i].verdict = "UNSAFE"
<1> DEFINE f == Verdict!Stages(pass, 0, "SAFE", diags, n)
           Passed(d) == pass /\ d.advisory /\ d.verdict = "UNSAFE"
           Fine(k) == /\ f[k] \in VerdictValues
                      /\ f[k] = "SAFE" <=>
                            \A i \in 1 .. k : Passed(diags[i]) \/ diags[i].verdict = "SAFE"
                      /\ f[k] = "UNSAFE" <=>
                            \E i \in 1 .. k : ~Passed(diags[i]) /\ diags[i].verdict = "UNSAFE"
           S == {k \in Nat : k <= n => Fine(k)}
<1>1. DOMAIN diags = 1 .. n /\ \A i \in 1 .. n : IsDiagnostic(diags[i])
    BY ListFacts DEF IsReport
<1> DEFINE start == "SAFE"
<1> HIDE DEF start
<1>2. Verdict!Passes(Verdict!Stages(pass, 0, start, diags, n), pass, 0, start, diags, n)
    BY <1>1, Verdict!FoldSteps
<1>3. Verdict!Passes(f, pass, 0, "SAFE", diags, n)
    BY <1>2 DEF start
<1> HIDE DEF f
<1>4. /\ f[0] = "SAFE" /\ f[n] = Verdict!Fold(pass, 0, "SAFE", diags)
      /\ \A k \in 1 .. n :
            f[k] = IF Passed(diags[k]) THEN f[k - 1] ELSE Combine(f[k - 1], diags[k].verdict)
    BY <1>3 DEF Verdict!Passes
<1> HIDE DEF Passed
<1>5. 0 \in S
    BY <1>4 DEF VerdictValues
<1>6. ASSUME NEW k \in Nat, k \in S PROVE k + 1 \in S
    <2> SUFFICES ASSUME k + 1 <= n PROVE Fine(k + 1)
        OBVIOUS
    <2>1. Fine(k) /\ k + 1 \in 1 .. n /\ (k + 1) - 1 = k
        BY <1>6
    <2>2. 1 .. k + 1 = (1 .. k) \cup {k + 1}
        OBVIOUS
    <2>3. diags[k + 1].verdict \in VerdictValues
        BY <1>1, <2>1 DEF IsDiagnostic
    <2>4. f[k + 1] = IF Passed(diags[k + 1]) THEN f[k] ELSE Combine(f[k], diags[k + 1].verdict)
        BY <1>4, <2>1
    <2>5. CASE Passed(diags[k + 1])
        BY <2>1, <2>2, <2>4, <2>5
    <2>6. CASE ~Passed(diags[k + 1])
        BY <2>1, <2>2, <2>3, <2>4, <2>6, CombineFacts
    <2>. QED BY <2>5, <2>6
<1>7. Fine(n)
    <2>1. n <= n
        OBVIOUS
    <2>2. n \in S
        <3> HIDE DEF S
        <3>. QED BY <1>5, <1>6, Verdict!Induction
    <2>. QED BY <2>1, <2>2
<1>. QED BY <1>4, <1>7 DEF Passed

\* The verdict of a rollout is SAFE only if every diagnostic that is not advisory is.
LEMMA AggregateFacts ==
    ASSUME NEW n \in Nat, NEW diags, IsReport(diags, n), Aggregate(diags) = "SAFE"
    PROVE  \A i \in 1 .. n : ~diags[i].advisory => diags[i].verdict = "SAFE"
<1>1. Aggregate(diags) = Verdict!Fold(TRUE, 0, "SAFE", diags)
    BY DEF Aggregate, Verdict!Fold, FoldLeft, Verdict!FoldLeft, MapThenFoldSet,
           Verdict!MapThenFoldSet, Max, Verdict!Max
<1>. QED BY <1>1, VerdictFold

\* What the verdict of a rollout says of its diagnostics.
LEMMA AggregateIs ==
    ASSUME NEW n \in Nat, NEW diags, IsReport(diags, n)
    PROVE  /\ Aggregate(diags) \in VerdictValues
           /\ Aggregate(diags) = "UNSAFE" <=>
                 \E i \in 1 .. n : ~diags[i].advisory /\ diags[i].verdict = "UNSAFE"
           /\ Aggregate(diags) = "SAFE" <=>
                 \A i \in 1 .. n :
                    (diags[i].advisory /\ diags[i].verdict = "UNSAFE") \/ diags[i].verdict = "SAFE"
<1> DEFINE v == Aggregate(diags)
           Passed(d) == d.advisory /\ d.verdict = "UNSAFE"
<1>1. v = Verdict!Fold(TRUE, 0, "SAFE", diags)
    BY DEF Aggregate, Verdict!Fold, FoldLeft, Verdict!FoldLeft, MapThenFoldSet,
           Verdict!MapThenFoldSet, Max, Verdict!Max
<1> HIDE DEF v
<1>2. /\ v \in VerdictValues
      /\ v = "SAFE" <=> \A i \in 1 .. n : Passed(diags[i]) \/ diags[i].verdict = "SAFE"
      /\ v = "UNSAFE" <=> \E i \in 1 .. n : ~Passed(diags[i]) /\ diags[i].verdict = "UNSAFE"
    BY <1>1, VerdictFold
<1>3. v = "UNSAFE" <=> \E i \in 1 .. n : ~diags[i].advisory /\ diags[i].verdict = "UNSAFE"
    BY <1>2
<1>. QED BY <1>2, <1>3 DEF v

\* Several diagnostics in one are SAFE only if each is.
LEMMA DominantFacts ==
    ASSUME NEW n \in Nat, NEW diags, IsReport(diags, n)
    PROVE  /\ IsDiagnostic(Dominant(diags)) /\ ~Dominant(diags).advisory
           /\ Dominant(diags).verdict = "SAFE" => \A i \in 1 .. n : diags[i].verdict = "SAFE"
<1> DEFINE v == Verdict!Fold(FALSE, 0, "SAFE", diags)
<1>1. Dominant(diags).verdict = v
    BY DEF Dominant, Diagnostic, Verdict!Fold, FoldLeft, Verdict!FoldLeft, MapThenFoldSet,
           Verdict!MapThenFoldSet, Max, Verdict!Max
<1>2. Dominant(diags).rollback = "UNKNOWN" /\ Dominant(diags).advisory = FALSE
    BY DEF Dominant, Diagnostic
<1>3. v \in VerdictValues /\ (v = "SAFE" => \A i \in 1 .. n : diags[i].verdict = "SAFE")
    BY VerdictFold
<1> HIDE DEF v
<1>. QED BY <1>1, <1>2, <1>3 DEF IsDiagnostic, RollbackVerdictValues, VerdictValues

-----------------------------------------------------------------------------
(* The report.                                                             *)

\* Three diagnostics are a report.
LEMMA ReportOf3 ==
    ASSUME NEW a, NEW b, NEW c,
           IsDiagnostic(a), IsDiagnostic(b), IsDiagnostic(c)
    PROVE  IsReport(<<a, b, c>>, 3)
<1> DEFINE s == <<a, b, c>>
<1>1. Len(s) = 3 /\ \A i \in 1 .. 3 : i = 1 \/ i = 2 \/ i = 3
    OBVIOUS
<1>2. IsList(s)
    BY DEF IsList, ToSet
<1>3. s[1] = a /\ s[2] = b /\ s[3] = c
    OBVIOUS
<1> HIDE DEF s
<1>4. IsReport(s, 3)
    BY <1>1, <1>2, <1>3 DEF IsReport
<1>. QED BY <1>4 DEF s

\* Four diagnostics are a report.
LEMMA ReportOf4 ==
    ASSUME NEW a, NEW b, NEW c, NEW d,
           IsDiagnostic(a), IsDiagnostic(b), IsDiagnostic(c), IsDiagnostic(d)
    PROVE  IsReport(<<a, b, c, d>>, 4)
<1> DEFINE s == <<a, b, c, d>>
<1>1. Len(s) = 4 /\ \A i \in 1 .. 4 : i = 1 \/ i = 2 \/ i = 3 \/ i = 4
    OBVIOUS
<1>2. IsList(s)
    BY DEF IsList, ToSet
<1>3. s[1] = a /\ s[2] = b /\ s[3] = c /\ s[4] = d
    OBVIOUS
<1> HIDE DEF s
<1>4. IsReport(s, 4)
    BY <1>1, <1>2, <1>3 DEF IsReport
<1>. QED BY <1>4 DEF s

\* Six diagnostics are a report.
LEMMA ReportOf6 ==
    ASSUME NEW a, NEW b, NEW c, NEW d, NEW e, NEW f,
           IsDiagnostic(a), IsDiagnostic(b), IsDiagnostic(c), IsDiagnostic(d),
           IsDiagnostic(e), IsDiagnostic(f)
    PROVE  IsReport(<<a, b, c, d, e, f>>, 6)
<1> DEFINE s == <<a, b, c, d, e, f>>
<1>1. Len(s) = 6 /\ \A i \in 1 .. 6 : i = 1 \/ i = 2 \/ i = 3 \/ i = 4 \/ i = 5 \/ i = 6
    OBVIOUS
<1>2. IsList(s)
    BY DEF IsList, ToSet
<1>3. s[1] = a /\ s[2] = b /\ s[3] = c /\ s[4] = d /\ s[5] = e /\ s[6] = f
    OBVIOUS
<1> HIDE DEF s
<1>4. IsReport(s, 6)
    BY <1>1, <1>2, <1>3 DEF IsReport
<1>. QED BY <1>4 DEF s

\* The column family: six diagnostics, none of them advisory.
LEMMA ColumnFamily ==
    ASSUME NEW p, NEW nodes, NEW services, NEW vacuous
    PROVE  LET d == EvaluateColumnFamily(p, nodes, services, vacuous)
           IN  IsReport(d, 6) /\ \A i \in 1 .. 6 : ~d[i].advisory
<1> DEFINE d == EvaluateColumnFamily(p, nodes, services, vacuous)
           Plain(x) == IsDiagnostic(x) /\ ~x.advisory
<1>0. \A c : Plain(Diagnostic("SAFE", c)) /\ Plain(Diagnostic("UNSAFE", c))
    BY DiagnosticFacts DEF VerdictValues
<1>1. /\ Plain(EvaluateColumnExistence(nodes, services, "reads", vacuous))
      /\ Plain(EvaluateColumnExistence(nodes, services, "writes", vacuous))
      /\ Plain(EvaluateNotNullIntroduction(nodes, services, vacuous))
    BY <1>0, DiagnoseFacts DEF EvaluateColumnExistence, EvaluateNotNullIntroduction
<1>2. /\ Plain(EvaluateTypeCompatibility(nodes, services))
      /\ Plain(EvaluateRenameWithoutCompatibility(nodes, services))
    BY DiagnoseFacts DEF EvaluateTypeCompatibility, EvaluateRenameWithoutCompatibility
<1>3. Plain(EvaluateExpandContractSequence(p, nodes))
    BY <1>0 DEF EvaluateExpandContractSequence
<1>4. IsReport(d, 6)
    BY <1>1, <1>2, <1>3, ReportOf6 DEF EvaluateColumnFamily
<1>5. \A i \in 1 .. 6 : i = 1 \/ i = 2 \/ i = 3 \/ i = 4 \/ i = 5 \/ i = 6
    OBVIOUS
<1>6. \A i \in 1 .. 6 : ~d[i].advisory
    BY <1>1, <1>2, <1>3, <1>5 DEF EvaluateColumnFamily
<1>. QED BY <1>4, <1>6

\* The five checks that look at a node.
CleanColumns(n, services) ==
    /\ Clean(ColumnExistenceAt(n, services, "reads"))
    /\ Clean(ColumnExistenceAt(n, services, "writes"))
    /\ Clean(TypeCompatibilityAt(n, services))
    /\ Clean(NotNullAt(n, services))
    /\ Clean(RenameAt(n, services))

\* Where the family is SAFE and not out of scope every node is clean.
LEMMA ColumnFamilySafe ==
    ASSUME NEW p, NEW nodes, NEW services, NEW vacuous \in BOOLEAN,
           vacuous => GraphHasAnyCommittedOp(nodes),
           \A i \in 1 .. 5 :
              EvaluateColumnFamily(p, nodes, services, vacuous)[i].verdict = "SAFE",
           NEW n \in nodes
    PROVE  CleanColumns(n, services)
<1> DEFINE d == EvaluateColumnFamily(p, nodes, services, vacuous)
           reads == {<<m, ColumnExistenceAt(m, services, "reads")>> : m \in nodes}
           writes == {<<m, ColumnExistenceAt(m, services, "writes")>> : m \in nodes}
           types == {<<m, TypeCompatibilityAt(m, services)>> : m \in nodes}
           nulls == {<<m, NotNullAt(m, services)>> : m \in nodes}
           renames == {<<m, RenameAt(m, services)>> : m \in nodes}
<1>1. /\ d[1] = Diagnose(reads) /\ d[2] = Diagnose(writes) /\ d[3] = Diagnose(types)
      /\ d[4] = Diagnose(nulls) /\ d[5] = Diagnose(renames)
    BY DEF EvaluateColumnFamily, EvaluateColumnExistence, EvaluateTypeCompatibility,
           EvaluateNotNullIntroduction, EvaluateRenameWithoutCompatibility
<1>2. /\ d[1].verdict = "SAFE" /\ d[2].verdict = "SAFE" /\ d[3].verdict = "SAFE"
      /\ d[4].verdict = "SAFE" /\ d[5].verdict = "SAFE"
    OBVIOUS
<1> HIDE DEF d
<1>3. /\ \A f \in reads : Clean(f[2])
      /\ \A f \in writes : Clean(f[2])
      /\ \A f \in types : Clean(f[2])
      /\ \A f \in nulls : Clean(f[2])
      /\ \A f \in renames : Clean(f[2])
    <2> HIDE DEF reads, writes, types, nulls, renames
    <2>. QED BY <1>1, <1>2, DiagnoseFacts
<1>4. /\ <<n, ColumnExistenceAt(n, services, "reads")>> \in reads
      /\ <<n, ColumnExistenceAt(n, services, "writes")>> \in writes
      /\ <<n, TypeCompatibilityAt(n, services)>> \in types
      /\ <<n, NotNullAt(n, services)>> \in nulls
      /\ <<n, RenameAt(n, services)>> \in renames
    OBVIOUS
<1> HIDE DEF reads, writes, types, nulls, renames
<1>5. \A a, b : <<a, b>>[2] = b
    OBVIOUS
<1>. QED BY <1>3, <1>4, <1>5 DEF CleanColumns

-----------------------------------------------------------------------------
(* The rollback diagnostics.                                               *)

\* The state a rollback is judged from is the node of the target.
LEMMA TargetStateIs ==
    ASSUME NEW p, IsPlan(p)
    PROVE  TargetState(p, Build(p)) = NodeAt(p, TargetPosition(p))
<1>1. TargetPosition(p) \in Positions(p)
    BY TargetIsNode
<1>2. /\ NodeAt(p, TargetPosition(p)) \in Build(p)
      /\ NodeAt(p, TargetPosition(p)).at = TargetPosition(p)
      /\ \A n \in Build(p) : n.at = TargetPosition(p) => n = NodeAt(p, TargetPosition(p))
    BY <1>1, GraphNodes, NodeAtFacts
<1>. QED BY <1>2 DEF TargetState

\* Two rollback verdicts together are SAFE, or no worse than conditional, only if both are.
LEMMA CombineRollbackFacts ==
    ASSUME NEW a \in RollbackVerdictValues, NEW b \in RollbackVerdictValues
    PROVE  /\ CombineRollback(a, b) \in RollbackVerdictValues
           /\ CombineRollback(a, b) = "SAFE" <=> a = "SAFE" /\ b = "SAFE"
           /\ CombineRollback(a, b) \in {"SAFE", "CONDITIONALLY_SAFE"}
                <=> /\ a \in {"SAFE", "CONDITIONALLY_SAFE"}
                    /\ b \in {"SAFE", "CONDITIONALLY_SAFE"}
BY DEF CombineRollback, RollbackDominance, RollbackVerdictValues, VerdictValues

\* What the classification of an operation against a contract says.
LEMMA RiskFacts ==
    ASSUME NEW cop, NEW svc
    PROVE  LET ref == TargetColumn(cop.op)
               risk == RollbackRisk(cop, svc)
           IN  /\ risk \in RollbackVerdictValues
               /\ risk = "SAFE" <=> TouchesTable(svc, ref.table) /\ ~UsesColumn(svc, ref)
               /\ risk \in {"SAFE", "CONDITIONALLY_SAFE"}
                    <=> /\ TouchesTable(svc, ref.table)
                        /\ UsesColumn(svc, ref) => Reversibility(cop.op) # "Irreversible"
<1> DEFINE ref == TargetColumn(cop.op)
<1>1. UsesColumn(svc, ref) => TouchesTable(svc, ref.table)
    BY DEF UsesColumn, ReadsColumn, WritesColumn, TouchesTable
<1> HIDE DEF ref
<1>2. /\ ~TouchesTable(svc, ref.table) => RollbackRisk(cop, svc) = "UNKNOWN"
      /\ TouchesTable(svc, ref.table) /\ ~UsesColumn(svc, ref) => RollbackRisk(cop, svc) = "SAFE"
      /\ UsesColumn(svc, ref) /\ Reversibility(cop.op) = "Irreversible"
            => RollbackRisk(cop, svc) = "UNSAFE"
      /\ UsesColumn(svc, ref) /\ Reversibility(cop.op) # "Irreversible"
            => RollbackRisk(cop, svc) = "CONDITIONALLY_SAFE"
    BY <1>1 DEF RollbackRisk, ref
<1>. QED BY <1>1, <1>2 DEF RollbackVerdictValues, VerdictValues, ref

Restore == INSTANCE FoldFacts WITH
             Op <- LAMBDA removals, svc, v, cop :
                     IF cop \in removals THEN CombineRollback(v, RollbackRisk(cop, svc)) ELSE v

\* The classification of a trail is as bad as its worst removal.
LEMMA EvaluateRollbackFacts ==
    ASSUME NEW committed, IsList(committed), NEW svc
    PROVE  LET v == EvaluateRollback(committed, svc)
               mild == {"SAFE", "CONDITIONALLY_SAFE"}
           IN  /\ v \in RollbackVerdictValues
               /\ v = "SAFE" <=> \A cop \in Removals(committed) : RollbackRisk(cop, svc) = "SAFE"
               /\ v \in mild <=> \A cop \in Removals(committed) : RollbackRisk(cop, svc) \in mild
<1> DEFINE n == Len(committed)
           removals == Removals(committed)
           mild == {"SAFE", "CONDITIONALLY_SAFE"}
           start == "SAFE"
           f == Restore!Stages(removals, svc, start, committed, n)
           Risk(i) == RollbackRisk(committed[i], svc)
           Fine(k) == /\ f[k] \in RollbackVerdictValues
                      /\ f[k] = "SAFE" <=>
                            \A i \in 1 .. k : committed[i] \in removals => Risk(i) = "SAFE"
                      /\ f[k] \in mild <=>
                            \A i \in 1 .. k : committed[i] \in removals => Risk(i) \in mild
           S == {k \in Nat : k <= n => Fine(k)}
<1>1. n \in Nat /\ DOMAIN committed = 1 .. n
    BY ListFacts
<1>2. Restore!Passes(f, removals, svc, start, committed, n)
    <2> HIDE DEF n, removals, start
    <2>. QED BY <1>1, Restore!FoldSteps
<1>3. EvaluateRollback(committed, svc) = Restore!Fold(removals, svc, start, committed)
    BY DEF EvaluateRollback, Restore!Fold, FoldLeft, Restore!FoldLeft, MapThenFoldSet,
           Restore!MapThenFoldSet, Max, Restore!Max
<1> HIDE DEF n, removals, f
<1>4. /\ f[0] = start /\ f[n] = Restore!Fold(removals, svc, start, committed)
      /\ \A k \in 1 .. n :
            f[k] = IF committed[k] \in removals THEN CombineRollback(f[k - 1], Risk(k))
                                                ELSE f[k - 1]
    BY <1>2 DEF Restore!Passes
<1>5. \A i \in 1 .. n : Risk(i) \in RollbackVerdictValues
    BY RiskFacts
<1> HIDE DEF Risk
<1>6. 0 \in S
    BY <1>4 DEF RollbackVerdictValues, VerdictValues
<1>7. ASSUME NEW k \in Nat, k \in S PROVE k + 1 \in S
    <2> SUFFICES ASSUME k + 1 <= n PROVE Fine(k + 1)
        OBVIOUS
    <2>1. Fine(k) /\ k + 1 \in 1 .. n /\ (k + 1) - 1 = k
        BY <1>7, <1>1
    <2>2. 1 .. k + 1 = (1 .. k) \cup {k + 1}
        OBVIOUS
    <2>3. f[k + 1] = IF committed[k + 1] \in removals THEN CombineRollback(f[k], Risk(k + 1))
                                                      ELSE f[k]
        BY <1>4, <2>1
    <2>4. CASE committed[k + 1] \in removals
        <3>1. Risk(k + 1) \in RollbackVerdictValues
            BY <1>5, <2>1
        <3>. QED BY <2>1, <2>2, <2>3, <2>4, <3>1, CombineRollbackFacts
    <2>5. CASE committed[k + 1] \notin removals
        BY <2>1, <2>2, <2>3, <2>5
    <2>. QED BY <2>4, <2>5
<1>8. Fine(n)
    <2>1. n <= n
        BY <1>1
    <2>2. n \in S
        <3> HIDE DEF S
        <3>. QED BY <1>1, <1>6, <1>7, Restore!Induction
    <2>. QED BY <2>1, <2>2
<1>9. /\ \A i \in 1 .. n : committed[i] \in ToSet(committed)
      /\ \A cop \in removals : \E i \in 1 .. n : cop = committed[i]
    BY <1>1 DEF ToSet, Removals, removals
<1>. QED BY <1>3, <1>4, <1>8, <1>9 DEF Risk, removals

\* RP-DB-007 is SAFE only with a contract, and only if nothing the target's trail
\* took away is used; it is SAFE where nothing was used at all.
LEMMA IrreversibleFacts ==
    ASSUME NEW target, NEW nodes, NEW services, NEW lv
    PROVE  LET d == EvaluateIrreversibleBeforeRollback(target, nodes, services, lv)
               svc == services[lv]
               removals == Removals(target.committed)
           IN  /\ IsDiagnostic(d) /\ ~d.advisory
               /\ d.verdict = "SAFE" =>
                     /\ HasContract(services, lv)
                     /\ \A cop \in removals :
                           /\ TouchesTable(svc, TargetColumn(cop.op).table)
                           /\ UsesColumn(svc, TargetColumn(cop.op))
                                 => Reversibility(cop.op) # "Irreversible"
               /\ /\ HasContract(services, lv)
                  /\ \A cop \in removals : /\ TouchesTable(svc, TargetColumn(cop.op).table)
                                           /\ ~UsesColumn(svc, TargetColumn(cop.op))
                  => d.verdict = "SAFE"
<1> DEFINE d == EvaluateIrreversibleBeforeRollback(target, nodes, services, lv)
           svc == services[lv]
           removals == Removals(target.committed)
           silent == {cop \in removals : ~TouchesTable(svc, TargetColumn(cop.op).table)}
           lost == {cop \in removals \ silent :
                       /\ UsesColumn(svc, TargetColumn(cop.op))
                       /\ \/ Reversibility(cop.op) = "Irreversible"
                          \/ /\ Reversibility(cop.op) = "ConditionallyReversible"
                             /\ AnyLiveVersionWritesColumn(nodes, services, TargetColumn(cop.op))}
<1>1. /\ ~HasContract(services, lv) => d = Diagnostic("UNKNOWN", {})
      /\ HasContract(services, lv) /\ lost # {} => d = Diagnostic("UNSAFE", {ViolatingState(target)})
      /\ HasContract(services, lv) /\ lost = {} /\ silent # {} => d = Diagnostic("UNKNOWN", {})
      /\ HasContract(services, lv) /\ lost = {} /\ silent = {} => d = Diagnostic("SAFE", {})
    BY DEF EvaluateIrreversibleBeforeRollback
<1> HIDE DEF d
<1>2. \A v \in VerdictValues : \A c : IsDiagnostic(Diagnostic(v, c)) /\ ~Diagnostic(v, c).advisory
                                    /\ Diagnostic(v, c).verdict = v
    BY DiagnosticFacts
<1>3. "UNKNOWN" \in VerdictValues /\ "UNSAFE" \in VerdictValues /\ "SAFE" \in VerdictValues
    BY DEF VerdictValues
<1>4. IsDiagnostic(d) /\ ~d.advisory
    <2> HIDE DEF lost, silent
    <2>. QED BY <1>1, <1>2, <1>3
<1>5. d.verdict = "SAFE" <=> HasContract(services, lv) /\ lost = {} /\ silent = {}
    <2> HIDE DEF lost, silent
    <2>. QED BY <1>1, <1>2, <1>3
<1>6. silent = {} <=> \A cop \in removals : TouchesTable(svc, TargetColumn(cop.op).table)
    OBVIOUS
<1>7. silent = {} /\ lost = {} =>
         \A cop \in removals : UsesColumn(svc, TargetColumn(cop.op))
                                  => Reversibility(cop.op) # "Irreversible"
    OBVIOUS
<1>8. (\A cop \in removals : ~UsesColumn(svc, TargetColumn(cop.op))) => lost = {}
    OBVIOUS
<1> HIDE DEF lost, silent, removals, svc
<1>. QED BY <1>4, <1>5, <1>6, <1>7, <1>8 DEF d, removals, svc

\* RP-ROLLBACK-002 is SAFE only if every node of the rollback's graph is clean.
LEMMA OldVersionFacts ==
    ASSUME NEW p, NEW services
    PROVE  LET d == EvaluateOldVersionAgainstCurrentSchema(p, services)
           IN  /\ IsDiagnostic(d) /\ ~d.advisory
               /\ d.verdict = "SAFE" =>
                     CanBuildRollback(p)
                     /\ \A n \in Build(BuildRollback(p)) : CleanColumns(n, services)
<1> DEFINE d == EvaluateOldVersionAgainstCurrentSchema(p, services)
           rb == BuildRollback(p)
           nodes == Build(rb)
           family == EvaluateColumnFamily(rb, nodes, services, FALSE)
<1>1. CASE ~CanBuildRollback(p)
    <2>1. d = Diagnostic("UNKNOWN", {})
        BY <1>1 DEF EvaluateOldVersionAgainstCurrentSchema
    <2>2. "UNKNOWN" \in VerdictValues /\ "UNKNOWN" # "SAFE"
        BY DEF VerdictValues
    <2> HIDE DEF d
    <2>3. IsDiagnostic(d) /\ ~d.advisory /\ d.verdict # "SAFE"
        BY <2>1, <2>2, DiagnosticFacts
    <2>. QED BY <2>3 DEF d
<1>2. CASE CanBuildRollback(p)
    <2>1. d = Dominant(family)
        BY <1>2 DEF EvaluateOldVersionAgainstCurrentSchema, RollbackFamily
    <2>2. IsReport(family, 6)
        <3> HIDE DEF rb, nodes
        <3>. QED BY ColumnFamily
    <2>3. /\ IsDiagnostic(d) /\ ~d.advisory
          /\ d.verdict = "SAFE" => \A i \in 1 .. 6 : family[i].verdict = "SAFE"
        <3> HIDE DEF d, family
        <3>. QED BY <2>1, <2>2, DominantFacts
    <2>4. ASSUME d.verdict = "SAFE", NEW n \in nodes PROVE CleanColumns(n, services)
        <3> HIDE DEF rb, nodes, d, family
        <3>1. \A i \in 1 .. 5 : family[i].verdict = "SAFE"
            BY <2>3, <2>4
        <3>2. \A i \in 1 .. 5 : EvaluateColumnFamily(rb, nodes, services, FALSE)[i].verdict = "SAFE"
            BY <3>1 DEF family
        <3>. QED BY <3>2, <2>4, ColumnFamilySafe
    <2> HIDE DEF d
    <2>. QED BY <1>2, <2>3, <2>4 DEF d
<1>. QED BY <1>1, <1>2

\* The version the rollback restores.
Restored(p) == CHOOSE lv \in RollbackVersions(p) : TRUE

\* The four rollback diagnostics of a plan that declares a target.
LEMMA RollbackTuple ==
    ASSUME NEW p, IsPlan(p), NEW services, p.rollback # {}
    PROVE  LET d == EvaluateRollbackPlan(p, Build(p), services)
               target == NodeAt(p, TargetPosition(p))
               lv == Restored(p)
               d1 == EvaluateIrreversibleBeforeRollback(target, Build(p), services, lv)
               d3 == EvaluateOldVersionAgainstCurrentSchema(p, services)
           IN  d = <<d1, d1, d3, EvaluateRollbackAggregate(target, services, lv, d1, d3)>>
<1>1. TargetState(p, Build(p)) = NodeAt(p, TargetPosition(p))
    BY TargetStateIs
<1>. QED BY <1>1 DEF EvaluateRollbackPlan, EvaluateRollbackTo, RollbackDiagnostics, Restored

\* The overall classification is of the right shape, and its verdict and its
\* rollback verdict agree on what is safe, whatever the second diagnostic says.
LEMMA RollbackOverallFacts ==
    ASSUME NEW target, IsList(target.committed), NEW nodes, NEW services, NEW lv,
           NEW d3, IsDiagnostic(d3)
    PROVE  LET d1 == EvaluateIrreversibleBeforeRollback(target, nodes, services, lv)
               d == EvaluateRollbackAggregate(target, services, lv, d1, d3)
           IN  /\ IsDiagnostic(d) /\ ~d.advisory
               /\ d.verdict = "SAFE" <=> d.rollback = "SAFE"
               /\ d.verdict = "SAFE" => d1.verdict = "SAFE" /\ d3.verdict = "SAFE"
<1> DEFINE d1 == EvaluateIrreversibleBeforeRollback(target, nodes, services, lv)
           svc == services[lv]
           removals == Removals(target.committed)
           scan == EvaluateRollback(target.committed, svc)
           rb == IF HasContract(services, lv) THEN CombineRollback(scan, d3.verdict) ELSE "UNKNOWN"
           overall == Combine(d1.verdict, d3.verdict)
           verdict == IF rb = "CONDITIONALLY_SAFE" /\ overall = "SAFE" THEN "UNKNOWN" ELSE overall
           d == EvaluateRollbackAggregate(target, services, lv, d1, d3)
           mild == {"SAFE", "CONDITIONALLY_SAFE"}
<1>1. d.verdict = verdict /\ d.rollback = rb /\ d.advisory = FALSE
    BY DEF EvaluateRollbackAggregate, Diagnostic, VerdictToRollback
<1>2. /\ IsDiagnostic(d1)
      /\ d1.verdict = "SAFE" =>
            /\ HasContract(services, lv)
            /\ \A cop \in removals :
                  /\ TouchesTable(svc, TargetColumn(cop.op).table)
                  /\ UsesColumn(svc, TargetColumn(cop.op)) => Reversibility(cop.op) # "Irreversible"
      /\ /\ HasContract(services, lv)
         /\ \A cop \in removals : /\ TouchesTable(svc, TargetColumn(cop.op).table)
                                  /\ ~UsesColumn(svc, TargetColumn(cop.op))
         => d1.verdict = "SAFE"
    BY IrreversibleFacts
<1>3. /\ scan \in RollbackVerdictValues
      /\ scan = "SAFE" <=> \A cop \in removals : RollbackRisk(cop, svc) = "SAFE"
      /\ scan \in mild <=> \A cop \in removals : RollbackRisk(cop, svc) \in mild
    BY EvaluateRollbackFacts
<1> HIDE DEF removals, svc, d1, scan, d
<1>4. \A cop \in removals :
         /\ RollbackRisk(cop, svc) = "SAFE" <=> /\ TouchesTable(svc, TargetColumn(cop.op).table)
                                                /\ ~UsesColumn(svc, TargetColumn(cop.op))
         /\ RollbackRisk(cop, svc) \in mild
              <=> /\ TouchesTable(svc, TargetColumn(cop.op).table)
                  /\ UsesColumn(svc, TargetColumn(cop.op)) => Reversibility(cop.op) # "Irreversible"
    BY RiskFacts
<1>5. d1.verdict = "SAFE" => HasContract(services, lv) /\ scan \in mild
    BY <1>2, <1>3, <1>4
<1>6. HasContract(services, lv) /\ scan = "SAFE" => d1.verdict = "SAFE"
    BY <1>2, <1>3, <1>4
<1>7. d1.verdict \in VerdictValues /\ d3.verdict \in VerdictValues
      /\ d3.verdict \in RollbackVerdictValues
    BY <1>2 DEF IsDiagnostic, VerdictValues, RollbackVerdictValues
<1>8. /\ overall \in VerdictValues
      /\ overall = "SAFE" <=> d1.verdict = "SAFE" /\ d3.verdict = "SAFE"
    BY <1>7, CombineFacts
<1>9. /\ rb \in RollbackVerdictValues
      /\ rb = "SAFE" <=> HasContract(services, lv) /\ scan = "SAFE" /\ d3.verdict = "SAFE"
      /\ rb \in mild <=> HasContract(services, lv) /\ scan \in mild /\ d3.verdict \in mild
    <2>1. "UNKNOWN" \in RollbackVerdictValues /\ "UNKNOWN" # "SAFE" /\ "UNKNOWN" \notin mild
        BY DEF RollbackVerdictValues, VerdictValues
    <2>2. HasContract(services, lv) =>
            /\ rb \in RollbackVerdictValues
            /\ rb = "SAFE" <=> scan = "SAFE" /\ d3.verdict = "SAFE"
            /\ rb \in mild <=> scan \in mild /\ d3.verdict \in mild
        BY <1>3, <1>7, CombineRollbackFacts
    <2> HIDE DEF mild
    <2>. QED BY <2>1, <2>2
<1> HIDE DEF overall, rb
<1>10. verdict \in VerdictValues /\ (verdict = "SAFE" => overall = "SAFE")
    BY <1>8 DEF VerdictValues
<1>11. verdict = "SAFE" => rb = "SAFE"
    <2> SUFFICES ASSUME verdict = "SAFE" PROVE rb = "SAFE"
        OBVIOUS
    <2>1. rb # "CONDITIONALLY_SAFE" /\ overall = "SAFE"
        OBVIOUS
    <2>2. rb \in mild
        BY <2>1, <1>5, <1>8, <1>9
    <2>. QED BY <2>1, <2>2
<1>12. rb = "SAFE" => verdict = "SAFE"
    BY <1>6, <1>8, <1>9
<1> HIDE DEF verdict
<1>13. IsDiagnostic(d) /\ ~d.advisory
    BY <1>1, <1>9, <1>10 DEF IsDiagnostic
<1>14. d.verdict = "SAFE" <=> d.rollback = "SAFE"
    BY <1>1, <1>11, <1>12
<1>15. d.verdict = "SAFE" => d1.verdict = "SAFE" /\ d3.verdict = "SAFE"
    BY <1>1, <1>8, <1>10
<1>. QED BY <1>13, <1>14, <1>15 DEF d, d1

\* What the four rollback diagnostics are worth: a list of four; where the plan
\* declares a target, the first is SAFE only if nothing irreversible happened to
\* what the restored version uses, the third only if the rollback's whole graph
\* is clean, and the last makes the same claim in both of its verdicts.
LEMMA RollbackReport ==
    ASSUME NEW p, IsPlan(p), NEW services
    PROVE  LET d == EvaluateRollbackPlan(p, Build(p), services)
               svc == services[Restored(p)]
           IN  /\ IsReport(d, 4) /\ \A i \in 1 .. 4 : ~d[i].advisory
               /\ p.rollback # {} => 
                     /\ d[4].verdict = "SAFE" <=> d[4].rollback = "SAFE"
                     /\ d[1].verdict = "SAFE" =>
                           /\ HasContract(services, Restored(p))
                           /\ \A cop \in Removals(SchemaStateAt(p, TargetPosition(p)).committed) :
                                 UsesColumn(svc, TargetColumn(cop.op))
                                    => Reversibility(cop.op) # "Irreversible"
                     /\ d[3].verdict = "SAFE" =>
                           /\ CanBuildRollback(p)
                           /\ \A n \in Build(BuildRollback(p)) : CleanColumns(n, services)
<1> DEFINE d == EvaluateRollbackPlan(p, Build(p), services)
           target == NodeAt(p, TargetPosition(p))
           told == SchemaStateAt(p, TargetPosition(p))
           lv == Restored(p)
           svc == services[lv]
           d1 == EvaluateIrreversibleBeforeRollback(target, Build(p), services, lv)
           d3 == EvaluateOldVersionAgainstCurrentSchema(p, services)
           d4 == EvaluateRollbackAggregate(target, services, lv, d1, d3)
<1>0. \A i \in 1 .. 4 : i = 1 \/ i = 2 \/ i = 3 \/ i = 4
    OBVIOUS
<1>1. CASE p.rollback = {}
    <2> DEFINE safe == Diagnostic("SAFE", {})
    <2>1. IsDiagnostic(safe) /\ ~safe.advisory
        BY DiagnosticFacts DEF VerdictValues
    <2>2. d = [i \in 1 .. 4 |-> safe]
        BY <1>1 DEF EvaluateRollbackPlan
    <2> HIDE DEF safe, d
    <2>3. d = <<safe, safe, safe, safe>>
        BY <2>2
    <2>4. IsReport(<<safe, safe, safe, safe>>, 4)
        BY <2>1, ReportOf4
    <2>5. \A i \in 1 .. 4 : d[i] = safe
        BY <2>2
    <2>6. IsReport(d, 4) /\ \A i \in 1 .. 4 : ~d[i].advisory
        BY <2>1, <2>3, <2>4, <2>5
    <2>. QED BY <1>1, <2>6 DEF d
<1>2. CASE p.rollback # {}
    <2>1. d = <<d1, d1, d3, d4>>
        BY <1>2, RollbackTuple
    <2>2. target.committed = told.committed /\ IsList(told.committed)
        <3>1. IsState(told)
            BY NodeFacts
        <3>. QED BY <3>1, NodeAtFacts DEF IsState
    <2>3. /\ IsDiagnostic(d1) /\ ~d1.advisory
          /\ d1.verdict = "SAFE" =>
               /\ HasContract(services, lv)
               /\ \A cop \in Removals(told.committed) :
                     UsesColumn(svc, TargetColumn(cop.op)) => Reversibility(cop.op) # "Irreversible"
        <3> HIDE DEF target, lv, told
        <3>1. LET nodes == Build(p)
              IN  /\ IsDiagnostic(d1) /\ ~d1.advisory
                  /\ d1.verdict = "SAFE" =>
                       /\ HasContract(services, lv)
                       /\ \A cop \in Removals(target.committed) :
                             UsesColumn(svc, TargetColumn(cop.op)) => Reversibility(cop.op) # "Irreversible"
            BY IrreversibleFacts
        <3>. QED BY <2>2, <3>1
    <2>4. /\ IsDiagnostic(d3) /\ ~d3.advisory
          /\ d3.verdict = "SAFE" =>
               CanBuildRollback(p) /\ \A n \in Build(BuildRollback(p)) : CleanColumns(n, services)
        BY OldVersionFacts
    <2>5. IsDiagnostic(d4) /\ ~d4.advisory /\ (d4.verdict = "SAFE" <=> d4.rollback = "SAFE")
        <3> HIDE DEF target, d3
        <3>1. IsList(target.committed)
            BY <2>2
        <3>. QED BY <3>1, <2>4, RollbackOverallFacts
    <2> HIDE DEF d, d1, d3, d4, target, told, svc, lv
    <2>6. IsReport(d, 4)
        BY <2>1, <2>3, <2>4, <2>5, ReportOf4
    <2>7. d[1] = d1 /\ d[2] = d1 /\ d[3] = d3 /\ d[4] = d4
        BY <2>1
    <2>8. \A i \in 1 .. 4 : ~d[i].advisory
        BY <1>0, <2>3, <2>4, <2>5, <2>7
    <2>9. /\ d[4].verdict = "SAFE" <=> d[4].rollback = "SAFE"
          /\ d[1].verdict = "SAFE" =>
               /\ HasContract(services, lv)
               /\ \A cop \in Removals(told.committed) :
                     UsesColumn(svc, TargetColumn(cop.op)) => Reversibility(cop.op) # "Irreversible"
          /\ d[3].verdict = "SAFE" =>
               CanBuildRollback(p) /\ \A n \in Build(BuildRollback(p)) : CleanColumns(n, services)
        BY <2>3, <2>4, <2>5, <2>7
    <2>. QED BY <2>6, <2>8, <2>9 DEF d, told, svc, lv
<1>. QED BY <1>1, <1>2

-----------------------------------------------------------------------------
(* The other families.                                                     *)

\* A list of diagnostics, and the one that aggregates them.
LEMMA AggregateReport ==
    ASSUME NEW n \in Nat, NEW s, IsReport(s, n)
    PROVE  /\ IsReport(WithAggregate(s), n + 1)
           /\ \A i \in 1 .. n : WithAggregate(s)[i] = s[i]
           /\ WithAggregate(s)[n + 1] = Dominant(s)
<1> DEFINE x == Dominant(s)
           S == ToSet(s) \cup {x}
           t == Append(s, x)
<1>0. WithAggregate(s) = t /\ IsDiagnostic(x)
    BY DominantFacts DEF WithAggregate
<1> HIDE DEF x
<1>1. /\ t \in Seq(S) /\ Len(t) = n + 1 /\ t[n + 1] = x
      /\ \A i \in 1 .. n : t[i] = s[i]
    <2>1. s \in Seq(S) /\ x \in S /\ Len(s) = n
        BY DEF IsReport, IsList
    <2> HIDE DEF S
    <2>. QED BY <2>1
<1>2. IsList(t)
    BY ListFacts DEF IsReport
<1> HIDE DEF t, S
<1>3. \A i \in 1 .. n + 1 : i \in 1 .. n \/ i = n + 1
    OBVIOUS
<1>4. \A i \in 1 .. n + 1 : IsDiagnostic(t[i])
    BY <1>0, <1>1, <1>3 DEF IsReport
<1>. QED BY <1>0, <1>1, <1>2, <1>4 DEF IsReport, x

Ways == {"Endpoint", "RequestField", "ResponseField"}

\* The API family: four diagnostics, and where the last is SAFE every node is
\* clean in each of the three ways a call can fail.
LEMMA ApiReport ==
    ASSUME NEW nodes, NEW services
    PROVE  LET d == EvaluateAPI(nodes, services)
           IN  /\ IsReport(d, 4) /\ \A i \in 1 .. 4 : ~d[i].advisory
               /\ AnyAPIUsageDeclared(services) /\ d[4].verdict = "SAFE" =>
                     \A n \in nodes, way \in Ways : Clean(ApiFinding(n, services, way))
<1> DEFINE d == EvaluateAPI(nodes, services)
           Findings(way) == {<<n, ApiFinding(n, services, way)>> : n \in nodes}
           a == DiagnoseAPI(nodes, services, "Endpoint")
           b == DiagnoseAPI(nodes, services, "RequestField")
           c == DiagnoseAPI(nodes, services, "ResponseField")
           three == <<a, b, c>>
           all == Dominant(three)
<1>0. \A i \in 1 .. 4 : i = 1 \/ i = 2 \/ i = 3 \/ i = 4
    OBVIOUS
<1>1. CASE ~AnyAPIUsageDeclared(services)
    <2> DEFINE safe == Diagnostic("SAFE", {})
    <2>1. IsDiagnostic(safe) /\ ~safe.advisory
        BY DiagnosticFacts DEF VerdictValues
    <2>2. d = [i \in 1 .. 4 |-> safe]
        BY <1>1 DEF EvaluateAPI
    <2> HIDE DEF safe, d
    <2>3. d = <<safe, safe, safe, safe>>
        BY <2>2
    <2>4. IsReport(<<safe, safe, safe, safe>>, 4)
        BY <2>1, ReportOf4
    <2>5. \A i \in 1 .. 4 : d[i] = safe
        BY <2>2
    <2>6. IsReport(d, 4) /\ \A i \in 1 .. 4 : ~d[i].advisory
        BY <2>1, <2>3, <2>4, <2>5
    <2>. QED BY <1>1, <2>6 DEF d
<1>2. CASE AnyAPIUsageDeclared(services)
    <2>1. d = WithAggregate(three)
        BY <1>2 DEF EvaluateAPI
    <2>2. \A way : DiagnoseAPI(nodes, services, way) = Diagnose(Findings(way))
        BY DEF DiagnoseAPI
    <2>3. \A way :
             /\ IsDiagnostic(DiagnoseAPI(nodes, services, way))
             /\ ~DiagnoseAPI(nodes, services, way).advisory
             /\ DiagnoseAPI(nodes, services, way).verdict = "SAFE" =>
                   \A f \in Findings(way) : Clean(f[2])
        <3> HIDE DEF Findings
        <3>. QED BY <2>2, DiagnoseFacts
    <2>4. ASSUME NEW way, DiagnoseAPI(nodes, services, way).verdict = "SAFE", NEW n \in nodes
          PROVE  Clean(ApiFinding(n, services, way))
        <3>1. <<n, ApiFinding(n, services, way)>> \in Findings(way)
            OBVIOUS
        <3>2. \A f \in Findings(way) : Clean(f[2])
            BY <2>3, <2>4
        <3> HIDE DEF Findings
        <3>3. Clean(<<n, ApiFinding(n, services, way)>>[2])
            BY <3>1, <3>2
        <3>. QED BY <3>3
    <2>5. /\ IsDiagnostic(a) /\ ~a.advisory
          /\ IsDiagnostic(b) /\ ~b.advisory
          /\ IsDiagnostic(c) /\ ~c.advisory
        BY <2>3
    <2>6. /\ a.verdict = "SAFE" => \A n \in nodes : Clean(ApiFinding(n, services, "Endpoint"))
          /\ b.verdict = "SAFE" => \A n \in nodes : Clean(ApiFinding(n, services, "RequestField"))
          /\ c.verdict = "SAFE" => \A n \in nodes : Clean(ApiFinding(n, services, "ResponseField"))
        BY <2>4
    <2> HIDE DEF a, b, c, d
    <2>7. IsReport(three, 3)
        BY <2>5, ReportOf3
    <2>8. three[1] = a /\ three[2] = b /\ three[3] = c
        OBVIOUS
    <2> HIDE DEF three
    <2>9. IsDiagnostic(all) /\ ~all.advisory
          /\ (all.verdict = "SAFE" => \A i \in 1 .. 3 : three[i].verdict = "SAFE")
        BY <2>7, DominantFacts
    <2> HIDE DEF all
    <2>10. IsReport(d, 4) /\ d[4] = all /\ \A i \in 1 .. 3 : d[i] = three[i]
        <3> DEFINE k == 3
        <3>1. k \in Nat /\ k + 1 = 4 /\ IsReport(three, k)
            BY <2>7
        <3> HIDE DEF k
        <3>2. IsReport(d, k + 1) /\ d[k + 1] = all /\ \A i \in 1 .. k : d[i] = three[i]
            BY <3>1, <2>1, AggregateReport DEF all
        <3>. QED BY <3>1, <3>2 DEF k
    <2>12. d[1] = a /\ d[2] = b /\ d[3] = c /\ d[4] = all
        <3>1. 1 \in 1 .. 3 /\ 2 \in 1 .. 3 /\ 3 \in 1 .. 3
            OBVIOUS
        <3>. QED BY <3>1, <2>8, <2>10
    <2>13. \A i \in 1 .. 4 : ~d[i].advisory
        BY <1>0, <2>5, <2>9, <2>12
    <2>14. ASSUME d[4].verdict = "SAFE", NEW n \in nodes, NEW way \in Ways
           PROVE  Clean(ApiFinding(n, services, way))
        <3>1. a.verdict = "SAFE" /\ b.verdict = "SAFE" /\ c.verdict = "SAFE"
            BY <2>8, <2>9, <2>12, <2>14
        <3>. QED BY <3>1, <2>6, <2>14 DEF Ways
    <2>. QED BY <2>10, <2>13, <2>14 DEF d
<1>. QED BY <1>1, <1>2

\* An advisory finding is a diagnostic too.
LEMMA AdvisoryFacts == IsDiagnostic(Advisory)
BY DEF Advisory, Diagnostic, IsDiagnostic, VerdictValues, RollbackVerdictValues

\* The order family: three diagnostics, only the last ever advisory; where the
\* first is SAFE and anything is declared every node is clean.
LEMMA OrderReport ==
    ASSUME NEW p, NEW nodes, NEW services
    PROVE  LET d == EvaluateOrder(p, nodes, services)
           IN  /\ IsReport(d, 3) /\ ~d[1].advisory /\ ~d[2].advisory
               /\ AnyDependencyDeclared(services) /\ d[1].verdict = "SAFE" =>
                     \A n \in nodes : Clean(OrderFinding(n, services))
<1> DEFINE d == EvaluateOrder(p, nodes, services)
           findings == {<<n, OrderFinding(n, services)>> : n \in nodes}
           scan == IF AnyDependencyDeclared(services)
                   THEN Diagnose(findings) ELSE Diagnostic("SAFE", {})
           phase == EvaluateMigrationPhaseOrdering(p)
<1>1. d = <<scan, scan, phase>>
    BY DEF EvaluateOrder
<1>2. IsDiagnostic(phase)
    BY AdvisoryFacts, DiagnosticFacts DEF EvaluateMigrationPhaseOrdering, VerdictValues
<1>3. /\ IsDiagnostic(scan) /\ ~scan.advisory
      /\ AnyDependencyDeclared(services) /\ scan.verdict = "SAFE" => \A f \in findings : Clean(f[2])
    <2>1. "SAFE" \in VerdictValues
        BY DEF VerdictValues
    <2> HIDE DEF findings
    <2>. QED BY <2>1, DiagnoseFacts, DiagnosticFacts
<1>4. ASSUME NEW n \in nodes, \A f \in findings : Clean(f[2]) PROVE Clean(OrderFinding(n, services))
    <2>1. <<n, OrderFinding(n, services)>> \in findings
        OBVIOUS
    <2> HIDE DEF findings
    <2>2. Clean(<<n, OrderFinding(n, services)>>[2])
        BY <2>1, <1>4
    <2>. QED BY <2>2
<1> HIDE DEF d, scan, phase, findings
<1>5. IsReport(<<scan, scan, phase>>, 3)
    BY <1>2, <1>3, ReportOf3
<1>6. d[1] = scan /\ d[2] = scan
    BY <1>1
<1>7. AnyDependencyDeclared(services) /\ d[1].verdict = "SAFE" =>
         \A n \in nodes : Clean(OrderFinding(n, services))
    BY <1>3, <1>4, <1>6
<1>8. IsReport(d, 3) /\ ~d[1].advisory /\ ~d[2].advisory
    BY <1>1, <1>3, <1>5, <1>6
<1>. QED BY <1>7, <1>8 DEF d

\* The Kubernetes family: four diagnostics; where the second or the third is
\* SAFE every node is clean of what it looks for.
LEMMA K8sReport ==
    ASSUME NEW p, NEW nodes, NEW diags, NEW k \in Nat, IsReport(diags, k)
    PROVE  LET d == EvaluateK8s(p, nodes, diags)
           IN  /\ IsReport(d, 4)
               /\ d[2].verdict = "SAFE" => \A n \in nodes : Clean(ReadinessFinding(n, p))
               /\ d[3].verdict = "SAFE" => \A n \in nodes : Clean(TerminationFinding(n, p))
<1> DEFINE d == EvaluateK8s(p, nodes, diags)
           ready == {<<n, ReadinessFinding(n, p)>> : n \in nodes}
           ended == {<<n, TerminationFinding(n, p)>> : n \in nodes}
           d1 == EvaluateCoexistenceIncompatibility(diags)
           d2 == EvaluateReadinessBeforeDependency(p, nodes)
           d3 == EvaluateTerminationConflict(p, nodes)
           d4 == EvaluateUnsafeCompatibilityWindow(p)
<1>1. d = <<d1, d2, d3, d4>> /\ d2 = Diagnose(ready) /\ d3 = Diagnose(ended)
    BY DEF EvaluateK8s, EvaluateReadinessBeforeDependency, EvaluateTerminationConflict
<1>2. \A c : IsDiagnostic(Diagnostic("SAFE", c)) /\ IsDiagnostic(Diagnostic("UNSAFE", c))
    BY DiagnosticFacts DEF VerdictValues
<1>3. IsDiagnostic(d1)
    BY <1>2 DEF EvaluateCoexistenceIncompatibility
<1>4. IsDiagnostic(d4)
    BY <1>2, AdvisoryFacts DEF EvaluateUnsafeCompatibilityWindow
<1>5. /\ IsDiagnostic(Diagnose(ready)) /\ IsDiagnostic(Diagnose(ended))
      /\ Diagnose(ready).verdict = "SAFE" => \A f \in ready : Clean(f[2])
      /\ Diagnose(ended).verdict = "SAFE" => \A f \in ended : Clean(f[2])
    <2> HIDE DEF ready, ended
    <2>. QED BY DiagnoseFacts
<1>6. ASSUME NEW n \in nodes
      PROVE  /\ (\A f \in ready : Clean(f[2])) => Clean(ReadinessFinding(n, p))
             /\ (\A f \in ended : Clean(f[2])) => Clean(TerminationFinding(n, p))
    <2>1. /\ <<n, ReadinessFinding(n, p)>> \in ready
          /\ <<n, TerminationFinding(n, p)>> \in ended
        OBVIOUS
    <2>2. \A a, b : <<a, b>>[2] = b
        OBVIOUS
    <2> HIDE DEF ready, ended
    <2>. QED BY <2>1, <2>2
<1> HIDE DEF d, d1, d2, d3, d4, ready, ended
<1>7. IsReport(<<d1, d2, d3, d4>>, 4)
    BY <1>1, <1>3, <1>4, <1>5, ReportOf4
<1>8. d[2] = d2 /\ d[3] = d3
    BY <1>1
<1>9. /\ d[2].verdict = "SAFE" => \A n \in nodes : Clean(ReadinessFinding(n, p))
      /\ d[3].verdict = "SAFE" => \A n \in nodes : Clean(TerminationFinding(n, p))
    BY <1>1, <1>5, <1>6, <1>8
<1>. QED BY <1>1, <1>7, <1>9 DEF d

-----------------------------------------------------------------------------
(* The whole report.                                                       *)

\* Two lists of diagnostics, one behind the other.
Join(s, t) == s \o t

\* One report behind the other is a report.
LEMMA JoinReports ==
    ASSUME NEW m \in Nat, NEW n \in Nat, NEW s, NEW t, IsReport(s, m), IsReport(t, n)
    PROVE  /\ IsReport(Join(s, t), m + n)
           /\ \A i \in 1 .. m : Join(s, t)[i] = s[i]
           /\ \A i \in 1 .. n : Join(s, t)[m + i] = t[i]
<1> DEFINE S == ToSet(s) \cup ToSet(t)
           u == s \o t
<1>1. s \in Seq(S) /\ t \in Seq(S) /\ Len(s) = m /\ Len(t) = n
    BY DEF IsReport, IsList
<1>2. /\ u \in Seq(S) /\ Len(u) = m + n
      /\ \A i \in 1 .. m : u[i] = s[i]
      /\ \A i \in 1 .. n : u[m + i] = t[i]
    <2> HIDE DEF S
    <2>. QED BY <1>1
<1>3. \A i \in 1 .. m + n : i \in 1 .. m \/ \E j \in 1 .. n : i = m + j
    <2> SUFFICES ASSUME NEW i \in 1 .. m + n, i \notin 1 .. m PROVE \E j \in 1 .. n : i = m + j
        OBVIOUS
    <2>1. i - m \in 1 .. n /\ i = m + (i - m)
        OBVIOUS
    <2>. QED BY <2>1
<1> HIDE DEF u
<1>4. \A i \in 1 .. m + n : IsDiagnostic(u[i])
    <2> SUFFICES ASSUME NEW i \in 1 .. m + n PROVE IsDiagnostic(u[i])
        OBVIOUS
    <2>1. CASE i \in 1 .. m
        BY <2>1, <1>2 DEF IsReport
    <2>2. CASE \E j \in 1 .. n : i = m + j
        BY <2>2, <1>2 DEF IsReport
    <2>. QED BY <2>1, <2>2, <1>3
<1>5. u \in Seq(ToSet(u))
    BY <1>2 DEF ToSet
<1>6. Join(s, t) = u
    BY DEF Join, u
<1>. QED BY <1>2, <1>4, <1>5, <1>6 DEF IsReport, IsList

\* Five lists of diagnostics in a row.
LEMMA FiveReports ==
    ASSUME NEW a, NEW b, NEW c, NEW d, NEW e, IsReport(a, 6), IsReport(b, 4), IsReport(c, 4),
           IsReport(d, 3), IsReport(e, 4)
    PROVE  LET r == Join(Join(Join(Join(a, b), c), d), e)
           IN  /\ IsReport(r, 21) /\ IsReport(Join(Join(Join(a, b), c), d), 17)
               /\ \A i \in 1 .. 6 : r[i] = a[i]
               /\ \A i \in 1 .. 4 : r[6 + i] = b[i] /\ r[10 + i] = c[i] /\ r[17 + i] = e[i]
               /\ \A i \in 1 .. 3 : r[14 + i] = d[i]
<1> DEFINE ab == Join(a, b)
           abc == Join(ab, c)
           abcd == Join(abc, d)
           r == Join(abcd, e)
<1>1. IsReport(ab, 10) /\ (\A i \in 1 .. 6 : ab[i] = a[i]) /\ \A i \in 1 .. 4 : ab[6 + i] = b[i]
    BY JoinReports
<1> HIDE DEF ab
<1>2. IsReport(abc, 14) /\ (\A i \in 1 .. 10 : abc[i] = ab[i]) /\ \A i \in 1 .. 4 : abc[10 + i] = c[i]
    BY <1>1, JoinReports
<1> HIDE DEF abc
<1>3. IsReport(abcd, 17) /\ (\A i \in 1 .. 14 : abcd[i] = abc[i]) /\ \A i \in 1 .. 3 : abcd[14 + i] = d[i]
    BY <1>2, JoinReports
<1> HIDE DEF abcd
<1>4. IsReport(r, 21) /\ (\A i \in 1 .. 17 : r[i] = abcd[i]) /\ \A i \in 1 .. 4 : r[17 + i] = e[i]
    BY <1>3, JoinReports
<1> HIDE DEF r
<1>5. \A i \in 1 .. 6 : r[i] = a[i]
    BY <1>1, <1>2, <1>3, <1>4
<1>6. ASSUME NEW i \in 1 .. 4 PROVE r[6 + i] = b[i]
    <2>1. 6 + i \in 1 .. 10 /\ 6 + i \in 1 .. 14 /\ 6 + i \in 1 .. 17
        OBVIOUS
    <2>. QED BY <2>1, <1>1, <1>2, <1>3, <1>4
<1>7. ASSUME NEW i \in 1 .. 4 PROVE r[10 + i] = c[i]
    <2>1. 10 + i \in 1 .. 14 /\ 10 + i \in 1 .. 17
        OBVIOUS
    <2>. QED BY <2>1, <1>2, <1>3, <1>4
<1>8. ASSUME NEW i \in 1 .. 3 PROVE r[14 + i] = d[i]
    <2>1. 14 + i \in 1 .. 17
        OBVIOUS
    <2>. QED BY <2>1, <1>3, <1>4
<1>. QED BY <1>3, <1>4, <1>5, <1>6, <1>7, <1>8 DEF r, abcd, abc, ab

\* Where each diagnostic stands in the report.
LEMMA RunReport ==
    ASSUME NEW p, IsPlan(p.plan)
    PROVE  LET r == Run(p)
               nodes == Build(p.plan)
               column == EvaluateColumnFamily(p.plan, nodes, p.services, TRUE)
               rollback == EvaluateRollbackPlan(p.plan, nodes, p.services)
               api == EvaluateAPI(nodes, p.services)
               order == EvaluateOrder(p.plan, nodes, p.services)
               k8s == EvaluateK8s(p.plan, nodes, BeforeK8s(p, nodes))
           IN  /\ IsReport(r, 21)
               /\ \A i \in 1 .. 6 : r[i] = column[i]
               /\ r[7] = rollback[1] /\ r[9] = rollback[3] /\ r[10] = rollback[4]
               /\ \A i \in 1 .. 4 : r[10 + i] = api[i]
               /\ r[14] = api[4] /\ r[15] = order[1]
               /\ r[19] = k8s[2] /\ r[20] = k8s[3]
               /\ \A i \in 1 .. 15 : ~r[i].advisory
               /\ \E k \in Nat : IsReport(BeforeK8s(p, nodes), k)
<1> DEFINE r == Run(p)
           nodes == Build(p.plan)
           column == EvaluateColumnFamily(p.plan, nodes, p.services, TRUE)
           rollback == EvaluateRollbackPlan(p.plan, nodes, p.services)
           api == EvaluateAPI(nodes, p.services)
           order == EvaluateOrder(p.plan, nodes, p.services)
           before == BeforeK8s(p, nodes)
           k8s == EvaluateK8s(p.plan, nodes, before)
<1>1. before = Join(Join(Join(column, rollback), api), order) /\ r = Join(before, k8s)
    BY DEF BeforeK8s, Run, Evaluate, WithK8s, Join
<1>2. IsReport(column, 6) /\ \A i \in 1 .. 6 : ~column[i].advisory
    BY ColumnFamily
<1>3. IsReport(rollback, 4) /\ \A i \in 1 .. 4 : ~rollback[i].advisory
    BY RollbackReport
<1>4. IsReport(api, 4) /\ \A i \in 1 .. 4 : ~api[i].advisory
    BY ApiReport
<1>5. IsReport(order, 3) /\ ~order[1].advisory /\ ~order[2].advisory
    BY OrderReport
<1> HIDE DEF column, rollback, api, order, nodes, r
<1>6. \E k \in Nat : IsReport(before, k)
    <2>1. IsReport(Join(Join(Join(column, rollback), api), order), 17)
        <3> DEFINE e == <<Advisory, Advisory, Advisory, Advisory>>
        <3>1. IsReport(e, 4)
            BY AdvisoryFacts, ReportOf4
        <3> HIDE DEF e
        <3>. QED BY <1>2, <1>3, <1>4, <1>5, <3>1, FiveReports
    <2>. QED BY <1>1, <2>1
<1> HIDE DEF before
<1>7. IsReport(k8s, 4)
    BY <1>6, K8sReport
<1> HIDE DEF k8s
<1>8. /\ IsReport(r, 21)
      /\ \A i \in 1 .. 6 : r[i] = column[i]
      /\ \A i \in 1 .. 4 : r[6 + i] = rollback[i] /\ r[10 + i] = api[i] /\ r[17 + i] = k8s[i]
      /\ \A i \in 1 .. 3 : r[14 + i] = order[i]
    BY <1>1, <1>2, <1>3, <1>4, <1>5, <1>7, FiveReports
<1>9. /\ r[7] = rollback[1] /\ r[8] = rollback[2] /\ r[9] = rollback[3] /\ r[10] = rollback[4]
      /\ r[11] = api[1] /\ r[12] = api[2] /\ r[13] = api[3] /\ r[14] = api[4]
      /\ r[15] = order[1] /\ r[19] = k8s[2] /\ r[20] = k8s[3]
    <2>1. \A i \in 1 .. 4 : r[6 + i] = rollback[i] /\ r[10 + i] = api[i] /\ r[17 + i] = k8s[i]
        BY <1>8
    <2>2. 1 \in 1 .. 4 /\ 2 \in 1 .. 4 /\ 3 \in 1 .. 4 /\ 4 \in 1 .. 4 /\ 1 \in 1 .. 3
        OBVIOUS
    <2>3. /\ 6 + 1 = 7 /\ 6 + 2 = 8 /\ 6 + 3 = 9 /\ 6 + 4 = 10
          /\ 10 + 1 = 11 /\ 10 + 2 = 12 /\ 10 + 3 = 13 /\ 10 + 4 = 14
          /\ 17 + 2 = 19 /\ 17 + 3 = 20 /\ 14 + 1 = 15
        OBVIOUS
    <2>4. r[6 + 1] = rollback[1] /\ r[6 + 2] = rollback[2] /\ r[6 + 3] = rollback[3]
          /\ r[6 + 4] = rollback[4]
        BY <2>1, <2>2
    <2>5. r[10 + 1] = api[1] /\ r[10 + 2] = api[2] /\ r[10 + 3] = api[3] /\ r[10 + 4] = api[4]
        BY <2>1, <2>2
    <2>6. r[17 + 2] = k8s[2] /\ r[17 + 3] = k8s[3] /\ r[14 + 1] = order[1]
        BY <1>8, <2>1, <2>2
    <2>. QED BY <2>3, <2>4, <2>5, <2>6
<1>10. ASSUME NEW i \in 1 .. 15 PROVE ~r[i].advisory
    <2>1. i \in 1 .. 6 \/ i = 7 \/ i = 8 \/ i = 9 \/ i = 10 \/ i = 11 \/ i = 12 \/ i = 13
          \/ i = 14 \/ i = 15
        OBVIOUS
    <2>2. 1 \in 1 .. 4 /\ 2 \in 1 .. 4 /\ 3 \in 1 .. 4 /\ 4 \in 1 .. 4
        OBVIOUS
    <2>. QED BY <2>1, <2>2, <1>2, <1>3, <1>4, <1>5, <1>8, <1>9
<1>. QED BY <1>6, <1>8, <1>9, <1>10 DEF r, column, rollback, api, order, k8s, nodes, before

\* What an aggregated verdict of SAFE says of each diagnostic.
LEMMA AggregateSafe ==
    ASSUME NEW p, IsPlan(p.plan), Aggregate(Run(p)) = "SAFE"
    PROVE  \A i \in 1 .. 15 : Run(p)[i].verdict = "SAFE"
<1> DEFINE r == Run(p)
<1>1. IsReport(r, 21) /\ \A i \in 1 .. 15 : ~r[i].advisory
    BY RunReport
<1> HIDE DEF r
<1>2. Aggregate(r) = "SAFE"
    BY DEF r
<1>3. \A i \in 1 .. 21 : ~r[i].advisory => r[i].verdict = "SAFE"
    BY <1>1, <1>2, AggregateFacts
<1>4. \A i \in 1 .. 15 : i \in 1 .. 21
    OBVIOUS
<1>5. \A i \in 1 .. 15 : r[i].verdict = "SAFE"
    BY <1>1, <1>3, <1>4
<1>. QED BY <1>5 DEF r

-----------------------------------------------------------------------------
(* A rollback carries no migrations, so every node of it tells the state   *)
(* it starts from.                                                         *)

\* Without migrations nothing is committed.
LEMMA NothingToCommit ==
    ASSUME NEW p, IsPlan(p), p.migrations = <<>>, NEW st, NEW committed
    PROVE  ApplyInOrder(p, st, committed) = st
<1>1. Len(p.migrations) = 0
    OBVIOUS
<1>. QED BY <1>1, InOrderSteps

\* The parts of a rollback plan; its history is the whole state it starts from.
LEMMA RollbackPlanFacts ==
    ASSUME NEW p, NEW st, IsState(st)
    PROVE  LET rb == RollbackPlan(p, st)
           IN  /\ IsPlan(rb) /\ rb.migrations = <<>> /\ rb.rollback = {}
               /\ During(rb) = {} /\ After(rb) = {} /\ Workloads(rb) = 1 .. 1
               /\ BaseState(rb) = st
               /\ \A pos : SchemaStateAt(rb, pos) = st
<1> DEFINE target == CHOOSE t \in p.rollback : TRUE
           change == [service |-> target.service,
                      from |-> p.workloads[1].to, to |-> target.to,
                      strategy |-> target.strategy, replicas |-> target.replicas]
           rb == RollbackPlan(p, st)
<1>1. rb = [base |-> st.schema, workloads |-> <<change>>, migrations |-> <<>>,
            rollback |-> {}, links |-> {},
            history |-> st.committed, unknown |-> st.indeterminate]
    BY DEF RollbackPlan
<1> HIDE DEF change, rb
<1>2. /\ rb.workloads = <<change>> /\ rb.migrations = <<>> /\ rb.rollback = {}
      /\ rb.base = st.schema /\ rb.history = st.committed /\ rb.unknown = st.indeterminate
    BY <1>1
<1>3. Len(rb.workloads) = 1 /\ DOMAIN rb.workloads = 1 .. 1
    BY <1>2
<1>4. Len(rb.migrations) = 0 /\ DOMAIN rb.migrations = 1 .. 0
    BY <1>2
<1>5. IsPlan(rb)
    BY <1>2, <1>3, <1>4 DEF IsPlan, IsState
<1>6. During(rb) = {} /\ After(rb) = {} /\ Workloads(rb) = 1 .. 1
    BY <1>3, <1>4 DEF During, After, InPhase, Workloads
<1>7. BaseState(rb) = st
    <2> DEFINE seed == SchemaState(rb.base, rb.history, FALSE)
    <2>1. ApplyInOrder(rb, seed, Before(rb)) = seed
        BY <1>2, <1>5, NothingToCommit
    <2>2. BaseState(rb) = [seed EXCEPT !.indeterminate = @ \/ rb.unknown]
        BY <2>1 DEF BaseState
    <2>3. BaseState(rb) = SchemaState(st.schema, st.committed, FALSE \/ st.indeterminate)
        BY <1>2, <2>2 DEF SchemaState
    <2>4. FALSE \/ st.indeterminate = st.indeterminate
        BY DEF IsState
    <2>. QED BY <2>3, <2>4 DEF IsState
<1>8. \A pos : SchemaStateAt(rb, pos) = st
    BY <1>2, <1>5, <1>7, NothingToCommit DEF SchemaStateAt, DuringSubset
<1>. QED BY <1>2, <1>5, <1>6, <1>7, <1>8 DEF rb

\* Two rollbacks of a plan differ in the state they start from only.
LEMMA RollbackPlansAlike ==
    ASSUME NEW p, NEW a, NEW b, IsState(a), IsState(b)
    PROVE  /\ Positions(RollbackPlan(p, a)) = Positions(RollbackPlan(p, b))
           /\ \A steps_ : LiveSet(RollbackPlan(p, a), steps_) = LiveSet(RollbackPlan(p, b), steps_)
<1> DEFINE x == RollbackPlan(p, a)
           y == RollbackPlan(p, b)
<1>1. x.workloads = y.workloads
    BY DEF RollbackPlan
<1>2. /\ During(x) = {} /\ After(x) = {} /\ Workloads(x) = 1 .. 1
      /\ During(y) = {} /\ After(y) = {} /\ Workloads(y) = 1 .. 1
    BY RollbackPlanFacts
<1> HIDE DEF x, y
<1>3. RolloutComplete(x) = RolloutComplete(y)
    BY <1>2 DEF RolloutComplete
<1>4. Chain(x) = {} /\ Chain(y) = {}
    BY <1>2 DEF Chain
<1>5. Positions(x) = Positions(y)
    BY <1>2, <1>4 DEF Positions
<1>6. \A steps_ : LiveSet(x, steps_) = LiveSet(y, steps_)
    BY <1>1, <1>2 DEF LiveSet
<1>. QED BY <1>5, <1>6 DEF x, y

-----------------------------------------------------------------------------
(* A plan that commits something.                                          *)

\* The operations of the before-migrations are on every node's trail.
LEMMA BaseOps ==
    ASSUME NEW p, IsPlan(p), NEW i \in Before(p)
    PROVE  ToSet(p.migrations[i].operations) \subseteq Ops(BaseState(p))
<1> DEFINE seed == SchemaState(p.base, p.history, FALSE)
           st == ApplyInOrder(p, seed, Before(p))
           OpsOf(k) == ToSet(p.migrations[k].operations)
<1>1. IsState(seed)
    BY DEF SchemaState, IsState, IsPlan
<1>2. /\ IsState(st)
      /\ Ops(st) = Ops(seed) \cup UNION {OpsOf(k) : k \in Before(p) \cap DOMAIN p.migrations}
    <2> HIDE DEF seed
    <2>. QED BY <1>1, InOrderKeeps
<1>3. BaseState(p) = [st EXCEPT !.indeterminate = @ \/ p.unknown]
    BY DEF BaseState
<1> HIDE DEF st, seed
<1>4. BaseState(p).committed = st.committed
    <2>1. st = SchemaState(st.schema, st.committed, st.indeterminate)
        BY <1>2 DEF IsState
    <2>. QED BY <1>3, <2>1 DEF SchemaState
<1>5. Ops(BaseState(p)) = Ops(st)
    BY <1>4 DEF Ops
<1>6. i \in Before(p) \cap DOMAIN p.migrations
    BY DEF Before, InPhase
<1>7. OpsOf(i) \subseteq UNION {OpsOf(k) : k \in Before(p) \cap DOMAIN p.migrations}
    <2> HIDE DEF OpsOf
    <2>. QED BY <1>6
<1>. QED BY <1>2, <1>5, <1>7

\* A plan that commits anything has a node with a trail.
LEMMA SomethingCommitted ==
    ASSUME NEW p, IsPlan(p), ValidPlan(p), NEW m \in ToSet(p.migrations), m.operations # <<>>
    PROVE  GraphHasAnyCommittedOp(Build(p))
<1> DEFINE end == TargetPosition(p)
           told == SchemaStateAt(p, end)
           OpsOf(k) == ToSet(p.migrations[k].operations)
<1>1. PICK i \in DOMAIN p.migrations : m = p.migrations[i]
    BY DEF ToSet
<1>2. PICK op : op \in OpsOf(i)
    <2> DEFINE s == m.operations
    <2>1. s \in Seq(ToSet(s)) /\ s # <<>>
        BY <1>1 DEF IsPlan, IsList
    <2> HIDE DEF s
    <2>2. s[1] \in ToSet(s)
        BY <2>1 DEF ToSet
    <2>. QED BY <1>1, <2>2 DEF s
<1>3. i \in Before(p) \/ i \in During(p) \cup After(p)
    BY DEF ValidPlan, Phases, Before, During, After, InPhase
<1>4. end.during = During(p) /\ end.after = After(p)
    BY DEF TargetPosition, RolloutComplete, Position
<1>5. Ops(told) = Ops(BaseState(p)) \cup UNION {OpsOf(k) : k \in (end.during \cup end.after) \cap DOMAIN p.migrations}
    BY NodeFacts
<1>6. op \in Ops(told)
    <2>1. CASE i \in Before(p)
        BY <2>1, <1>2, <1>5, BaseOps
    <2>2. CASE i \in During(p) \cup After(p)
        <3>1. i \in (end.during \cup end.after) \cap DOMAIN p.migrations
            BY <1>4, <2>2
        <3> HIDE DEF OpsOf, end, told
        <3>. QED BY <1>2, <1>5, <3>1
    <2>. QED BY <1>3, <2>1, <2>2
<1>7. told.committed # <<>>
    BY <1>6 DEF Ops, ToSet
<1>8. NodeAt(p, end) \in Build(p) /\ NodeAt(p, end).committed = told.committed
    BY TargetIsNode, GraphNodes, NodeAtFacts
<1>. QED BY <1>7, <1>8 DEF GraphHasAnyCommittedOp
=============================================================================
