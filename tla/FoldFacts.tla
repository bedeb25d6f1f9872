----------------------------- MODULE FoldFacts -----------------------------
(***************************************************************************)
(* A fold over a list, followed prefix by prefix.  FoldLeft is defined by  *)
(* a choice among functions on sets of positions; a function of that kind  *)
(* exists for every length (FoldsExists), so the fold passes through one   *)
(* value for every prefix, each one application of Op from the one before  *)
(* (FoldSteps), and what an invariant of Op says of a fold follows by      *)
(* induction on the prefix.  Op is the function folded, with two values it *)
(* may depend on beside the result so far and the element.                 *)
(***************************************************************************)
EXTENDS Integers, Sequences, SequencesExt, WellFoundedInduction, NaturalsInduction, TLAPS

CONSTANT Op(_, _, _, _)

Fold(c, d, base, seq) == FoldLeft(LAMBDA s, x : Op(c, d, s, x), base, seq)

\* Induction over the natural numbers, for a set instead of a predicate.
LEMMA Induction ==
    ASSUME NEW S, 0 \in S, \A n \in Nat : n \in S => n + 1 \in S
    PROVE  Nat \subseteq S
<1> DEFINE T == Nat \ S
<1>1. SUFFICES ASSUME T # {} PROVE FALSE
    OBVIOUS
<1>2. IsWellFoundedOn({p \in Nat \X Nat : p[1] < p[2]}, Nat)
    BY NatLessThanWellFounded DEF OpToRel
<1>3. PICK x \in T : \A y \in T : <<y, x>> \notin {p \in Nat \X Nat : p[1] < p[2]}
    BY <1>1, <1>2, WFMin
<1>4. x \in Nat /\ x # 0
    OBVIOUS
<1>5. x - 1 \in Nat /\ x - 1 < x /\ x = (x - 1) + 1
    BY <1>4
<1>6. x - 1 \in S
    BY <1>3, <1>4, <1>5
<1>. QED BY <1>5, <1>6

\* The function FoldLeft is defined by.
Folds(f, c, d, base, seq, k) ==
    f = [s \in SUBSET (1 .. k) |->
            IF s = {} THEN base ELSE Op(c, d, f[s \ {Max(s)}], seq[Max(s)])]

\* A nonempty set of positions has a last one.
LEMMA MaxOfSome ==
    ASSUME NEW k \in Nat, NEW s \in SUBSET (1 .. k), s # {}
    PROVE  Max(s) \in s /\ \A y \in s : y <= Max(s)
<1> DEFINE T == {x \in Nat : \E y \in s : x = k - y}
<1>1. IsWellFoundedOn({p \in Nat \X Nat : p[1] < p[2]}, Nat)
    BY NatLessThanWellFounded DEF OpToRel
<1>2. T \subseteq Nat /\ T # {}
    <2>1. PICK y \in s : TRUE
        OBVIOUS
    <2>2. k - y \in Nat
        OBVIOUS
    <2>. QED BY <2>2
<1>3. PICK x \in T : \A y \in T : <<y, x>> \notin {p \in Nat \X Nat : p[1] < p[2]}
    BY <1>1, <1>2, WFMin
<1>4. PICK m \in s : x = k - m
    OBVIOUS
<1>5. ASSUME NEW y \in s PROVE m >= y
    <2>1. k - y \in T /\ k - y \in Nat /\ x \in Nat
        OBVIOUS
    <2>2. ~(k - y < x)
        BY <2>1, <1>3
    <2>. QED BY <1>4, <2>2
<1>6. \E z \in s : \A y \in s : z >= y
    BY <1>5
<1>7. Max(s) \in s /\ \A y \in s : Max(s) >= y
    BY <1>6 DEF Max
<1>8. s \subseteq Int
   OBVIOUS
<1>. QED BY <1>7, <1>8

\* A function of the kind FoldLeft chooses exists, for every length.
LEMMA FoldsExists ==
    ASSUME NEW c, NEW d, NEW base, NEW seq
    PROVE  \A k \in Nat : \E f : Folds(f, c, d, base, seq, k)
<1> DEFINE S == {k \in Nat : \E f : Folds(f, c, d, base, seq, k)}
<1>1. 0 \in S
    <2> DEFINE f == [s \in SUBSET (1 .. 0) |-> base]
    <2>1. \A s \in SUBSET (1 .. 0) : s = {}
        OBVIOUS
    <2>2. Folds(f, c, d, base, seq, 0)
        BY <2>1 DEF Folds
    <2>. QED BY <2>2
<1>2. ASSUME NEW k \in Nat, k \in S PROVE k + 1 \in S
    <2>1. PICK f : Folds(f, c, d, base, seq, k)
        BY <1>2
    <2> DEFINE g == [s \in SUBSET (1 .. k + 1) |->
                       IF k + 1 \in s THEN Op(c, d, f[s \ {k + 1}], seq[k + 1]) ELSE f[s]]
    <2>2. ASSUME NEW s \in SUBSET (1 .. k + 1)
          PROVE  g[s] = IF s = {} THEN base ELSE Op(c, d, g[s \ {Max(s)}], seq[Max(s)])
        <3>1. CASE k + 1 \in s
            <4>1. Max(s) \in s /\ \A y \in s : y <= Max(s)
                <5>1. k + 1 \in Nat /\ s # {} BY <3>1
                <5>. QED BY <5>1, MaxOfSome
            <4>2. Max(s) = k + 1
                <5>1. Max(s) \in 1 .. k + 1 /\ k + 1 <= Max(s)
                    BY <4>1, <3>1
                <5>. QED BY <5>1
            <4>3. s \ {k + 1} \in SUBSET (1 .. k)
                OBVIOUS
            <4>4. s \ {k + 1} \in SUBSET (1 .. k + 1) /\ k + 1 \notin s \ {k + 1}
                OBVIOUS
            <4>5. g[s \ {k + 1}] = f[s \ {k + 1}]
                BY <4>4
            <4>. QED BY <4>2, <4>5, <3>1
        <3>2. CASE k + 1 \notin s
            <4>1. s \in SUBSET (1 .. k) /\ g[s] = f[s]
                BY <3>2
            <4>2. CASE s = {}
                BY <4>1, <4>2, <2>1 DEF Folds
            <4>3. CASE s # {}
                <5>1. Max(s) \in s
                    BY <4>1, <4>3, MaxOfSome
                <5>2. /\ s \ {Max(s)} \in SUBSET (1 .. k + 1) /\ k + 1 \notin s \ {Max(s)}
                    BY <3>2
                <5>3. g[s \ {Max(s)}] = f[s \ {Max(s)}]
                    BY <5>2
                <5>4. f[s] = Op(c, d, f[s \ {Max(s)}], seq[Max(s)])
                    BY <4>1, <4>3, <2>1 DEF Folds
                <5>. QED BY <4>1, <4>3, <5>3, <5>4
            <4>. QED BY <4>2, <4>3
        <3>. QED BY <3>1, <3>2
    <2>3. Folds(g, c, d, base, seq, k + 1)
        <3>1. g = [s \in SUBSET (1 .. k + 1) |-> g[s]]
            OBVIOUS
        <3> HIDE DEF g
        <3>. QED BY <2>2, <3>1 DEF Folds
    <2>. QED BY <2>3
<1>. QED BY <1>1, <1>2, Induction

\* f goes through the values of a fold, one for every prefix.
Passes(f, c, d, base, seq, n) ==
    /\ f[0] = base
    /\ f[n] = Fold(c, d, base, seq)
    /\ \A k \in 1 .. n : f[k] = Op(c, d, f[k - 1], seq[k])
Stages(c, d, base, seq, n) == CHOOSE f : Passes(f, c, d, base, seq, n)

\* A fold passes through a value for every prefix.
THEOREM FoldSteps ==
    ASSUME NEW c, NEW d, NEW base, NEW n \in Nat, NEW seq, DOMAIN seq = 1 .. n
    PROVE  Passes(Stages(c, d, base, seq, n), c, d, base, seq, n)
<1> DEFINE iter == CHOOSE iter :
              iter = [s \in SUBSET DOMAIN seq |->
                        IF s = {} THEN base ELSE Op(c, d, iter[s \ {Max(s)}], seq[Max(s)])]
<1>1. Fold(c, d, base, seq) = iter[DOMAIN seq]
    BY DEF Fold, FoldLeft, MapThenFoldSet
<1>2. Folds(iter, c, d, base, seq, n)
    <2>1. \E f : Folds(f, c, d, base, seq, n)
        BY FoldsExists
    <2>. QED BY <2>1 DEF Folds
<1> HIDE DEF iter
<1> DEFINE f == [k \in 0 .. n |-> iter[1 .. k]]
<1>3. f[0] = base
    <2>1. 1 .. 0 = {} /\ {} \in SUBSET (1 .. n) /\ 0 \in 0 .. n
        OBVIOUS
    <2>. QED BY <2>1, <1>2 DEF Folds
<1>4. f[n] = Fold(c, d, base, seq)
    BY <1>1
<1>5. ASSUME NEW k \in 1 .. n PROVE f[k] = Op(c, d, f[k - 1], seq[k])
    <2>0. k \in Nat /\ k \in 0 .. n /\ k - 1 \in 0 .. n /\ k \in 1 .. k
        OBVIOUS
    <2>1. 1 .. k \in SUBSET (1 .. n) /\ 1 .. k # {}
        BY <2>0
    <2>2. Max(1 .. k) = k
        <3>1. Max(1 .. k) \in 1 .. k /\ \A y \in 1 .. k : y <= Max(1 .. k)
            BY <2>0, <2>1, MaxOfSome
        <3>2. k \in 1 .. k
            OBVIOUS
        <3>. QED BY <3>1, <3>2
    <2>3. (1 .. k) \ {k} = 1 .. k - 1
        OBVIOUS
    <2>4. iter[1 .. k] = Op(c, d, iter[(1 .. k) \ {Max(1 .. k)}], seq[Max(1 .. k)])
        BY <2>1, <1>2 DEF Folds
    <2>. QED BY <2>0, <2>1, <2>2, <2>3, <2>4
<1>6. Passes(f, c, d, base, seq, n)
    <2> HIDE DEF f
    <2>. QED BY <1>3, <1>4, <1>5 DEF Passes
<1>. QED BY <1>6 DEF Stages, Passes

\* One element more is one step more.
THEOREM FoldAppend ==
    ASSUME NEW c, NEW d, NEW base, NEW n \in Nat, NEW seq, NEW more,
           DOMAIN seq = 1 .. n, DOMAIN more = 1 .. n + 1,
           \A k \in 1 .. n : more[k] = seq[k]
    PROVE  Fold(c, d, base, more) = Op(c, d, Fold(c, d, base, seq), more[n + 1])
<1> DEFINE f == Stages(c, d, base, seq, n)
           g == Stages(c, d, base, more, n + 1)
<1> HIDE DEF f, g
<1>1. /\ f[0] = base /\ f[n] = Fold(c, d, base, seq)
      /\ \A k \in 1 .. n : f[k] = Op(c, d, f[k - 1], seq[k])
    <2>1. Passes(f, c, d, base, seq, n)
        BY FoldSteps DEF f
    <2>. QED BY <2>1 DEF Passes
<1>2. /\ g[0] = base /\ g[n + 1] = Fold(c, d, base, more)
      /\ \A k \in 1 .. n + 1 : g[k] = Op(c, d, g[k - 1], more[k])
    <2>1. n + 1 \in Nat OBVIOUS
    <2>2. Passes(g, c, d, base, more, n + 1)
        BY <2>1, FoldSteps DEF g
    <2>. QED BY <2>2 DEF Passes
<1> DEFINE S == {k \in Nat : k <= n => f[k] = g[k]}
<1>3. 0 \in S
    BY <1>1, <1>2
<1>4. ASSUME NEW k \in Nat, k \in S PROVE k + 1 \in S
    <2> SUFFICES ASSUME k + 1 <= n PROVE f[k + 1] = g[k + 1]
        OBVIOUS
    <2>1. k + 1 \in 1 .. n /\ k + 1 \in 1 .. n + 1 /\ (k + 1) - 1 = k /\ k <= n
        OBVIOUS
    <2>2. f[k + 1] = Op(c, d, f[k], seq[k + 1])
        BY <1>1, <2>1
    <2>3. g[k + 1] = Op(c, d, g[k], more[k + 1])
        BY <1>2, <2>1
    <2>. QED BY <2>1, <2>2, <2>3, <1>4
<1> HIDE DEF S
<1>5. n \in S
    BY <1>3, <1>4, Induction
<1>6. f[n] = g[n]
    BY <1>5 DEF S
<1>7. g[n + 1] = Op(c, d, g[n], more[n + 1])
    <2>1. n + 1 \in 1 .. n + 1 /\ (n + 1) - 1 = n OBVIOUS
    <2>. QED BY <1>2, <2>1
<1>. QED BY <1>1, <1>2, <1>6, <1>7
====
