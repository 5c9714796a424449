------------------------------ MODULE FoldLaws ------------------------------
(***************************************************************************)
(* The laws of the folds the modules are written with, for any operator:   *)
(* a fold obeys its defining equation, and what every step of a fold       *)
(* keeps, the fold keeps.  A module that folds instantiates this one with  *)
(* the operator it folds.                                                  *)
(***************************************************************************)
EXTENDS SequencesExt, FiniteSetTheorems, WellFoundedInduction, TLAPS

CONSTANT
    Op(_, _)    \* what is so far, and the next element

Below == {p \in Nat \X Nat : p[1] < p[2]}

LEMMA BelowIsWellFounded == IsWellFoundedOn(Below, Nat)
<1>1. OpToRel(<, Nat) = Below   BY DEF OpToRel, Below
<1> QED BY <1>1, NatLessThanWellFounded

\* A set of numbers with zero and the successor of every member is all of
\* them: induction, for a property given as a set.
LEMMA NumbersByInduction ==
    ASSUME NEW T \in SUBSET Nat, 0 \in T, \A n \in T : n + 1 \in T
    PROVE  \A n \in Nat : n \in T
<1> SUFFICES ASSUME Nat \ T # {} PROVE FALSE
    OBVIOUS
<1>1. PICK n \in Nat \ T : \A m \in Nat \ T : ~ (<<m, n>> \in Below)
    BY BelowIsWellFounded, WFMin
<1>2. n # 0   OBVIOUS
<1>3. n - 1 \in Nat /\ (n - 1) + 1 = n   BY <1>2
<1>4. <<n - 1, n>> \in Below   BY <1>3 DEF Below
<1>5. n - 1 \in T   BY <1>1, <1>3, <1>4
<1> QED BY <1>3, <1>5

\* There is a function that takes the elements of a finite set one by one.
Equation(S, f, pick, base, h) ==
    h = [s \in SUBSET S |-> IF s = {} THEN base ELSE Op(h[s \ {pick[s]}], f[pick[s]])]

\* The same for the subsets of at most n elements.
UpTo(S, f, pick, base, n, h) ==
    /\ h = [s \in {t \in SUBSET S : Cardinality(t) <= n} |-> h[s]]
    /\ \A s \in SUBSET S : Cardinality(s) <= n =>
          h[s] = IF s = {} THEN base ELSE Op(h[s \ {pick[s]}], f[pick[s]])

LEMMA FoldExists ==
    ASSUME NEW S, IsFiniteSet(S), NEW f, NEW pick, NEW base,
           \A s \in SUBSET S : s # {} => pick[s] \in s
    PROVE  \E h : Equation(S, f, pick, base, h)
<1> DEFINE T == {n \in Nat : \E h : UpTo(S, f, pick, base, n, h)}
<1>1. \A s \in SUBSET S : IsFiniteSet(s) /\ Cardinality(s) \in Nat
    BY FS_Subset, FS_CardinalityType
<1>2. \A s \in SUBSET S : s # {} =>
          s \ {pick[s]} \in SUBSET S /\ Cardinality(s \ {pick[s]}) = Cardinality(s) - 1
    <2> TAKE s \in SUBSET S
    <2> HAVE s # {}
    <2> QED BY <1>1, FS_RemoveElement
<1>3. 0 \in T
    <2> DEFINE h == [s \in {t \in SUBSET S : Cardinality(t) <= 0} |-> base]
    <2>1. \A s \in SUBSET S : Cardinality(s) <= 0 => s = {}
        BY <1>1, FS_EmptySet
    <2>2. UpTo(S, f, pick, base, 0, h)   BY <2>1 DEF UpTo
    <2> QED BY <2>2
<1>4. ASSUME NEW n \in T PROVE n + 1 \in T
    <2>1. PICK h : UpTo(S, f, pick, base, n, h)   BY <1>4
    <2> DEFINE g == [s \in {t \in SUBSET S : Cardinality(t) <= n + 1} |->
                        IF Cardinality(s) <= n THEN h[s]
                        ELSE Op(h[s \ {pick[s]}], f[pick[s]])]
    <2>2. ASSUME NEW s \in SUBSET S, Cardinality(s) <= n + 1
          PROVE  g[s] = IF s = {} THEN base ELSE Op(g[s \ {pick[s]}], f[pick[s]])
        <3>1. CASE s = {}
            <4>1. Cardinality(s) <= n   BY <3>1, FS_EmptySet
            <4>2. g[s] = h[s]   BY <2>2, <4>1
            <4> QED BY <3>1, <4>1, <4>2, <2>1 DEF UpTo
        <3>2. CASE s # {}
            <4> DEFINE t == s \ {pick[s]}
            <4>1. t \in SUBSET S /\ Cardinality(t) = Cardinality(s) - 1   BY <1>2, <3>2
            <4>2. Cardinality(t) <= n /\ Cardinality(t) <= n + 1   BY <4>1, <1>1, <2>2
            <4>3. g[t] = h[t]   BY <4>1, <4>2
            <4>4. CASE Cardinality(s) <= n
                <5>1. g[s] = h[s]   BY <2>2, <4>4
                <5>2. h[s] = Op(h[t], f[pick[s]])   BY <2>1, <4>4, <3>2 DEF UpTo
                <5> QED BY <5>1, <5>2, <4>3, <3>2
            <4>5. CASE ~ Cardinality(s) <= n
                <5>1. g[s] = Op(h[t], f[pick[s]])   BY <2>2, <4>5
                <5> QED BY <5>1, <4>3, <3>2
            <4> QED BY <4>4, <4>5
        <3> QED BY <3>1, <3>2
    <2>3. g = [s \in {t \in SUBSET S : Cardinality(t) <= n + 1} |-> g[s]]   OBVIOUS
    <2> HIDE DEF g
    <2>4. UpTo(S, f, pick, base, n + 1, g)   BY <2>2, <2>3 DEF UpTo
    <2> QED BY <2>4
<1>5. \A n \in Nat : n \in T
    <2> HIDE DEF T
    <2>1. T \in SUBSET Nat   BY DEF T
    <2> QED BY <2>1, <1>3, <1>4, NumbersByInduction
<1>6. Cardinality(S) \in T   BY <1>1, <1>5
<1>7. PICK h : UpTo(S, f, pick, base, Cardinality(S), h)   BY <1>6
<1>8. \A s \in SUBSET S : Cardinality(s) <= Cardinality(S)   BY FS_Subset
<1>9. {t \in SUBSET S : Cardinality(t) <= Cardinality(S)} = SUBSET S   BY <1>8
<1>10. h = [s \in SUBSET S |-> h[s]]   BY <1>7, <1>9 DEF UpTo
<1>11. \A s \in SUBSET S : h[s] = IF s = {} THEN base ELSE Op(h[s \ {pick[s]}], f[pick[s]])
    BY <1>7, <1>8 DEF UpTo
<1>12. h = [s \in SUBSET S |-> IF s = {} THEN base ELSE Op(h[s \ {pick[s]}], f[pick[s]])]
    BY <1>10, <1>11
<1> QED BY <1>12 DEF Equation

\* The largest of the first k numbers is k.
LEMMA LastIsMax ==
    ASSUME NEW k \in Nat, k # 0
    PROVE  Max(1 .. k) = k
<1>1. k \in 1 .. k /\ \A y \in 1 .. k : k >= y   OBVIOUS
<1>2. \A x \in 1 .. k : (\A y \in 1 .. k : x >= y) => x = k   OBVIOUS
<1> QED BY <1>1, <1>2 DEF Max

LEMMA MaxIsMember ==
    ASSUME NEW n \in Nat, NEW s \in SUBSET (1 .. n), s # {}
    PROVE  Max(s) \in s
<1> DEFINE T == {k \in Nat : \A t \in SUBSET (1 .. k) : t # {} =>
                    \E x \in t : \A y \in t : x >= y}
<1>1. 0 \in T
    <2>1. 1 .. 0 = {}   OBVIOUS
    <2> QED BY <2>1
<1>2. ASSUME NEW k \in T PROVE k + 1 \in T
    <2>1. SUFFICES ASSUME NEW t \in SUBSET (1 .. (k + 1)), t # {}
                   PROVE  \E x \in t : \A y \in t : x >= y
        OBVIOUS
    <2>2. CASE k + 1 \in t   BY <2>2
    <2>3. CASE k + 1 \notin t
        <3>1. t \in SUBSET (1 .. k)   BY <2>3
        <3> QED BY <3>1, <1>2, <2>1
    <2> QED BY <2>2, <2>3
<1>3. n \in T
    <2> HIDE DEF T
    <2>1. T \in SUBSET Nat   BY DEF T
    <2> QED BY <2>1, <1>1, <1>2, NumbersByInduction
<1>4. \E x \in s : \A y \in s : x >= y   BY <1>3
<1> QED BY <1>4 DEF Max

\* The fold over a sequence, as an operator of its own.
Folded(base, seq) == FoldLeft(Op, base, seq)

\* A fold over a sequence applies the operator to its items in their order.
THEOREM LeftFold ==
    ASSUME NEW base, NEW X, NEW seq \in Seq(X)
    PROVE  \E h : /\ h = [k \in 0 .. Len(seq) |-> h[k]]
                  /\ h[0] = base
                  /\ \A k \in 1 .. Len(seq) : h[k] = Op(h[k - 1], seq[k])
                  /\ Folded(base, seq) = h[Len(seq)]
<1> DEFINE S == DOMAIN seq
           iter == CHOOSE h : h = [s \in SUBSET S |-> IF s = {} THEN base ELSE Op(h[s \ {Max(s)}], seq[Max(s)])]
           pick == [s \in SUBSET S |-> Max(s)]
<1>1. S = 1 .. Len(seq) /\ Len(seq) \in Nat   OBVIOUS
<1>2. IsFiniteSet(S)   BY <1>1, FS_Interval
<1>3. Folded(base, seq) = iter[S]   BY DEF Folded, FoldLeft, MapThenFoldSet
<1>4. \A s \in SUBSET S : s # {} => pick[s] \in s   BY <1>1, MaxIsMember
<1>5. \E h : Equation(S, seq, pick, base, h)
    <2> HIDE DEF S, pick
    <2> QED BY <1>2, <1>4, FoldExists
<1>6. PICK h : h = [s \in SUBSET S |-> IF s = {} THEN base ELSE Op(h[s \ {Max(s)}], seq[Max(s)])]
    <2>1. PICK h : Equation(S, seq, pick, base, h)   BY <1>5
    <2>2. h = [s \in SUBSET S |-> IF s = {} THEN base ELSE Op(h[s \ {pick[s]}], seq[pick[s]])]
        BY <2>1 DEF Equation
    <2>3. \A s \in SUBSET S : pick[s] = Max(s)   OBVIOUS
    <2>4. h = [s \in SUBSET S |-> IF s = {} THEN base ELSE Op(h[s \ {Max(s)}], seq[Max(s)])]
        BY <2>2, <2>3
    <2> QED BY <2>4
<1>7. iter = [s \in SUBSET S |-> IF s = {} THEN base ELSE Op(iter[s \ {Max(s)}], seq[Max(s)])]
    BY <1>6
<1> HIDE DEF iter, pick
<1>8. \A s \in SUBSET S : iter[s] = IF s = {} THEN base ELSE Op(iter[s \ {Max(s)}], seq[Max(s)])
    BY <1>7
<1> DEFINE g == [k \in 0 .. Len(seq) |-> iter[1 .. k]]
<1>9. g[0] = base
    <2>1. 1 .. 0 = {} /\ {} \in SUBSET S   OBVIOUS
    <2>2. iter[{}] = base   BY <1>8, <2>1
    <2> QED BY <2>1, <2>2, <1>1
<1>10. ASSUME NEW k \in 1 .. Len(seq) PROVE g[k] = Op(g[k - 1], seq[k])
    <2>1. 1 .. k \in SUBSET S /\ 1 .. k # {} /\ k \in Nat /\ k # 0 /\ k \in 0 .. Len(seq) /\ k - 1 \in 0 .. Len(seq)
        BY <1>1
    <2>2. Max(1 .. k) = k   BY <2>1, LastIsMax
    <2>3. (1 .. k) \ {k} = 1 .. (k - 1)   BY <2>1
    <2>4. iter[1 .. k] = Op(iter[1 .. (k - 1)], seq[k])   BY <2>1, <2>2, <2>3, <1>8
    <2> QED BY <2>1, <2>4
<1>11. Folded(base, seq) = g[Len(seq)]   BY <1>1, <1>3
<1>12. g = [k \in 0 .. Len(seq) |-> g[k]]   OBVIOUS
<1> HIDE DEF g
<1> QED BY <1>9, <1>10, <1>11, <1>12

\* What the base has, and every step hands on, the fold has: G[k] is what
\* may be said after k items.
THEOREM FoldKeeps ==
    ASSUME NEW base, NEW X, NEW seq \in Seq(X), NEW G,
           base \in G[0],
           \A k \in 1 .. Len(seq) : \A x \in G[k - 1] : Op(x, seq[k]) \in G[k]
    PROVE  Folded(base, seq) \in G[Len(seq)]
<1>1. PICK h : /\ h[0] = base
               /\ \A k \in 1 .. Len(seq) : h[k] = Op(h[k - 1], seq[k])
               /\ Folded(base, seq) = h[Len(seq)]
    BY LeftFold
<1> DEFINE T == {k \in Nat : k <= Len(seq) => h[k] \in G[k]}
<1>2. 0 \in T   BY <1>1
<1>3. ASSUME NEW k \in T PROVE k + 1 \in T
    <2>1. SUFFICES ASSUME k + 1 <= Len(seq) PROVE h[k + 1] \in G[k + 1]
        OBVIOUS
    <2>2. k + 1 \in 1 .. Len(seq) /\ (k + 1) - 1 = k /\ k <= Len(seq)   BY <2>1
    <2>3. h[k] \in G[k]   BY <1>3, <2>2
    <2>4. h[k + 1] = Op(h[k], seq[k + 1])   BY <1>1, <2>2
    <2> QED BY <2>2, <2>3, <2>4
<1>4. Len(seq) \in T
    <2> HIDE DEF T
    <2>1. T \in SUBSET Nat   BY DEF T
    <2> QED BY <2>1, <1>2, <1>3, NumbersByInduction
<1> QED BY <1>1, <1>4

\* An operator can be applied to its own result any number of times: a
\* recursive function on the numbers up to N exists.
Repeats(h, base, x, N) == h = [k \in 0 .. N |-> IF k = 0 THEN base ELSE Op(h[k - 1], x)]

THEOREM Iteration ==
    ASSUME NEW base, NEW x, NEW N \in Nat
    PROVE  \E h : Repeats(h, base, x, N)
<1>1. ASSUME NEW X, NEW seq \in Seq(X), Len(seq) = N, \A k \in 1 .. N : seq[k] = x
      PROVE  \E h : Repeats(h, base, x, N)
    <2>1. PICK h : /\ h[0] = base
                   /\ \A k \in 1 .. Len(seq) : h[k] = Op(h[k - 1], seq[k])
                   /\ Folded(base, seq) = h[Len(seq)]
        BY LeftFold
    <2> DEFINE g == [k \in 0 .. N |-> h[k]]
    <2>2. ASSUME NEW k \in 0 .. N PROVE g[k] = IF k = 0 THEN base ELSE Op(g[k - 1], x)
        <3>1. CASE k = 0   BY <3>1, <2>1
        <3>2. CASE k # 0
            <4>1. k \in 1 .. Len(seq) /\ k - 1 \in 0 .. N   BY <3>2, <1>1
            <4>2. h[k] = Op(h[k - 1], seq[k])   BY <4>1, <2>1
            <4> QED BY <4>1, <4>2, <3>2, <1>1
        <3> QED BY <3>1, <3>2
    <2>3. Repeats(g, base, x, N)   BY <2>2 DEF Repeats
    <2> HIDE DEF g
    <2> QED BY <2>3
<1> DEFINE s == [k \in 1 .. N |-> x]
<1>2. s \in Seq({x}) /\ Len(s) = N /\ \A k \in 1 .. N : s[k] = x   OBVIOUS
<1> HIDE DEF s
<1> QED BY <1>1, <1>2, Zenon
=============================================================================
