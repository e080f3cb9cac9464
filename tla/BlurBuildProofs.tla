-------------------------- MODULE BlurBuildProofs --------------------------
(* Theorems about BlurBuild, for any length of the video, keyframes,        *)
(* requests, number of tracks, tries and restarts.                          *)
EXTENDS BlurBuild, TLAPS, FiniteSetTheorems, SequenceTheorems, WellFoundedInduction

---------------------------------------------------------------------------
(* Lemmas about the operators of the model *)

\* A set of numbers that is not empty has a least one: induction in the form
\* of a least counterexample.
LEMMA LeastNumber ==
    ASSUME NEW T \in SUBSET Nat, T # {}
    PROVE  \E x \in T : \A y \in T : x <= y
<1> DEFINE R == OpToRel(<, Nat)
<1>1. IsWellFoundedOn(R, Nat)
    BY NatLessThanWellFounded, Zenon
<1>2. PICK x \in T : \A y \in T : <<y, x>> \notin R
    <2> HIDE DEF R
    <2> QED
        BY <1>1, WFMin, Zenon
<1>3. ASSUME NEW y \in T PROVE x <= y
    <2>1. <<y, x>> \in Nat \X Nat
        OBVIOUS
    <2>2. ~(y < x)
        BY <1>2, <2>1 DEF OpToRel
    <2> QED
        BY <2>2
<1> QED
    BY <1>3

Below(S, i) == Cardinality({x \in S : x < i})


\* Every rank in a set of cells up to some L is that of a member.
LEMMA RankExists ==
    ASSUME NEW L \in Nat, NEW S \in SUBSET (0..L), NEW k \in 1..Cardinality(S)
    PROVE  \E i \in S : Below(S, i) = k - 1
<1>1. IsFiniteSet(S) /\ Cardinality(S) \in Nat /\ \A x \in S : x \in Nat /\ x < L + 1
    <2>1. IsFiniteSet(0..L)
        BY FS_Interval
    <2>2. IsFiniteSet(S)
        BY <2>1, FS_Subset
    <2> QED
        BY <2>2, FS_CardinalityType
<1>2. ASSUME NEW j \in Nat PROVE Below(S, j) \in Nat /\ IsFiniteSet({x \in S : x < j})
    <2>1. IsFiniteSet({x \in S : x < j})
        BY <1>1, FS_Subset
    <2> QED
        BY <2>1, FS_CardinalityType DEF Below
<1> DEFINE T == {j \in Nat : k <= Below(S, j)}
<1>3. k \in Nat /\ 1 <= k /\ L + 1 \in T
    <2>1. {x \in S : x < L + 1} = S
        BY <1>1
    <2>2. Below(S, L + 1) = Cardinality(S)
        BY <2>1 DEF Below
    <2> QED
        BY <2>2, <1>1
<1>4. PICK j \in T : \A y \in T : j <= y
    <2>1. T \in SUBSET Nat /\ T # {}
        BY <1>3
    <2> HIDE DEF T
    <2> QED
        BY <2>1, LeastNumber
<1>5. j \in Nat /\ k <= Below(S, j)
    OBVIOUS
<1>6. j # 0
    <2>1. \A x \in S : ~(x < 0)
        BY <1>1
    <2>2. {x \in S : x < 0} = {}
        BY <2>1, Zenon
    <2>3. Below(S, 0) = 0
        BY <2>2, FS_EmptySet DEF Below
    <2> QED
        BY <2>3, <1>3, <1>5
<1>7. j - 1 \in Nat /\ Below(S, j - 1) \in Nat /\ Below(S, j - 1) <= k - 1
    <2>1. j - 1 \in Nat /\ j - 1 \notin T
        BY <1>4, <1>5, <1>6
    <2>2. Below(S, j - 1) \in Nat /\ ~(k <= Below(S, j - 1))
        BY <2>1, <1>2
    <2> QED
        BY <2>1, <2>2, <1>3
<1>8. j - 1 \in S
    <2>1. SUFFICES ASSUME j - 1 \notin S PROVE FALSE
        OBVIOUS
    <2>2. \A x \in S : x < j <=> x < j - 1
        BY <2>1, <1>1, <1>5
    <2>3. {x \in S : x < j} = {x \in S : x < j - 1}
        BY <2>2, Zenon
    <2>4. Below(S, j) = Below(S, j - 1)
        BY <2>3 DEF Below
    <2> QED
        BY <2>4, <1>3, <1>5, <1>7
<1>9. Below(S, j) = Below(S, j - 1) + 1
    <2>1. \A x \in S : x < j <=> x < j - 1 \/ x = j - 1
        BY <1>1, <1>5
    <2>2. {x \in S : x < j} = {x \in S : x < j - 1} \cup {j - 1}
        BY <2>1, <1>8, Zenon
    <2>3. j - 1 \notin {x \in S : x < j - 1}
        BY <1>7
    <2>4. IsFiniteSet({x \in S : x < j - 1})
        BY <1>2, <1>7
    <2> QED
        BY <2>2, <2>3, <2>4, FS_AddElement DEF Below
<1> QED
    BY <1>3, <1>5, <1>7, <1>8, <1>9


\* The rank of a cell grows at the members of the set.
LEMMA BelowGrows ==
    ASSUME NEW L \in Nat, NEW S \in SUBSET (0..L), NEW x \in Nat, NEW y \in Nat, x < y
    PROVE  /\ Below(S, x) \in Nat /\ Below(S, y) \in Nat /\ Below(S, x) <= Below(S, y)
           /\ x \in S => Below(S, x) < Below(S, y)
<1> DEFINE U(z) == {c \in S : c < z}
<1>1. IsFiniteSet(S) /\ \A c \in S : c \in Nat
    <2>1. IsFiniteSet(0..L)
        BY FS_Interval
    <2>2. IsFiniteSet(S)
        BY <2>1, FS_Subset
    <2> QED
        BY <2>2
<1>2. IsFiniteSet(U(x)) /\ IsFiniteSet(U(y)) /\ U(x) \subseteq U(y)
    <2>1. U(x) \subseteq S /\ U(y) \subseteq S /\ U(x) \subseteq U(y)
        <3>1. \A c \in S : c < x => c < y
            BY <1>1
        <3> QED
            BY <3>1, Zenon
    <2> HIDE DEF U
    <2> QED
        BY <1>1, <2>1, FS_Subset
<1>3. x \in S => U(x) # U(y)
    BY <1>1
<1>4. Below(S, x) = Cardinality(U(x)) /\ Below(S, y) = Cardinality(U(y))
    BY DEF Below
<1> HIDE DEF U
<1>5. /\ Cardinality(U(x)) \in Nat /\ Cardinality(U(y)) \in Nat /\ Cardinality(U(x)) <= Cardinality(U(y))
      /\ Cardinality(U(x)) = Cardinality(U(y)) => U(x) = U(y)
    BY <1>2, FS_Subset, FS_CardinalityType
<1> QED
    BY <1>3, <1>4, <1>5

\* Steps of a staircase: from the first member of a set to the last, each next
\* to the one before it.
Stairs(e, n, S) ==
    /\ e \in [1..n -> S]
    /\ \A i \in 1..n, x \in S : i < n => e[i] < e[i + 1] /\ ~(e[i] < x /\ x < e[i + 1])
    /\ 0 \in S => e[1] = 0
    /\ Duration \in S => e[n] = Duration

\* InOrder lists a set of cells in its order.
LEMMA InOrderLists ==
    ASSUME NEW S \in SUBSET (0..Duration)
    PROVE  Cardinality(S) \in Nat /\ Len(InOrder[S]) = Cardinality(S) /\ Stairs(InOrder[S], Cardinality(S), S)
<1> DEFINE n == Cardinality(S)
           nth(i) == CHOOSE x \in S : Below(S, x) = i - 1
           e == [i \in 1..n |-> nth(i)]
<1>1. Duration \in Nat /\ n \in Nat /\ IsFiniteSet(S) /\ \A x \in S : x \in Nat /\ x <= Duration
    <2>1. Duration \in Nat
        BY BlurBuildAssumption
    <2>2. IsFiniteSet(0..Duration)
        BY <2>1, FS_Interval
    <2>3. IsFiniteSet(S)
        BY <2>2, FS_Subset
    <2> QED
        BY <2>1, <2>3, FS_CardinalityType
<1>2. InOrder[S] = e
    BY DEF InOrder, Below
<1>3. \A i \in 1..n : nth(i) \in S /\ Below(S, nth(i)) = i - 1
    <2> SUFFICES ASSUME NEW i \in 1..n PROVE nth(i) \in S /\ Below(S, nth(i)) = i - 1
        OBVIOUS
    <2>1. \E x \in S : Below(S, x) = i - 1
        BY <1>1, RankExists
    <2> QED
        BY <2>1
<1> HIDE DEF nth
<1>4. e \in [1..n -> S] /\ \A i \in 1..n : e[i] \in S /\ Below(S, e[i]) = i - 1
    BY <1>3
<1> HIDE DEF e
<1>5. Len(e) = n
    <2> HIDE DEF n
    <2>1. e \in Seq(S) /\ DOMAIN e = 1..n
        BY <1>1, <1>4
    <2> QED
        BY <1>1, <2>1
<1>6. ASSUME NEW x \in S, NEW y \in S, x < y PROVE Below(S, x) < Below(S, y)
    BY <1>1, <1>6, BelowGrows
<1>7. ASSUME NEW x \in S PROVE Below(S, x) \in Nat
    <2>1. x \in Nat /\ x + 1 \in Nat /\ x < x + 1
        BY <1>1
    <2> QED
        BY <1>1, <2>1, BelowGrows
<1>8. ASSUME NEW i \in 1..n, NEW x \in S, i < n PROVE e[i] < e[i + 1] /\ ~(e[i] < x /\ x < e[i + 1])
    <2> HIDE DEF n
    <2>1. /\ e[i] \in S /\ e[i + 1] \in S
          /\ Below(S, e[i]) = i - 1 /\ Below(S, e[i + 1]) = i
          /\ i \in Nat /\ e[i] \in Nat /\ e[i + 1] \in Nat /\ x \in Nat
        <3>1. i + 1 \in 1..n /\ i \in Nat /\ (i + 1) - 1 = i
            BY <1>1, <1>8
        <3> QED
            BY <1>1, <1>4, <3>1
    <2>2. e[i] < e[i + 1]
        <3>1. ~(e[i + 1] < e[i]) /\ e[i] # e[i + 1]
            BY <1>6, <2>1
        <3> QED
            BY <2>1, <3>1
    <2>3. ~(e[i] < x /\ x < e[i + 1])
        <3> SUFFICES ASSUME e[i] < x, x < e[i + 1] PROVE FALSE
            OBVIOUS
        <3>1. Below(S, e[i]) < Below(S, x) /\ Below(S, x) < Below(S, e[i + 1])
            BY <1>6, <2>1
        <3> QED
            BY <1>7, <2>1, <3>1
    <2> QED
        BY <2>2, <2>3
<1>9. 0 \in S => e[1] = 0
    <2> SUFFICES ASSUME 0 \in S PROVE e[1] = 0
        OBVIOUS
    <2>1. n # 0
        BY <1>1, FS_EmptySet
    <2>2. e[1] \in S /\ e[1] \in Nat /\ Below(S, e[1]) = 0
        <3> HIDE DEF n
        <3>1. 1 \in 1..n /\ 1 - 1 = 0
            BY <1>1, <2>1
        <3> QED
            BY <1>1, <1>4, <3>1
    <2>3. ~(0 < e[1])
        BY <1>6, <1>7, <2>2
    <2> QED
        BY <2>2, <2>3
<1>10. Duration \in S => e[n] = Duration
    <2> SUFFICES ASSUME Duration \in S PROVE e[n] = Duration
        OBVIOUS
    <2>1. n # 0
        BY <1>1, FS_EmptySet
    <2>2. e[n] \in S /\ e[n] \in Nat /\ e[n] <= Duration /\ Below(S, e[n]) = n - 1
        <3> HIDE DEF n
        <3>1. n \in 1..n
            BY <1>1, <2>1
        <3> QED
            BY <1>1, <1>4, <3>1
    <2>3. Below(S, Duration + 1) = n
        <3>1. \A x \in S : x < Duration + 1
            BY <1>1
        <3>2. {x \in S : x < Duration + 1} = S
            BY <3>1, Zenon
        <3> QED
            BY <3>2 DEF Below
    <2>4. Below(S, Duration) < Below(S, Duration + 1)
        <3>1. Duration + 1 \in Nat /\ Duration < Duration + 1
            BY <1>1
        <3> QED
            BY <1>1, <3>1, BelowGrows
    <2>5. ~(e[n] < Duration)
        <3>1. Below(S, Duration) \in Nat
            BY <1>7
        <3> QED
            BY <1>1, <1>6, <2>2, <2>3, <2>4, <3>1
    <2> QED
        BY <1>1, <2>2, <2>5
<1> HIDE DEF n
<1> QED
    BY <1>1, <1>2, <1>4, <1>5, <1>8, <1>9, <1>10 DEF n, Stairs

\* FlattenSeq joins one sequence after the other.
LEMMA Flattened ==
    ASSUME NEW S, NEW seqs \in Seq(Seq(S)), seqs # <<>>
    PROVE  \E f \in [1..Len(seqs) -> Seq(S)] :
               /\ f[1] = seqs[1]
               /\ \A i \in 1..Len(seqs) : i < Len(seqs) => f[i + 1] = f[i] \o seqs[i + 1]
               /\ FlattenSeq(seqs) = f[Len(seqs)]
<1> DEFINE Joins(f, n) == f = [i \in 1..n |-> IF i = 1 THEN seqs[i] ELSE f[i - 1] \o seqs[i]]
<1>1. ASSUME NEW n \in Nat PROVE \E f : Joins(f, n)
    <2> DEFINE T == {m \in Nat : ~\E f : Joins(f, m)}
    <2>1. SUFFICES ASSUME T # {} PROVE FALSE
        OBVIOUS
    <2>2. PICK m \in T : \A k \in T : m <= k
        <3>1. T \in SUBSET Nat
            OBVIOUS
        <3> HIDE DEF T
        <3> QED
            BY <2>1, <3>1, LeastNumber
    <2>3. CASE m = 0
        <3> DEFINE f == [i \in 1..0 |-> seqs[1]]
        <3>1. f = [i \in 1..0 |-> IF i = 1 THEN seqs[i] ELSE f[i - 1] \o seqs[i]]
            OBVIOUS
        <3>2. Joins(f, m)
            BY <2>3, <3>1, Zenon
        <3> QED
            BY <3>2, Zenon
    <2>4. CASE m # 0
        <3>1. m \in Nat /\ m - 1 \in Nat /\ m - 1 \notin T
            <4>1. m \in Nat
                OBVIOUS
            <4> HIDE DEF T
            <4> QED
                BY <4>1, <2>2, <2>4
        <3>2. PICK f : Joins(f, m - 1)
            BY <3>1
        <3> DEFINE g == [i \in 1..m |-> IF i = 1 THEN seqs[i] ELSE f[i - 1] \o seqs[i]]
        <3>3. ASSUME NEW i \in 1..m, i # 1 PROVE g[i - 1] = f[i - 1]
            <4>1. i - 1 \in 1..(m - 1) /\ i - 1 \in 1..m
                BY <3>1, <3>3
            <4>2. f[i - 1] = IF i - 1 = 1 THEN seqs[i - 1] ELSE f[(i - 1) - 1] \o seqs[i - 1]
                BY <3>2, <4>1
            <4> QED
                BY <4>1, <4>2
        <3>4. g = [i \in 1..m |-> IF i = 1 THEN seqs[i] ELSE g[i - 1] \o seqs[i]]
            <4>1. \A i \in 1..m : g[i] = IF i = 1 THEN seqs[i] ELSE g[i - 1] \o seqs[i]
                BY <3>3
            <4>2. g = [i \in 1..m |-> g[i]]
                OBVIOUS
            <4> HIDE DEF g
            <4> QED
                BY <4>1, <4>2
        <3> HIDE DEF g
        <3>5. Joins(g, m)
            BY <3>4
        <3> QED
            BY <3>5, Zenon
    <2> QED
        BY <2>3, <2>4
<1> DEFINE l == Len(seqs)
           f == CHOOSE g : Joins(g, l)
<1>2. l \in Nat /\ l # 0 /\ \A i \in 1..l : seqs[i] \in Seq(S)
    OBVIOUS
<1>3. Joins(f, l)
    <2>1. \E g : Joins(g, l)
        BY <1>1, <1>2
    <2> HIDE DEF Joins, l
    <2> QED
        BY <2>1
<1>4. FlattenSeq(seqs) = f[l]
    BY <1>2 DEF FlattenSeq
<1> HIDE DEF f
<1>5. /\ f[1] = seqs[1]
      /\ \A i \in 1..l : i < l => f[i + 1] = f[i] \o seqs[i + 1]
    <2> HIDE DEF l
    <2>1. \A i \in 1..l : f[i] = IF i = 1 THEN seqs[i] ELSE f[i - 1] \o seqs[i]
        BY <1>3
    <2>2. 1 \in 1..l
        BY <1>2
    <2>3. ASSUME NEW i \in 1..l, i < l PROVE f[i + 1] = f[i] \o seqs[i + 1]
        <3>1. i + 1 \in 1..l /\ i + 1 # 1 /\ (i + 1) - 1 = i
            BY <1>2, <2>3
        <3> QED
            BY <2>1, <3>1
    <2> QED
        BY <2>1, <2>2, <2>3
<1>6. f \in [1..l -> Seq(S)]
    <2> DEFINE T == {m \in Nat : m \in 1..l /\ f[m] \notin Seq(S)}
    <2>1. T = {}
        <3>1. SUFFICES ASSUME T # {} PROVE FALSE
            OBVIOUS
        <3>2. PICK m \in T : \A k \in T : m <= k
            <4>1. T \in SUBSET Nat
                OBVIOUS
            <4> HIDE DEF T
            <4> QED
                BY <3>1, <4>1, LeastNumber
        <3>3. m \in 1..l /\ m \in Nat /\ f[m] \notin Seq(S)
            OBVIOUS
        <3>4. m # 1 /\ m - 1 \in 1..l /\ m - 1 < l /\ (m - 1) + 1 = m
            BY <1>2, <1>5, <3>3
        <3>5. f[m - 1] \in Seq(S)
            BY <3>2, <3>3, <3>4
        <3>6. f[m] = f[m - 1] \o seqs[m]
            <4> HIDE DEF l
            <4> QED
                BY <1>5, <3>4
        <3> QED
            BY <1>2, <3>3, <3>5, <3>6
    <2>2. \A i \in 1..l : f[i] \in Seq(S)
        BY <2>1
    <2>3. f = [i \in 1..l |-> f[i]]
        BY <1>3
    <2> HIDE DEF l
    <2> QED
        BY <2>2, <2>3
<1> QED
    BY <1>4, <1>5, <1>6

\* The muxer cuts at cells of the video.
LEMMA CutsAreCells ==
    ASSUME NEW v, NEW plan
    PROVE  CutsMade(v, plan) \in SUBSET (0..Duration)
<1> DEFINE Next0(m, c) == m \cup {d \in {c - 1} \cap v.cuts : Cardinality(m) < Due(plan, d)}
           Cuts(f, n) == f = [c \in 0..n |-> IF c = 0 THEN {}
                                ELSE UNION {m \cup {d \in {c - 1} \cap v.cuts : Cardinality(m) < Due(plan, d)} :
                                              m \in {f[c - 1]}}]
<1>1. ASSUME NEW n \in Nat PROVE \E f : Cuts(f, n)
    <2> DEFINE T == {m \in Nat : ~\E f : Cuts(f, m)}
    <2>1. SUFFICES ASSUME T # {} PROVE FALSE
        OBVIOUS
    <2>2. PICK m \in T : \A k \in T : m <= k
        <3>1. T \in SUBSET Nat
            OBVIOUS
        <3> HIDE DEF T
        <3> QED
            BY <2>1, <3>1, LeastNumber
    <2> DEFINE Grow(f, c) == UNION {s \cup {d \in {c - 1} \cap v.cuts : Cardinality(s) < Due(plan, d)} :
                                      s \in {f[c - 1]}}
    <2>3. CASE m = 0
        <3> DEFINE f == [c \in 0..0 |-> {}]
        <3>1. f = [c \in 0..0 |-> IF c = 0 THEN {} ELSE Grow(f, c)]
            <4> HIDE DEF Grow
            <4> QED
                OBVIOUS
        <3>2. Cuts(f, m)
            BY <2>3, <3>1, Zenon
        <3> QED
            BY <3>2, Zenon
    <2>4. CASE m # 0
        <3>1. m \in Nat /\ m - 1 \in Nat /\ m - 1 \notin T
            <4>1. m \in Nat
                OBVIOUS
            <4> HIDE DEF T
            <4> QED
                BY <4>1, <2>2, <2>4
        <3>2. PICK f : Cuts(f, m - 1)
            BY <3>1, Zenon
        <3> DEFINE g == [c \in 0..m |-> IF c = 0 THEN {} ELSE Grow(f, c)]
        <3>3. ASSUME NEW c \in 0..m, c # 0 PROVE g[c - 1] = f[c - 1]
            <4>1. c - 1 \in 0..(m - 1) /\ c - 1 \in 0..m
                BY <3>1, <3>3
            <4>2. f = [x \in 0..(m - 1) |-> IF x = 0 THEN {} ELSE Grow(f, x)]
                BY <3>2, Zenon
            <4> HIDE DEF Grow
            <4>3. f[c - 1] = IF c - 1 = 0 THEN {} ELSE Grow(f, c - 1)
                BY <4>1, <4>2, Zenon
            <4> QED
                BY <4>1, <4>3
        <3>4. ASSUME NEW c \in 0..m, c # 0 PROVE Grow(g, c) = Grow(f, c)
            <4> HIDE DEF g
            <4> QED
                BY <3>3, <3>4, Zenon
        <3>5. g = [c \in 0..m |-> IF c = 0 THEN {} ELSE Grow(g, c)]
            <4> HIDE DEF Grow
            <4>1. \A c \in 0..m : g[c] = IF c = 0 THEN {} ELSE Grow(g, c)
                BY <3>4
            <4>2. g = [c \in 0..m |-> g[c]]
                OBVIOUS
            <4> HIDE DEF g
            <4> QED
                BY <4>1, <4>2
        <3> HIDE DEF g
        <3>6. Cuts(g, m)
            BY <3>5, Zenon
        <3> QED
            BY <3>6, Zenon
    <2> QED
        BY <2>3, <2>4
<1> DEFINE f == CHOOSE g : Cuts(g, Duration)
<1>2. Duration \in Nat
    BY BlurBuildAssumption
<1>3. Cuts(f, Duration)
    <2>1. \E g : Cuts(g, Duration)
        BY <1>1, <1>2, Zenon
    <2> HIDE DEF Cuts
    <2> QED
        BY <2>1
<1>4. CutsMade(v, plan) = f[Duration]
    BY DEF CutsMade
<1> HIDE DEF f
<1>5. \A c \in 0..Duration : f[c] \in SUBSET (0..Duration)
    <2> DEFINE T == {m \in Nat : m \in 0..Duration /\ f[m] \notin SUBSET (0..Duration)}
    <2>1. SUFFICES ASSUME T # {} PROVE FALSE
        BY <1>2
    <2>2. PICK m \in T : \A k \in T : m <= k
        <3>1. T \in SUBSET Nat
            OBVIOUS
        <3> HIDE DEF T
        <3> QED
            BY <2>1, <3>1, LeastNumber
    <2>3. f[m] = IF m = 0 THEN {} ELSE Next0(f[m - 1], m)
        <3> DEFINE Grow(c) == UNION {s \cup {d \in {c - 1} \cap v.cuts : Cardinality(s) < Due(plan, d)} :
                                       s \in {f[c - 1]}}
        <3>1. Grow(m) = Next0(f[m - 1], m)
            <4> DEFINE G(s) == s \cup {d \in {m - 1} \cap v.cuts : Cardinality(s) < Due(plan, d)}
            <4>1. UNION {G(s) : s \in {f[m - 1]}} = G(f[m - 1])
                <5> HIDE DEF G
                <5> QED
                    OBVIOUS
            <4> QED
                BY <4>1, Zenon
        <3>2. m \in 0..Duration /\ f = [c \in 0..Duration |-> IF c = 0 THEN {} ELSE Grow(c)]
            BY <1>3, Zenon
        <3> HIDE DEF Grow, Next0
        <3> QED
            BY <3>1, <3>2
    <2>4. m # 0
        BY <2>3
    <2>5. m - 1 \in 0..Duration /\ f[m - 1] \in SUBSET (0..Duration)
        BY <1>2, <2>2, <2>4
    <2> QED
        BY <1>2, <2>3, <2>4, <2>5
<1> QED
    BY <1>2, <1>4, <1>5

\* Footage is a film of as many frames as cells, and one piece joined to the
\* next is the piece from the first's start to the next's end.
LEMMA FootageIsFilm ==
    ASSUME NEW a \in 0..Duration, NEW b \in 0..Duration, NEW W, a <= b
    PROVE  /\ Footage(a, b, W) \in Film /\ Len(Footage(a, b, W)) = b - a
           /\ \A i \in 1..(b - a) : Footage(a, b, W)[i] = [cell |-> a + i - 1, blur |-> (a + i - 1) \in W]
<1> DEFINE n == b - a
           f == Footage(a, b, W)
<1>1. Duration \in Nat /\ a \in Nat /\ b \in Nat /\ n \in Nat
    BY BlurBuildAssumption
<1>2. f = [i \in 1..n |-> [cell |-> a + i - 1, blur |-> (a + i - 1) \in W]]
    BY DEF Footage
<1>3. ASSUME NEW i \in 1..n PROVE f[i] \in Frame
    <2>1. f[i] = [cell |-> a + i - 1, blur |-> (a + i - 1) \in W]
        BY <1>2, <1>3
    <2>2. a + i - 1 \in Cells
        BY <1>1 DEF Cells
    <2> QED
        BY <2>1, <2>2 DEF Frame
<1> HIDE DEF f, n
<1>4. f \in Film /\ Len(f) = n
    <2>1. f \in [1..n -> Frame]
        BY <1>2, <1>3
    <2> QED
        BY <1>1, <2>1 DEF Film
<1> QED
    BY <1>2, <1>4 DEF f, n

Joined(p, q, r) == p \o q = r

LEMMA FootageJoins ==
    ASSUME NEW a \in 0..Duration, NEW b \in 0..Duration, NEW c \in 0..Duration, NEW W,
           a <= b, b <= c
    PROVE  Joined(Footage(a, b, W), Footage(b, c, W), Footage(a, c, W))
<1> DEFINE Shot(x) == [cell |-> x, blur |-> x \in W]
           p == Footage(a, b, W)
           q == Footage(b, c, W)
           r == Footage(a, c, W)
<1>1. Duration \in Nat /\ a \in Nat /\ b \in Nat /\ c \in Nat
    BY BlurBuildAssumption
<1>2. a <= c
    BY <1>1
<1>3. /\ p \in Seq(Frame) /\ Len(p) = b - a /\ \A i \in 1..(b - a) : p[i] = Shot(a + i - 1)
      /\ q \in Seq(Frame) /\ Len(q) = c - b /\ \A i \in 1..(c - b) : q[i] = Shot(b + i - 1)
      /\ r \in Seq(Frame) /\ Len(r) = c - a /\ \A i \in 1..(c - a) : r[i] = Shot(a + i - 1)
    BY <1>2, FootageIsFilm DEF Film
<1> HIDE DEF p, q, r, Shot
<1>4. p \o q \in Seq(Frame) /\ Len(p \o q) = Len(r)
    <2>1. p \o q \in Seq(Frame) /\ Len(p \o q) = Len(p) + Len(q)
        BY <1>3, ConcatProperties
    <2>2. (b - a) + (c - b) = c - a
        BY <1>1
    <2> QED
        BY <1>3, <2>1, <2>2
<1>5. ASSUME NEW i \in 1..Len(r) PROVE (p \o q)[i] = r[i]
    <2>1. CASE i <= b - a
        BY <1>1, <1>3, <2>1
    <2>2. CASE i > b - a
        <3>1. (p \o q)[i] = q[i - (b - a)] /\ i - (b - a) \in 1..(c - b)
            BY <1>1, <1>3, <2>2
        <3>2. b + (i - (b - a)) - 1 = a + i - 1
            BY <1>1, <1>3
        <3> QED
            BY <1>3, <3>1, <3>2
    <2>3. i <= b - a \/ i > b - a
        BY <1>1, <1>3
    <2> QED
        BY <2>1, <2>2, <2>3, Zenon
<1>6. p \o q = r
    BY <1>3, <1>4, <1>5, SeqEqual
<1> QED
    BY <1>6 DEF p, q, r, Joined

\* The segments of a plan: they begin at the start of the video, each ends where
\* the next begins, the last at the end; and from edge to edge everything is
\* covered or nothing is.
Segments(plan, windows, in, e, n) ==
    /\ e \in [1..(n + 1) -> 0..Duration] /\ e[1] = 0 /\ e[n + 1] = Duration
    /\ \A i \in 1..n : e[i] < e[i + 1]
    /\ \A i \in 1..n : \A c \in Cells : e[i] <= c /\ c < e[i + 1] => (c \in in <=> e[i] \in in)
    /\ plan = [i \in 1..n |->
                 [from |-> e[i], to |-> e[i + 1], reencode |-> e[i] \in in,
                  blur |-> IF e[i] \in in THEN Within(windows) \cap e[i]..(e[i + 1] - 1) ELSE {}]]

LEMMA PlanSegmentsIt ==
    ASSUME NEW windows, NEW keys
    PROVE  \E n \in Nat \ {0} : \E e : Segments(Plan(windows, keys), windows, Covered(windows, keys), e, n)
<1> DEFINE in == Covered(windows, keys)
           S  == Edges(in)
           e  == InOrder[S]
           m  == Cardinality(S)
<1>1. Duration \in Nat \ {0} /\ S \in SUBSET (0..Duration) /\ 0 \in S /\ Duration \in S
    <2>1. Duration \in Nat \ {0}
        BY BlurBuildAssumption
    <2> HIDE DEF in
    <2> QED
        BY <2>1 DEF Edges, Cells
<1>2. Plan(windows, keys) =
          [i \in 1..(Len(e) - 1) |->
             [from |-> e[i], to |-> e[i + 1], reencode |-> e[i] \in in,
              blur |-> IF e[i] \in in THEN Within(windows) \cap e[i]..(e[i + 1] - 1) ELSE {}]]
    BY DEF Plan
<1>3. \A c \in Cells \ {0} : (c \in in) # (c - 1 \in in) => c \in S
    BY DEF Edges
<1> HIDE DEF in, S
<1>4. m \in Nat /\ Len(e) = m /\ Stairs(e, m, S)
    BY <1>1, InOrderLists
<1> HIDE DEF e, m
<1>5. /\ e \in [1..m -> S] /\ e[1] = 0 /\ e[m] = Duration
      /\ \A i \in 1..m, x \in S : i < m => e[i] < e[i + 1] /\ ~(e[i] < x /\ x < e[i + 1])
    BY <1>1, <1>4 DEF Stairs
<1>6. m \in Nat /\ 2 <= m
    <2>1. m # 0 /\ m # 1
        <3>1. S # {} /\ S # {0}
            BY <1>1
        <3>2. IsFiniteSet(0..Duration)
            BY <1>1, FS_Interval
        <3>3. IsFiniteSet(S)
            BY <1>1, <3>2, FS_Subset
        <3>4. m # 0
            BY <3>1, <3>3, FS_EmptySet DEF m
        <3>5. m # 1
            BY <1>1, <1>5
        <3> QED
            BY <3>4, <3>5
    <2> QED
        BY <1>4, <2>1
<1> DEFINE n == m - 1
<1>7. n \in Nat \ {0} /\ n + 1 = m
    BY <1>6
<1> HIDE DEF n
<1>8. e \in [1..(n + 1) -> 0..Duration] /\ \A i \in 1..(n + 1) : e[i] \in Nat /\ e[i] <= Duration
    <2>1. e \in [1..(n + 1) -> S] /\ Duration \in Nat
        BY <1>1, <1>5, <1>7
    <2>2. ASSUME NEW i \in 1..(n + 1) PROVE e[i] \in 0..Duration
        BY <1>1, <2>1
    <2>3. e \in [1..(n + 1) -> 0..Duration]
        BY <2>1, <2>2
    <2> QED
        BY <2>1, <2>3
<1>9. ASSUME NEW i \in 1..n PROVE e[i] < e[i + 1] /\ \A x \in S : ~(e[i] < x /\ x < e[i + 1])
    <2>1. i \in 1..m /\ i < m /\ 0 \in S
        BY <1>1, <1>7
    <2> QED
        BY <1>5, <2>1
<1>10. ASSUME NEW i \in 1..n, NEW c \in Cells, e[i] <= c, c < e[i + 1] PROVE c \in in <=> e[i] \in in
    <2> DEFINE T == {x \in Nat : e[i] <= x /\ x < e[i + 1] /\ ~(x \in in <=> e[i] \in in)}
    <2>1. SUFFICES ASSUME T # {} PROVE FALSE
        <3>1. c \in Nat
            BY <1>1 DEF Cells
        <3> QED
            BY <1>10, <3>1
    <2>2. PICK x \in T : \A y \in T : x <= y
        <3>1. T \in SUBSET Nat
            OBVIOUS
        <3> HIDE DEF T
        <3> QED
            BY <2>1, <3>1, LeastNumber
    <2>3. i \in 1..(n + 1) /\ i + 1 \in 1..(n + 1)
        BY <1>7
    <2>4. x \in Nat /\ e[i] \in Nat /\ e[i + 1] \in Nat /\ e[i + 1] <= Duration /\ e[i] < x /\ x < e[i + 1]
        <3>1. e[i] # x
            OBVIOUS
        <3> QED
            BY <1>8, <2>3, <3>1
    <2>5. x - 1 \in Nat /\ e[i] <= x - 1 /\ x - 1 < e[i + 1] /\ x - 1 < x /\ x \in Cells \ {0}
        BY <1>1, <2>4 DEF Cells
    <2>6. x - 1 \in in <=> e[i] \in in
        <3>1. x - 1 \notin T
            <4> HIDE DEF T
            <4> QED
                BY <2>2, <2>4, <2>5
        <3> QED
            BY <2>5, <3>1
    <2>7. ~(x \in in <=> x - 1 \in in)
        BY <2>6
    <2>8. x \in S
        BY <1>3, <2>5, <2>7
    <2> QED
        BY <1>9, <2>4, <2>8
<1>11. Segments(Plan(windows, keys), windows, in, e, n)
    <2>1. Len(e) - 1 = n
        BY <1>4, <1>7
    <2>2. e[n + 1] = Duration
        BY <1>5, <1>7
    <2> QED
        BY <1>2, <1>5, <1>8, <1>9, <1>10, <2>1, <2>2 DEF Segments
<1>12. \E k \in Nat \ {0} : \E d : Segments(Plan(windows, keys), windows, in, d, k)
    BY <1>7, <1>11
<1> QED
    BY <1>12 DEF in

LEMMA WithinIsCovered ==
    ASSUME NEW windows \in SUBSET Window, NEW keys
    PROVE  Within(windows) \subseteq Covered(windows, keys)
<1> SUFFICES ASSUME NEW c \in Cells, NEW w \in windows, w.start <= c /\ c < w.end
             PROVE  Expanded(w, keys, c)
    BY DEF Within, Covered
<1>1. c \in Int /\ w.start \in Int /\ w.end \in Int
    BY BlurBuildAssumption DEF Cells, Window
<1>2. ~(c < w.start) /\ ~(c >= w.end)
    BY <1>1
<1> QED
    BY <1>2 DEF Expanded

\* A segment, encoded, is that part of the film that is wanted.
SegmentFits(seg, windows, in, a, b) ==
    /\ seg.reencode <=> a \in in
    /\ seg.from = a /\ seg.to = b
    /\ Encoded(seg) = Footage(a, b, Within(windows))

LEMMA SegmentIsWanted ==
    ASSUME NEW windows \in SUBSET Window, NEW keys, NEW n \in Nat, NEW e, NEW plan,
           Segments(plan, windows, Covered(windows, keys), e, n), NEW i \in 1..n
    PROVE  SegmentFits(plan[i], windows, Covered(windows, keys), e[i], e[i + 1])
<1> DEFINE in == Covered(windows, keys)
           wanted == Within(windows)
           blur == IF e[i] \in in THEN wanted \cap e[i]..(e[i + 1] - 1) ELSE {}
<1>1. Duration \in Nat /\ wanted \subseteq in
    BY BlurBuildAssumption, WithinIsCovered
<1>2. plan[i] = [from |-> e[i], to |-> e[i + 1], reencode |-> e[i] \in in, blur |-> blur]
    BY DEF Segments
<1>3. plan[i].from = e[i] /\ plan[i].to = e[i + 1] /\ plan[i].blur = blur /\ (plan[i].reencode <=> e[i] \in in)
    <2> DEFINE b == e[i] \in in
    <2>1. plan[i] = [from |-> e[i], to |-> e[i + 1], reencode |-> b, blur |-> blur]
        BY <1>2
    <2> HIDE DEF b, blur
    <2>2. plan[i].from = e[i] /\ plan[i].to = e[i + 1] /\ plan[i].blur = blur /\ plan[i].reencode = b
        BY <2>1
    <2> QED
        BY <2>2 DEF b
<1>4. e[i] \in 0..Duration /\ e[i + 1] \in 0..Duration /\ e[i] < e[i + 1]
    <2>1. i \in 1..(n + 1) /\ i + 1 \in 1..(n + 1)
        OBVIOUS
    <2> QED
        BY <2>1 DEF Segments
<1>5. ASSUME NEW c \in Cells, e[i] <= c, c < e[i + 1] PROVE c \in blur <=> c \in wanted
    <2>1. c \in in <=> e[i] \in in
        BY <1>5 DEF Segments
    <2>2. c \in e[i]..(e[i + 1] - 1)
        BY <1>1, <1>4, <1>5 DEF Cells
    <2> HIDE DEF in, wanted
    <2> QED
        BY <1>1, <2>1, <2>2
<1> HIDE DEF in, wanted, blur
<1>6. Footage(e[i], e[i + 1], blur) = Footage(e[i], e[i + 1], wanted)
    <2> DEFINE m == e[i + 1] - e[i]
    <2>1. ASSUME NEW k \in 1..m PROVE (e[i] + k - 1) \in blur <=> (e[i] + k - 1) \in wanted
        <3>1. e[i] + k - 1 \in Cells /\ e[i] <= e[i] + k - 1 /\ e[i] + k - 1 < e[i + 1]
            BY <1>1, <1>4 DEF Cells
        <3> QED
            BY <1>5, <3>1
    <2>2. ASSUME NEW k \in 1..m
          PROVE  [cell |-> e[i] + k - 1, blur |-> (e[i] + k - 1) \in blur] =
                     [cell |-> e[i] + k - 1, blur |-> (e[i] + k - 1) \in wanted]
        <3>1. ((e[i] + k - 1) \in blur) = ((e[i] + k - 1) \in wanted)
            BY <2>1
        <3> QED
            BY <3>1
    <2> HIDE DEF m
    <2>3. /\ Footage(e[i], e[i + 1], blur) = [k \in 1..m |-> [cell |-> e[i] + k - 1, blur |-> (e[i] + k - 1) \in blur]]
          /\ Footage(e[i], e[i + 1], wanted) =
                 [k \in 1..m |-> [cell |-> e[i] + k - 1, blur |-> (e[i] + k - 1) \in wanted]]
        BY DEF Footage, m
    <2> QED
        BY <2>2, <2>3
<1> QED
    BY <1>3, <1>6 DEF Encoded, in, wanted, SegmentFits

\* The segments of a plan, encoded and joined, are the film that is wanted.
LEMMA PlanPlaysAll ==
    ASSUME NEW windows \in SUBSET Window, NEW keys
    PROVE  LET plan == Plan(windows, keys)
           IN  FlattenSeq([i \in DOMAIN plan |-> Encoded(plan[i])]) = Wanted(windows)
<1> DEFINE plan == Plan(windows, keys)
           W == Within(windows)
           seqs == [i \in DOMAIN plan |-> Encoded(plan[i])]
<1>1. PICK n \in Nat \ {0} : \E e : Segments(plan, windows, Covered(windows, keys), e, n)
    BY PlanSegmentsIt
<1>2. PICK e : Segments(plan, windows, Covered(windows, keys), e, n)
    BY <1>1
<1> HIDE DEF plan
<1>3. /\ e \in [1..(n + 1) -> 0..Duration] /\ e[1] = 0 /\ e[n + 1] = Duration /\ DOMAIN plan = 1..n
      /\ \A i \in 1..n : e[i] < e[i + 1]
      /\ Duration \in Nat
    BY <1>2, BlurBuildAssumption DEF Segments
<1>4. ASSUME NEW i \in 1..n PROVE seqs[i] = Footage(e[i], e[i + 1], W)
    <2>1. seqs[i] = Encoded(plan[i])
        BY <1>3
    <2> HIDE DEF seqs
    <2> QED
        BY <1>2, <2>1, SegmentIsWanted DEF SegmentFits
<1> HIDE DEF seqs, W
<1>5. \A i \in 1..n : /\ e[i] \in 0..Duration /\ e[i + 1] \in 0..Duration /\ e[i] <= e[i + 1]
                      /\ Footage(e[i], e[i + 1], W) \in Seq(Frame)
    <2> SUFFICES ASSUME NEW i \in 1..n
                 PROVE  /\ e[i] \in 0..Duration /\ e[i + 1] \in 0..Duration /\ e[i] <= e[i + 1]
                        /\ Footage(e[i], e[i + 1], W) \in Seq(Frame)
        OBVIOUS
    <2>1. i \in 1..(n + 1) /\ i + 1 \in 1..(n + 1)
        OBVIOUS
    <2>2. e[i] \in 0..Duration /\ e[i + 1] \in 0..Duration /\ e[i] <= e[i + 1]
        BY <1>3, <2>1
    <2> QED
        BY <2>2, FootageIsFilm DEF Film
<1>6. seqs \in Seq(Seq(Frame)) /\ Len(seqs) = n /\ seqs # <<>>
    <2>1. seqs = [i \in 1..n |-> seqs[i]]
        BY <1>3 DEF seqs
    <2>2. seqs \in [1..n -> Seq(Frame)]
        BY <1>4, <1>5, <2>1
    <2> QED
        BY <2>2
<1>7. PICK f \in [1..n -> Seq(Frame)] :
          /\ f[1] = seqs[1]
          /\ \A i \in 1..n : i < n => f[i + 1] = f[i] \o seqs[i + 1]
          /\ FlattenSeq(seqs) = f[n]
    BY <1>6, Flattened
<1>8. \A i \in 1..n : f[i] = Footage(0, e[i + 1], W)
    <2> DEFINE T == {k \in Nat : k \in 1..n /\ f[k] # Footage(0, e[k + 1], W)}
    <2>1. SUFFICES ASSUME T # {} PROVE FALSE
        <3>1. \A k \in 1..n : k \in Nat
            OBVIOUS
        <3> QED
            BY <3>1, Zenon
    <2>2. PICK k \in T : \A j \in T : k <= j
        <3>1. T \in SUBSET Nat
            OBVIOUS
        <3> HIDE DEF T
        <3> QED
            BY <2>1, <3>1, LeastNumber
    <2>3. k \in 1..n /\ k # 1
        BY <1>3, <1>4, <1>7
    <2>4. k - 1 \in 1..n /\ k - 1 < n /\ (k - 1) + 1 = k /\ k - 1 \notin T
        <3> HIDE DEF T
        <3>1. k \in Nat /\ k - 1 \in Nat /\ ~(k <= k - 1)
            BY <2>3
        <3> QED
            BY <2>2, <2>3, <3>1
    <2>5. f[k - 1] = Footage(0, e[k], W)
        BY <2>4
    <2>6. f[k] = f[k - 1] \o seqs[k]
        BY <1>7, <2>4
    <2>7. Footage(0, e[k], W) \o Footage(e[k], e[k + 1], W) = Footage(0, e[k + 1], W)
        <3>1. 0 \in 0..Duration /\ e[k] \in 0..Duration /\ e[k + 1] \in 0..Duration /\ 0 <= e[k] /\ e[k] <= e[k + 1]
            BY <1>3, <1>5, <2>3
        <3> QED
            <4>1. Joined(Footage(0, e[k], W), Footage(e[k], e[k + 1], W), Footage(0, e[k + 1], W))
                BY <3>1, FootageJoins
            <4> QED
                BY <4>1 DEF Joined
    <2> QED
        BY <1>4, <2>3, <2>5, <2>6, <2>7
<1>9. FlattenSeq(seqs) = Footage(0, Duration, W)
    BY <1>3, <1>7, <1>8
<1> QED
    BY <1>9 DEF seqs, W, Wanted, plan

\* The muxer's files are footage.
LEMMA CopiesAreFilms ==
    ASSUME NEW v, NEW plan
    PROVE  Pieces(SplitCopies(v, plan))
<1> DEFINE S == {0, Duration} \cup CutsMade(v, plan)
           e == InOrder[S]
           n == Len(e) - 1
<1>1. S \in SUBSET (0..Duration) /\ Duration \in Nat
    BY CutsAreCells, BlurBuildAssumption
<1>2. SplitCopies(v, plan) = [i \in 1..n |-> Footage(e[i], e[i + 1], {})]
    BY DEF SplitCopies
<1> HIDE DEF S
<1>3. Cardinality(S) \in Nat /\ Len(e) = Cardinality(S) /\ Stairs(e, Cardinality(S), S)
    BY <1>1, InOrderLists
<1> HIDE DEF e
<1>4. ASSUME NEW i \in 1..n PROVE Footage(e[i], e[i + 1], {}) \in Film
    <2>1. i \in 1..Len(e) /\ i + 1 \in 1..Len(e) /\ i < Len(e) /\ Len(e) \in Nat
        BY <1>3
    <2>2. e \in [1..Len(e) -> S] /\ \A x \in S : \A k \in 1..Len(e) : k < Len(e) => e[k] < e[k + 1]
        BY <1>3 DEF Stairs
    <2>3. e[i] \in 0..Duration /\ e[i + 1] \in 0..Duration /\ e[i] < e[i + 1]
        BY <1>1, <2>1, <2>2
    <2> QED
        BY <1>1, <2>3, FootageIsFilm
<1> HIDE DEF n
<1> QED
    BY <1>2, <1>4 DEF Pieces

---------------------------------------------------------------------------
(* The invariant of types and stages *)

RunFields == {"at", "request", "keys", "plan", "first", "paths", "tries", "whole"}
DirFields == {"for", "copy", "fixed", "reencode", "joined", "whole", "muted", "audio"}

\* What an attempt holds dies with the process.
OutsideTyped ==
    /\ video \in Videos /\ tracks \in 1..MaxTracks /\ approved \in Requests
    /\ job \in {"queued", "processing", "done", "failed", "cancelled"}
    /\ lives \in 1..MaxLives /\ lost \in BOOLEAN /\ up \in BOOLEAN /\ (~up => run.at = "none" /\ lives < MaxLives)
    /\ tmp \in Film \cup {NoFile}
    /\ edit = NoFile \/ (edit.footage \in Film /\ edit.request \in Requests)

\* The plan is one of what is asked for, whatever keyframes are left.
Planned(r) == r.plan # <<>> => r.request \in Requests /\ \E keys : r.plan = Plan(r.request.windows, keys)
Fitting(r) ==
    /\ r = [x \in RunFields |-> r[x]]
    /\ r.at \in Stages /\ r.request \in Requested /\ (r.at # "none" => r.request \in Requests)
    /\ r.tries \in Nat /\ r.tries < MaxTries /\ r.whole \in BOOLEAN /\ r.paths \in Seq(Film)
    /\ Planned(r)
RunTyped == Fitting(run)

DirTyped ==
    /\ dir = [x \in DirFields |-> dir[x]]
    /\ dir.for \in Requested /\ Pieces(dir.copy) /\ Pieces(dir.fixed) /\ Pieces(dir.reencode)
    /\ dir.joined \in Film \cup {NoFile} /\ dir.whole \in Film \cup {NoFile}
    /\ dir.muted \in 0..MaxTracks /\ dir.audio \in 0..MaxTracks

\* From the moment it was opened the directory is the attempt's own.
OwnDir == run.at \in Building \ {"opening"} => dir.for = run.request

\* The audio is made when the film is there, and what is verified is a film.
FilmIsThere ==
    /\ run.at \in {"audio", "audioJoin", "mux"} => IF run.whole THEN dir.whole \in Film ELSE dir.joined \in Film
    /\ run.at \in {"verify", "publish"} => tmp \in Film
    /\ run.at \in {"keyframes", "split", "check", "produce"} => ~run.whole
    /\ run.at = "reencode" => run.whole

TypeInv == OutsideTyped /\ RunTyped /\ DirTyped /\ OwnDir /\ FilmIsThere

LEMMA Empty ==
    /\ NoRun = [x \in RunFields |-> NoRun[x]]
    /\ NoRun.at = "none" /\ NoRun.request = NoFile /\ NoRun.plan = <<>> /\ NoRun.paths = <<>>
    /\ NoRun.tries = 0 /\ NoRun.whole = FALSE
    /\ EmptyDir = [x \in DirFields |-> EmptyDir[x]]
    /\ EmptyDir.for = NoFile /\ EmptyDir.copy = <<>> /\ EmptyDir.fixed = <<>> /\ EmptyDir.reencode = <<>>
    /\ EmptyDir.joined = NoFile /\ EmptyDir.whole = NoFile /\ EmptyDir.muted = 0 /\ EmptyDir.audio = 0
BY DEF NoRun, EmptyDir, RunFields, DirFields, NoFiles

LEMMA NoPieces == Pieces(<<>>) /\ <<>> \in Seq(Film)
BY DEF Pieces

\* An attempt without a plan yet.
LEMMA NothingPlanned ==
    ASSUME NEW r, r = [x \in RunFields |-> r[x]], r.at \in Stages, r.request \in Requested,
           r.at # "none" => r.request \in Requests,
           r.plan = <<>>, r.paths = <<>>, r.tries = 0, r.whole \in BOOLEAN
    PROVE  Fitting(r)
<1>1. 0 \in Nat /\ 0 < MaxTries
    BY BlurBuildAssumption
<1>2. Planned(r)
    BY DEF Planned
<1>3. r.paths \in Seq(Film)
    BY NoPieces
<1> QED
    BY <1>1, <1>2, <1>3 DEF Fitting

\* A piece more in a part of the directory.
LEMMA OneMorePiece ==
    ASSUME NEW f, Pieces(f), NEW i \in Nat, NEW piece \in Film
    PROVE  Pieces(Over(Piece(i, piece), f))
BY DEF Pieces, Over, Piece

LEMMA MorePieces ==
    ASSUME NEW f, Pieces(f), NEW g, Pieces(g)
    PROVE  Pieces(Over(f, g))
BY DEF Pieces, Over

---------------------------------------------------------------------------
(* What a step does to the attempt *)

Kept == /\ run'.request = run.request /\ run'.plan = run.plan /\ run'.tries = run.tries
        /\ run'.whole = run.whole /\ run'.paths = run.paths

LEMMA StageMoves ==
    ASSUME RunTyped, run.at # "none", NEW s \in Stages, Stage(s)
    PROVE  RunTyped' /\ run'.at = s /\ Kept
<1>1. run' = [x \in RunFields |-> run'[x]] /\ run'.at = s /\ Kept
    BY DEF RunTyped, Fitting, Stage, Kept, RunFields
<1> QED
    BY <1>1 DEF RunTyped, Fitting, Planned, Windows, Kept

\* A failed attempt is over, or begins again with the whole file.
LEMMA FailMoves ==
    ASSUME RunTyped, run.at # "none", Fails
    PROVE  /\ RunTyped' /\ tmp' = NoFile /\ run'.request = run.request
           /\ run'.at \in {"failing", "opening"}
           /\ run'.plan \in {run.plan, <<>>}
<1>1. CASE run' = [run EXCEPT !.at = "failing"]
    <2>1. Stage("failing") /\ "failing" \in Stages
        BY <1>1 DEF Stage, Stages
    <2> QED
        BY <2>1, StageMoves DEF Kept, Fails
<1>2. CASE run.at \in Building /\ run' = [NoRun EXCEPT !.at = "opening", !.request = run.request, !.whole = TRUE]
    <2>1. /\ run' = [x \in RunFields |-> run'[x]] /\ run'.at = "opening" /\ run'.request = run.request
          /\ run'.plan = <<>> /\ run'.paths = <<>> /\ run'.tries = 0 /\ run'.whole = TRUE
        BY <1>2, Empty DEF RunFields
    <2>2. "opening" \in Stages /\ run.request \in Requests
        BY DEF Stages, Working, Building, RunTyped, Fitting
    <2>3. RunTyped'
        BY <2>1, <2>2, NothingPlanned DEF Requested, RunTyped
    <2> QED
        BY <2>1, <2>3 DEF Fails
<1> QED
    BY <1>1, <1>2 DEF Fails

LEMMA RunEnds ==
    ASSUME run' = NoRun
    PROVE  RunTyped' /\ run'.at = "none" /\ run'.plan = <<>>
<1>1. /\ run' = [x \in RunFields |-> run'[x]] /\ run'.at = "none" /\ run'.request \in Requested
      /\ run'.plan = <<>> /\ run'.paths = <<>> /\ run'.tries = 0 /\ run'.whole \in BOOLEAN
    BY Empty DEF Requested
<1>2. "none" \in Stages
    BY DEF Stages
<1> QED
    BY <1>1, <1>2, NothingPlanned DEF RunTyped

LEMMA BeginMoves ==
    ASSUME approved \in Requests, NEW s \in Stages, run' = [NoRun EXCEPT !.at = s, !.request = approved]
    PROVE  RunTyped' /\ run'.at = s /\ run'.plan = <<>>
<1>1. /\ run' = [x \in RunFields |-> run'[x]] /\ run'.at = s /\ run'.request = approved
      /\ run'.plan = <<>> /\ run'.paths = <<>> /\ run'.tries = 0 /\ run'.whole = FALSE
    BY Empty DEF RunFields
<1>2. run'.request \in Requested /\ run'.whole \in BOOLEAN
    BY <1>1 DEF Requested
<1> QED
    BY <1>1, <1>2, NothingPlanned DEF RunTyped

LEMMA PlanMoves ==
    ASSUME RunTyped, run.at # "none", NEW k, NEW p, NEW f, NEW s \in Stages,
           \E keys : p = Plan(Windows, keys),
           run' = [run EXCEPT !.keys = k, !.plan = p, !.first = f, !.at = s]
    PROVE  RunTyped' /\ run'.at = s /\ run'.request = run.request /\ run'.whole = run.whole
<1>1. /\ run' = [x \in RunFields |-> run'[x]] /\ run'.at = s /\ run'.plan = p
      /\ run'.request = run.request /\ run'.paths = run.paths /\ run'.tries = run.tries /\ run'.whole = run.whole
    BY DEF RunTyped, Fitting, RunFields
<1>2. \E keys : run'.plan = Plan(run'.request.windows, keys)
    BY <1>1 DEF Windows
<1> QED
    BY <1>1, <1>2 DEF RunTyped, Fitting, Planned, Windows

LEMMA ReplanMoves ==
    ASSUME RunTyped, run.at # "none", NEW k, NEW p, NEW s \in Stages, run.tries + 1 # MaxTries,
           \E keys : p = Plan(Windows, keys),
           run' = [run EXCEPT !.keys = k, !.plan = p, !.tries = @ + 1, !.at = s]
    PROVE  RunTyped' /\ run'.at = s /\ run'.request = run.request /\ run'.whole = run.whole
<1>1. /\ run' = [x \in RunFields |-> run'[x]] /\ run'.at = s /\ run'.plan = p
      /\ run'.request = run.request /\ run'.paths = run.paths /\ run'.tries = run.tries + 1 /\ run'.whole = run.whole
    BY DEF RunTyped, Fitting, RunFields
<1>2. \E keys : run'.plan = Plan(run'.request.windows, keys)
    BY <1>1 DEF Windows
<1>3. run.tries + 1 \in Nat /\ run.tries + 1 < MaxTries
    BY BlurBuildAssumption DEF RunTyped, Fitting
<1> QED
    BY <1>1, <1>2, <1>3 DEF RunTyped, Fitting, Planned, Windows

LEMMA TakeMoves ==
    ASSUME RunTyped, run.at # "none", NEW piece \in Film, Take(piece)
    PROVE  /\ RunTyped' /\ run'.at = run.at /\ run'.request = run.request /\ run'.whole = run.whole
           /\ run'.plan = run.plan
<1>1. /\ run' = [x \in RunFields |-> run'[x]] /\ run'.at = run.at
      /\ run'.request = run.request /\ run'.plan = run.plan /\ run'.tries = run.tries
      /\ run'.whole = run.whole /\ run'.paths = Append(run.paths, piece)
    BY DEF RunTyped, Fitting, RunFields, Take
<1>2. Append(run.paths, piece) \in Seq(Film)
    BY DEF RunTyped, Fitting
<1> QED
    BY <1>1, <1>2 DEF RunTyped, Fitting, Planned, Windows

\* A part of the directory is replaced.
LEMMA DirMoves ==
    ASSUME DirTyped, NEW part \in DirFields, NEW files, dir' = [dir EXCEPT ![part] = files]
    PROVE  dir' = [x \in DirFields |-> dir'[x]] /\ dir'[part] = files /\ \A x \in DirFields \ {part} : dir'[x] = dir[x]
BY DEF DirTyped

---------------------------------------------------------------------------
(* Every step keeps the types *)

LEMMA RunIsUp == TypeInv /\ run.at # "none" => up = TRUE
BY DEF TypeInv, OutsideTyped

LEMMA StepKeeps ==
    ASSUME TypeInv, run.at # "none", UNCHANGED <<sources, server, edit>>, job' = job,
           tmp' \in {tmp, NoFile} \cup Film, RunTyped', DirTyped', OwnDir', FilmIsThere'
    PROVE  TypeInv'
<1>1. OutsideTyped'
    BY RunIsUp DEF TypeInv, OutsideTyped, sources, server
<1> QED
    BY <1>1 DEF TypeInv

\* To another stage, with the directory as it is.
LEMMA StageKeeps ==
    ASSUME TypeInv, run.at # "none", UNCHANGED <<sources, server, edit, dir>>, job' = job,
           tmp' \in {tmp, NoFile} \cup Film, NEW s \in Stages, Stage(s),
           s \in Building \ {"opening"} => dir.for = run.request,
           s \in {"keyframes", "split", "check", "produce"} => ~run.whole, s = "reencode" => run.whole,
           s \in {"audio", "audioJoin", "mux"} => IF run.whole THEN dir.whole \in Film ELSE dir.joined \in Film,
           s \in {"verify", "publish"} => tmp' \in Film
    PROVE  TypeInv'
<1>1. RunTyped' /\ run'.at = s /\ Kept
    BY StageMoves DEF TypeInv
<1>2. DirTyped'
    BY DEF TypeInv, DirTyped
<1>3. OwnDir' /\ FilmIsThere'
    BY <1>1 DEF OwnDir, FilmIsThere, Kept
<1> QED
    BY <1>1, <1>2, <1>3, StepKeeps

LEMMA FailKeeps ==
    ASSUME TypeInv, run.at # "none", UNCHANGED <<sources, server, edit>>, job' = job, DirTyped', Fails
    PROVE  TypeInv'
<1>1. RunTyped' /\ tmp' = NoFile /\ run'.at \in {"failing", "opening"}
    BY FailMoves DEF TypeInv
<1>2. OwnDir' /\ FilmIsThere'
    BY <1>1 DEF OwnDir, FilmIsThere, Building
<1> QED
    BY <1>1, <1>2, StepKeeps

LEMMA BeginKeeps == ASSUME TypeInv, Begin PROVE TypeInv'
<1> DEFINE s == IF approved.windows = {} THEN "failing" ELSE "probing"
<1>1. s \in Stages /\ approved \in Requests
    BY DEF Stages, Working, TypeInv, OutsideTyped
<1>2. RunTyped' /\ run'.at = s
    BY <1>1, BeginMoves DEF Begin
<1>3. OutsideTyped' /\ DirTyped'
    BY DEF Begin, TypeInv, OutsideTyped, DirTyped, sources, server
<1>4. OwnDir' /\ FilmIsThere'
    BY <1>2 DEF OwnDir, FilmIsThere, Building
<1> QED
    BY <1>2, <1>3, <1>4 DEF TypeInv

LEMMA OpenKeeps == ASSUME TypeInv, Probe \/ Open PROVE TypeInv'
<1>1. CASE Probe
    BY <1>1, StageKeeps DEF Probe, At, Stages, Working, Building
<1>2. CASE Open
    <2> DEFINE s == IF run.whole THEN "reencode" ELSE "keyframes"
    <2>1. run.at = "opening" /\ Stage(s) /\ s \in Stages
        BY <1>2 DEF Open, At, Stages, Working, Building
    <2>2. /\ RunTyped' /\ run'.at = s /\ run'.request = run.request /\ run.request \in Requests
          /\ run'.whole = run.whole /\ run.whole \in BOOLEAN
        BY <2>1, StageMoves DEF TypeInv, Kept, RunTyped, Fitting
    <2>3. DirTyped' /\ dir'.for = run.request
        <3>1. CASE dir.for = run.request
            BY <1>2, <3>1 DEF Open, FreshDir, DirTyped, TypeInv
        <3>2. CASE dir' = [EmptyDir EXCEPT !.for = run.request]
            <4>1. /\ dir' = [x \in DirFields |-> dir'[x]] /\ dir'.for = run.request
                  /\ \A x \in DirFields \ {"for"} : dir'[x] = EmptyDir[x]
                BY <3>2, Empty DEF DirFields
            <4>2. 0 \in 0..MaxTracks
                BY BlurBuildAssumption
            <4> QED
                BY <2>2, <4>1, <4>2, Empty, NoPieces DEF DirTyped, DirFields, Requested
        <3> QED
            BY <1>2, <3>1, <3>2 DEF Open, FreshDir
    <2>4. OwnDir' /\ FilmIsThere'
        BY <2>2, <2>3 DEF OwnDir, FilmIsThere
    <2> QED
        BY <1>2, <2>1, <2>2, <2>3, <2>4, StepKeeps DEF Open
<1> QED
    BY <1>1, <1>2

LEMMA PlanKeeps == ASSUME TypeInv, PlanSegments PROVE TypeInv'
<1>1. PICK keys \in {video.keys, {}} :
          \E plan \in {Plan(Windows, keys)} :
              run' = [run EXCEPT !.keys = keys, !.plan = plan, !.first = SceneBounds(plan),
                        !.at = IF dir.joined # NoFile THEN "audio"
                               ELSE IF Len(plan) > 1 THEN "split" ELSE "produce"]
    BY DEF PlanSegments
<1> DEFINE plan == Plan(Windows, keys)
           s == IF dir.joined # NoFile THEN "audio" ELSE IF Len(plan) > 1 THEN "split" ELSE "produce"
           first == SceneBounds(plan)
<1>2. s \in Stages /\ run.at = "keyframes" /\ \E k : plan = Plan(Windows, k)
    <2> HIDE DEF plan
    <2>1. \E k : plan = Plan(Windows, k)
        BY DEF plan
    <2> QED
        BY <2>1 DEF Stages, Working, Building, PlanSegments, At
<1>3. run' = [run EXCEPT !.keys = keys, !.plan = plan, !.first = first, !.at = s]
    BY <1>1
<1> HIDE DEF first, plan
<1>4. RunTyped' /\ run'.at = s /\ run'.request = run.request /\ run'.whole = run.whole
    <2> HIDE DEF s
    <2> QED
        BY <1>2, <1>3, PlanMoves DEF TypeInv
<1>5. DirTyped' /\ dir' = dir /\ dir.for = run.request /\ dir.joined \in Film \cup {NoFile}
    BY <1>2 DEF PlanSegments, TypeInv, DirTyped, OwnDir, Building
<1>6. OwnDir' /\ FilmIsThere'
    BY <1>2, <1>4, <1>5 DEF OwnDir, FilmIsThere, TypeInv
<1> QED
    BY <1>2, <1>4, <1>5, <1>6, StepKeeps DEF PlanSegments

LEMMA SplitKeeps == ASSUME TypeInv, Split \/ CutsAreGood PROVE TypeInv'
<1>1. CASE Split
    <2> DEFINE files == Over(SplitCopies(video, run.plan), dir.copy)
    <2>1. run.at = "split" /\ Stage("check") /\ dir' = [dir EXCEPT !.copy = files]
        BY <1>1 DEF Split, At
    <2>2. Pieces(files)
        BY CopiesAreFilms, MorePieces DEF TypeInv, DirTyped
    <2> HIDE DEF files
    <2>3. RunTyped' /\ run'.at = "check" /\ Kept
        BY <2>1, StageMoves DEF TypeInv, Stages, Working, Building
    <2>4. DirTyped' /\ dir'.for = dir.for
        BY <2>1, <2>2 DEF TypeInv, DirTyped, DirFields
    <2>5. OwnDir' /\ FilmIsThere'
        BY <2>1, <2>3, <2>4 DEF OwnDir, FilmIsThere, TypeInv, Kept, Building
    <2> QED
        BY <1>1, <2>1, <2>3, <2>4, <2>5, StepKeeps DEF Split
<1>2. CASE CutsAreGood
    <2>1. run.at = "check" /\ Stage("produce") /\ "produce" \in Stages /\ dir.for = run.request /\ ~run.whole
        BY <1>2 DEF CutsAreGood, At, Stages, Working, Building, TypeInv, OwnDir, FilmIsThere
    <2> QED
        BY <1>2, <2>1, StageKeeps DEF CutsAreGood
<1> QED
    BY <1>1, <1>2

LEMMA WipedIsTyped ==
    ASSUME DirTyped, dir' = Wiped
    PROVE  /\ DirTyped' /\ dir'.for = dir.for /\ dir'.reencode = <<>> /\ dir'.fixed = <<>>
           /\ dir'.whole = dir.whole /\ dir'.joined = dir.joined
BY NoPieces DEF DirTyped, DirFields, Wiped, NoFiles

LEMMA CutIsBadKeeps == ASSUME TypeInv, CutIsBad PROVE TypeInv'
<1>1. PICK bad \in Found :
          \E keys \in {(run.keys \ {bad.boundary}) \cup bad.keys} :
          \E plan \in {Plan(Windows, keys)} :
            IF TooFar(bad.boundary)
            THEN Fails /\ UNCHANGED dir
            ELSE /\ dir' = Wiped
                 /\ IF run.tries + 1 = MaxTries
                    THEN Fails
                    ELSE /\ run' = [run EXCEPT !.keys = keys, !.plan = plan, !.tries = @ + 1,
                                      !.at = IF Len(plan) > 1 THEN "split" ELSE "check"]
                         /\ UNCHANGED tmp
    BY DEF CutIsBad
<1> DEFINE keys == (run.keys \ {bad.boundary}) \cup bad.keys
           plan == Plan(Windows, keys)
           s == IF Len(plan) > 1 THEN "split" ELSE "check"
<1>2. /\ run.at = "check" /\ run.at # "none" /\ job' = job
      /\ UNCHANGED <<sources, server, edit>>
    BY DEF CutIsBad, At
<1>3. CASE Fails /\ (UNCHANGED dir \/ dir' = Wiped)
    <2>1. DirTyped'
        BY <1>3, WipedIsTyped DEF TypeInv, DirTyped
    <2> QED
        BY <1>2, <1>3, <2>1, FailKeeps
<1>4. CASE /\ dir' = Wiped /\ run.tries + 1 # MaxTries /\ UNCHANGED tmp
           /\ run' = [run EXCEPT !.keys = keys, !.plan = plan, !.tries = @ + 1, !.at = s]
    <2>1. DirTyped' /\ dir'.for = dir.for
        BY <1>4, WipedIsTyped DEF TypeInv
    <2>2. \E k : plan = Plan(Windows, k)
        OBVIOUS
    <2>3. s \in {"split", "check"} /\ s \in Stages
        BY DEF Stages, Working, Building
    <2> HIDE DEF s, plan, keys
    <2>4. RunTyped' /\ run'.at = s /\ run'.request = run.request /\ run'.whole = run.whole
        BY <1>2, <1>4, <2>2, <2>3, ReplanMoves DEF TypeInv
    <2>5. OwnDir' /\ FilmIsThere'
        BY <1>2, <2>1, <2>3, <2>4 DEF OwnDir, FilmIsThere, TypeInv, Building
    <2> QED
        BY <1>2, <1>4, <2>1, <2>4, <2>5, StepKeeps
<1> HIDE DEF s, plan
<1> QED
    BY <1>1, <1>3, <1>4 DEF s, plan

\* The segment whose turn it is.
LEMMA TurnIsTyped ==
    ASSUME TypeInv, NEW b, Turn(b)
    PROVE  /\ run.at = "produce" /\ Next1 \in Nat /\ run.request \in Requests /\ dir.for = run.request /\ ~run.whole
           /\ \E keys, e : \E n \in Nat \ {0} :
                 /\ Segments(run.plan, run.request.windows, Covered(run.request.windows, keys), e, n)
                 /\ Next1 \in 1..n
<1>1. run.at = "produce" /\ Next1 \in Nat /\ Next1 \in DOMAIN run.plan
    BY DEF Turn, At, Next1, TypeInv, RunTyped, Fitting
<1>2. run.plan # <<>>
    BY <1>1
<1>3. run.request \in Requests /\ \E keys : run.plan = Plan(run.request.windows, keys)
    BY <1>2 DEF TypeInv, RunTyped, Fitting, Planned
<1>4. PICK keys : run.plan = Plan(run.request.windows, keys)
    BY <1>3
<1>5. \E n \in Nat \ {0} : \E e :
          Segments(run.plan, run.request.windows, Covered(run.request.windows, keys), e, n)
    BY <1>4, PlanSegmentsIt
<1>6. PICK n \in Nat \ {0} : \E e :
          Segments(run.plan, run.request.windows, Covered(run.request.windows, keys), e, n)
    BY <1>5
<1>7. PICK e : Segments(run.plan, run.request.windows, Covered(run.request.windows, keys), e, n)
    BY <1>6
<1>8. Next1 \in 1..n
    BY <1>1, <1>7 DEF Segments
<1>9. dir.for = run.request /\ ~run.whole
    BY <1>1 DEF TypeInv, OwnDir, FilmIsThere, Building
<1> HIDE DEF Next1
<1> QED
    BY <1>1, <1>3, <1>7, <1>8, <1>9

\* The piece encoded for it is a piece of the film that is wanted.
LEMMA PieceIsWanted ==
    ASSUME TypeInv, NEW b, Turn(b)
    PROVE  /\ Encoded(run.plan[Next1]) \in Film
           /\ \E a \in 0..Duration : \E c \in 0..Duration :
                 a <= c /\ Encoded(run.plan[Next1]) = Footage(a, c, Within(run.request.windows))
<1> DEFINE windows == run.request.windows
<1>1. windows \in SUBSET Window /\ Duration \in Nat
    BY TurnIsTyped, BlurBuildAssumption
<1>2. \E keys, e : \E n \in Nat \ {0} :
          Segments(run.plan, windows, Covered(windows, keys), e, n) /\ Next1 \in 1..n
    BY TurnIsTyped
<1> HIDE DEF windows
<1>3. PICK keys, e : \E n \in Nat \ {0} :
          Segments(run.plan, windows, Covered(windows, keys), e, n) /\ Next1 \in 1..n
    BY <1>2
<1>4. PICK n \in Nat \ {0} : Segments(run.plan, windows, Covered(windows, keys), e, n) /\ Next1 \in 1..n
    BY <1>3
<1>5. Encoded(run.plan[Next1]) = Footage(e[Next1], e[Next1 + 1], Within(windows))
    BY <1>1, <1>4, SegmentIsWanted DEF SegmentFits
<1> HIDE DEF Next1
<1>6. e[Next1] \in 0..Duration /\ e[Next1 + 1] \in 0..Duration /\ e[Next1] <= e[Next1 + 1]
    <2>1. Next1 \in 1..(n + 1) /\ Next1 + 1 \in 1..(n + 1)
        BY <1>4
    <2>2. e[Next1] \in 0..Duration /\ e[Next1 + 1] \in 0..Duration /\ e[Next1] < e[Next1 + 1]
        BY <1>4, <2>1 DEF Segments
    <2> QED
        BY <1>1, <2>2
<1>7. Encoded(run.plan[Next1]) \in Film
    BY <1>5, <1>6, FootageIsFilm
<1> QED
    BY <1>5, <1>6, <1>7 DEF windows

LEMMA TakingKeeps ==
    ASSUME TypeInv, NEW b, Turn(b), NEW piece \in Film, Take(piece), UNCHANGED <<sources, job, tmp, edit, server>>,
           DirTyped', dir'.for = dir.for
    PROVE  TypeInv'
<1>1. run.at = "produce" /\ dir.for = run.request /\ ~run.whole
    BY TurnIsTyped
<1>2. RunTyped' /\ run'.at = run.at /\ run'.request = run.request /\ run'.whole = run.whole
    BY <1>1, TakeMoves DEF TypeInv
<1>3. OwnDir' /\ FilmIsThere'
    BY <1>1, <1>2 DEF OwnDir, FilmIsThere
<1> QED
    BY <1>1, <1>2, <1>3, StepKeeps

LEMMA ProduceSceneKeeps == ASSUME TypeInv, ProduceScene PROVE TypeInv'
<1>1. Turn(TRUE) /\ UNCHANGED <<sources, job, tmp, edit, server>>
    BY DEF ProduceScene
<1>2. Next1 \in Nat
    BY <1>1, TurnIsTyped
<1>3. CASE Next1 \in DOMAIN dir.reencode /\ Take(dir.reencode[Next1]) /\ UNCHANGED dir
    <2>1. dir.reencode[Next1] \in Film /\ DirTyped'
        BY <1>3 DEF TypeInv, DirTyped, Pieces
    <2> QED
        BY <1>1, <1>3, <2>1, TakingKeeps
<1>4. CASE /\ dir' = [dir EXCEPT !.reencode = Over(Piece(Next1, Encoded(run.plan[Next1])), @)]
           /\ Take(Encoded(run.plan[Next1]))
    <2> DEFINE piece == Encoded(run.plan[Next1])
               files == Over(Piece(Next1, piece), dir.reencode)
    <2>1. piece \in Film
        BY <1>1, PieceIsWanted
    <2> HIDE DEF piece
    <2>2. Pieces(files)
        BY <1>2, <2>1, OneMorePiece DEF TypeInv, DirTyped
    <2>3. dir' = [dir EXCEPT !.reencode = files] /\ Take(piece)
        BY <1>4 DEF piece
    <2> HIDE DEF files
    <2>4. DirTyped' /\ dir'.for = dir.for
        BY <2>2, <2>3 DEF TypeInv, DirTyped, DirFields
    <2> QED
        BY <1>1, <2>1, <2>3, <2>4, TakingKeeps
<1> QED
    BY <1>3, <1>4 DEF ProduceScene

LEMMA ProduceCopyKeeps == ASSUME TypeInv, ProduceCopy PROVE TypeInv'
<1>1. Turn(FALSE) /\ UNCHANGED <<sources, job, edit, server>>
    BY DEF ProduceCopy
<1>2. Next1 \in Nat /\ run.at # "none"
    BY <1>1, TurnIsTyped
<1>3. CASE Next1 \in DOMAIN dir.fixed /\ Take(dir.fixed[Next1]) /\ UNCHANGED <<dir, tmp>>
    <2>1. dir.fixed[Next1] \in Film /\ DirTyped'
        BY <1>3 DEF TypeInv, DirTyped, Pieces
    <2> QED
        BY <1>1, <1>3, <2>1, TakingKeeps
<1>4. CASE /\ Next1 \in DOMAIN dir.copy /\ UNCHANGED tmp
           /\ dir' = [dir EXCEPT !.fixed = Over(Piece(Next1, dir.copy[Next1]), @)]
           /\ Take(dir.copy[Next1])
    <2> DEFINE files == Over(Piece(Next1, dir.copy[Next1]), dir.fixed)
    <2>1. dir.copy[Next1] \in Film
        BY <1>4 DEF TypeInv, DirTyped, Pieces
    <2>2. Pieces(files)
        BY <1>2, <2>1, OneMorePiece DEF TypeInv, DirTyped
    <2>3. dir' = [dir EXCEPT !.fixed = files]
        BY <1>4
    <2> HIDE DEF files
    <2>4. DirTyped' /\ dir'.for = dir.for
        BY <2>2, <2>3 DEF TypeInv, DirTyped, DirFields
    <2> QED
        BY <1>1, <1>4, <2>1, <2>4, TakingKeeps
<1>5. CASE Fails /\ UNCHANGED dir
    <2>1. DirTyped'
        BY <1>5 DEF TypeInv, DirTyped
    <2> QED
        BY <1>1, <1>2, <1>5, <2>1, FailKeeps
<1> QED
    BY <1>3, <1>4, <1>5 DEF ProduceCopy

LEMMA JoinedFilm == ASSUME NEW seqs \in Seq(Film) PROVE FlattenSeq(seqs) \in Film
<1>1. CASE seqs = <<>>
    <2>1. FlattenSeq(<<>>) = <<>>
        BY DEF FlattenSeq
    <2>2. <<>> \in Film
        BY DEF Film
    <2> QED
        BY <1>1, <2>1, <2>2
<1>2. CASE seqs # <<>>
    <2>1. PICK f \in [1..Len(seqs) -> Seq(Frame)] : FlattenSeq(seqs) = f[Len(seqs)]
        BY <1>2, Flattened DEF Film
    <2> QED
        BY <1>2, <2>1 DEF Film
<1> QED
    BY <1>1, <1>2

\* To another stage, with a part of the directory written.
LEMMA WriteKeeps ==
    ASSUME TypeInv, run.at # "none", UNCHANGED <<sources, server, edit, job, tmp>>, NEW s \in Stages, Stage(s),
           DirTyped', dir'.for = dir.for, run.at \in Building \ {"opening"},
           s \in {"audio", "audioJoin", "mux"},
           IF run.whole THEN dir'.whole \in Film ELSE dir'.joined \in Film
    PROVE  TypeInv'
<1>1. RunTyped' /\ run'.at = s /\ Kept
    BY StageMoves DEF TypeInv
<1>2. OwnDir' /\ FilmIsThere'
    BY <1>1 DEF OwnDir, FilmIsThere, Kept, TypeInv
<1> QED
    BY <1>1, <1>2, StepKeeps

LEMMA JoinKeeps == ASSUME TypeInv, Join \/ ReencodeAll PROVE TypeInv'
<1>1. "audio" \in Stages /\ {"produce", "reencode"} \subseteq Building \ {"opening"}
    BY DEF Stages, Working, Building
<1>2. CASE Join
    <2> DEFINE film == FlattenSeq(run.paths)
    <2>1. film \in Film
        BY JoinedFilm DEF TypeInv, RunTyped, Fitting
    <2>2. /\ run.at = "produce" /\ Stage("audio") /\ dir' = [dir EXCEPT !.joined = film]
          /\ UNCHANGED <<sources, job, tmp, edit, server>>
        BY <1>2 DEF Join, At
    <2> HIDE DEF film
    <2>3. DirTyped' /\ dir'.for = dir.for /\ dir'.joined = film
        BY <2>1, <2>2 DEF TypeInv, DirTyped, DirFields
    <2>4. ~run.whole
        BY <2>2 DEF TypeInv, FilmIsThere
    <2> QED
        BY <1>1, <2>1, <2>2, <2>3, <2>4, WriteKeeps
<1>3. CASE ReencodeAll
    <2> DEFINE film == IF dir.whole # NoFile THEN dir.whole ELSE Wanted(Windows)
    <2>1. film \in Film
        <3>1. 0 \in 0..Duration /\ Duration \in 0..Duration /\ 0 <= Duration
            BY BlurBuildAssumption
        <3>2. Wanted(Windows) \in Film
            BY <3>1, FootageIsFilm DEF Wanted
        <3> QED
            BY <3>2 DEF TypeInv, DirTyped
    <2>2. /\ run.at = "reencode" /\ Stage("audio") /\ dir' = [dir EXCEPT !.whole = film]
          /\ UNCHANGED <<sources, job, tmp, edit, server>>
        BY <1>3 DEF ReencodeAll, At
    <2> HIDE DEF film
    <2>3. DirTyped' /\ dir'.for = dir.for /\ dir'.whole = film
        BY <2>1, <2>2 DEF TypeInv, DirTyped, DirFields
    <2>4. run.whole
        BY <2>2 DEF TypeInv, FilmIsThere
    <2> QED
        BY <1>1, <2>1, <2>2, <2>3, <2>4, WriteKeeps
<1> QED
    BY <1>2, <1>3

LEMMA AudioKeeps == ASSUME TypeInv, MuteAudio \/ JoinAudio PROVE TypeInv'
<1>1. {"audio", "audioJoin", "mux"} \subseteq Stages \cap (Building \ {"opening"})
    BY DEF Stages, Working, Building
<1>2. tracks \in 0..MaxTracks
    BY BlurBuildAssumption DEF TypeInv, OutsideTyped
<1>3. CASE MuteAudio /\ run.request.mute /\ dir.audio = 0
    <2> DEFINE m == IF dir.muted = 0 THEN tracks ELSE dir.muted
    <2>1. /\ run.at = "audio" /\ Stage("audioJoin") /\ dir' = [dir EXCEPT !.muted = m]
          /\ UNCHANGED <<sources, job, tmp, edit, server>>
        BY <1>3 DEF MuteAudio, At
    <2>2. m \in 0..MaxTracks
        BY <1>2 DEF TypeInv, DirTyped
    <2> HIDE DEF m
    <2>3. DirTyped' /\ dir'.for = dir.for /\ dir'.joined = dir.joined /\ dir'.whole = dir.whole
        BY <2>1, <2>2 DEF TypeInv, DirTyped, DirFields
    <2> QED
        BY <1>1, <2>1, <2>3, WriteKeeps DEF TypeInv, FilmIsThere
<1>4. CASE MuteAudio /\ ~(run.request.mute /\ dir.audio = 0)
    <2>1. /\ run.at = "audio" /\ Stage("mux") /\ dir' = dir
          /\ UNCHANGED <<sources, job, tmp, edit, server>>
        BY <1>4 DEF MuteAudio, At
    <2>2. DirTyped'
        BY <2>1 DEF TypeInv, DirTyped
    <2> QED
        BY <1>1, <2>1, <2>2, WriteKeeps DEF TypeInv, FilmIsThere
<1>5. CASE JoinAudio /\ dir.muted < tracks
    <2>1. DirTyped' /\ run.at = "audioJoin" /\ Fails /\ UNCHANGED <<sources, job, edit, server>>
        BY <1>5 DEF TypeInv, DirTyped, JoinAudio, At
    <2> QED
        BY <2>1, FailKeeps
<1>6. CASE JoinAudio /\ ~(dir.muted < tracks)
    <2>1. /\ run.at = "audioJoin" /\ Stage("mux") /\ dir' = [dir EXCEPT !.audio = tracks]
          /\ UNCHANGED <<sources, job, tmp, edit, server>>
        BY <1>6 DEF JoinAudio, At
    <2>2. DirTyped' /\ dir'.for = dir.for /\ dir'.joined = dir.joined /\ dir'.whole = dir.whole
        BY <1>2, <2>1 DEF TypeInv, DirTyped, DirFields
    <2> QED
        BY <1>1, <2>1, <2>2, WriteKeeps DEF TypeInv, FilmIsThere
<1> QED
    BY <1>3, <1>4, <1>5, <1>6

LEMMA MuxKeeps == ASSUME TypeInv, Mux \/ Verify PROVE TypeInv'
<1>1. CASE Fails /\ UNCHANGED <<sources, job, dir, edit, server>> /\ run.at \in {"mux", "verify"}
    <2>1. DirTyped'
        BY <1>1 DEF TypeInv, DirTyped
    <2> QED
        BY <1>1, <2>1, FailKeeps
<1>2. CASE Mux /\ ~LacksTracks
    <2>1. /\ run.at = "mux" /\ Stage("verify") /\ tmp' = IF run.whole THEN dir.whole ELSE dir.joined
          /\ UNCHANGED <<sources, job, dir, edit, server>>
        BY <1>2 DEF Mux, At
    <2>2. tmp' \in Film /\ dir.for = run.request /\ "verify" \in Stages
        BY <2>1 DEF TypeInv, FilmIsThere, OwnDir, Stages, Working, Building
    <2> QED
        BY <2>1, <2>2, StageKeeps
<1>3. CASE Verify /\ RightLength
    <2>1. /\ run.at = "verify" /\ Stage("publish") /\ tmp' = tmp
          /\ UNCHANGED <<sources, job, dir, edit, server>>
        BY <1>3 DEF Verify, At
    <2>2. tmp' \in Film /\ "publish" \in Stages /\ "publish" \notin Building
        BY <2>1 DEF TypeInv, FilmIsThere, Stages, Working, Building
    <2> QED
        BY <2>1, <2>2, StageKeeps
<1> QED
    BY <1>1, <1>2, <1>3 DEF Mux, Verify, At

LEMMA PublishKeeps == ASSUME TypeInv, Publish PROVE TypeInv'
<1>1. /\ run.at = "publish" /\ Stage("clean") /\ tmp' = NoFile
      /\ edit' = [request |-> run.request, footage |-> tmp]
      /\ UNCHANGED <<sources, job, dir, server>>
    BY DEF Publish, At
<1>2. RunTyped' /\ run'.at = "clean"
    BY <1>1, StageMoves DEF TypeInv, Stages
<1>3. edit'.request \in Requests /\ edit'.footage \in Film
    BY <1>1 DEF TypeInv, FilmIsThere, RunTyped, Fitting
<1>4. OutsideTyped' /\ DirTyped'
    BY <1>1, <1>3, RunIsUp DEF TypeInv, OutsideTyped, DirTyped, sources, server
<1>5. OwnDir' /\ FilmIsThere'
    BY <1>2 DEF OwnDir, FilmIsThere, Building
<1> QED
    BY <1>2, <1>4, <1>5 DEF TypeInv

LEMMA CleanKeeps == ASSUME TypeInv, Clean \/ Record \/ Save PROVE TypeInv'
<1>1. CASE Clean
    <2> DEFINE s == IF At("clean") THEN "recording" ELSE "savingFailed"
    <2>1. /\ run.at # "none" /\ Stage(s) /\ dir' = EmptyDir
          /\ UNCHANGED <<sources, job, tmp, edit, server>>
        BY <1>1 DEF Clean, At
    <2>2. s \in {"recording", "savingFailed"} /\ s \in Stages
        BY DEF Stages, Working
    <2> HIDE DEF s
    <2>3. RunTyped' /\ run'.at = s
        BY <2>1, <2>2, StageMoves DEF TypeInv
    <2>4. DirTyped'
        BY <2>1, Empty, NoPieces, BlurBuildAssumption DEF DirTyped, Requested
    <2>5. OwnDir' /\ FilmIsThere'
        BY <2>2, <2>3 DEF OwnDir, FilmIsThere, Building
    <2> QED
        BY <2>1, <2>3, <2>4, <2>5, StepKeeps
<1>2. CASE Save
    <2>1. RunTyped' /\ run'.at = "none"
        BY <1>2, RunEnds DEF Save
    <2>2. OutsideTyped' /\ DirTyped'
        BY <1>2, <2>1 DEF Save, TypeInv, OutsideTyped, DirTyped, sources, server
    <2>3. OwnDir' /\ FilmIsThere'
        BY <2>1 DEF OwnDir, FilmIsThere, Building
    <2> QED
        BY <2>1, <2>2, <2>3 DEF TypeInv
<1>3. CASE Record
    <2>1. run.at = "recording" /\ Stage("saving") /\ UNCHANGED <<sources, job, dir, tmp, edit, server>>
        BY <1>3 DEF Record, At
    <2> QED
        BY <2>1, StageKeeps DEF Stages, Building
<1> QED
    BY <1>1, <1>2, <1>3

\* What a half-wiped directory holds was there before.
LEMMA HalfWipedIsLess ==
    ASSUME DirTyped, dir' \in HalfWiped
    PROVE  /\ DirTyped' /\ dir'.for \in {dir.for, NoFile} /\ dir'.whole \in {dir.whole, NoFile}
           /\ DOMAIN dir'.reencode \subseteq DOMAIN dir.reencode
           /\ \A i \in DOMAIN dir'.reencode : dir'.reencode[i] = dir.reencode[i]
<1>1. /\ dir' = [y \in DirFields |-> dir'[y]]
      /\ dir'.for \in {dir.for, NoFile} /\ dir'.copy = NoFiles /\ dir'.fixed \in {dir.fixed, NoFiles}
      /\ dir'.reencode \in {Restrict(dir.reencode, S) : S \in SUBSET DOMAIN dir.reencode}
      /\ dir'.joined \in {dir.joined, NoFile} /\ dir'.whole \in {dir.whole, NoFile}
      /\ dir'.muted \in {dir.muted, 0} /\ dir'.audio \in {dir.audio, 0}
    <2> DEFINE parts == {Restrict(dir.reencode, S) : S \in SUBSET DOMAIN dir.reencode}
    <2>1. dir' \in [for: {dir.for, NoFile}, copy: {NoFiles}, fixed: {dir.fixed, NoFiles}, reencode: parts,
                    joined: {dir.joined, NoFile}, whole: {dir.whole, NoFile},
                    muted: {dir.muted, 0}, audio: {dir.audio, 0}]
        BY DEF HalfWiped
    <2> HIDE DEF parts
    <2>2. /\ dir' = [y \in DirFields |-> dir'[y]]
          /\ dir'.for \in {dir.for, NoFile} /\ dir'.copy = NoFiles /\ dir'.fixed \in {dir.fixed, NoFiles}
          /\ dir'.reencode \in parts
          /\ dir'.joined \in {dir.joined, NoFile} /\ dir'.whole \in {dir.whole, NoFile}
          /\ dir'.muted \in {dir.muted, 0} /\ dir'.audio \in {dir.audio, 0}
        BY <2>1 DEF DirFields
    <2> QED
        BY <2>2 DEF parts
<1>2. PICK S \in SUBSET DOMAIN dir.reencode : dir'.reencode = Restrict(dir.reencode, S)
    BY <1>1
<1>3. DOMAIN dir'.reencode = S /\ \A i \in S : dir'.reencode[i] = dir.reencode[i]
    BY <1>2 DEF Restrict
<1>4. Pieces(NoFiles) /\ Pieces(dir'.fixed) /\ Pieces(dir'.reencode)
    BY <1>1, <1>2, <1>3, NoPieces DEF DirTyped, Pieces, NoFiles
<1>5. 0 \in 0..MaxTracks
    BY BlurBuildAssumption
<1> QED
    BY <1>1, <1>2, <1>3, <1>4, <1>5 DEF DirTyped, Requested

LEMMA OthersKeep == ASSUME TypeInv, Fail \/ Cancel \/ Lose \/ Review \/ AddTrack \/ Crash \/ Start PROVE TypeInv'
<1>1. CASE Fail
    <2>1. DirTyped' /\ run.at # "none" /\ Fails /\ UNCHANGED <<sources, job, edit, server>>
        BY <1>1 DEF Fail, TypeInv, DirTyped, Working, Building
    <2> QED
        BY <2>1, FailKeeps
<1>2. CASE Cancel
    <2>1. RunTyped' /\ run'.at = "none"
        BY <1>2, RunEnds DEF Cancel
    <2>2. OutsideTyped' /\ DirTyped'
        BY <1>2, <2>1 DEF Cancel, TypeInv, OutsideTyped, DirTyped, sources, server
    <2>3. OwnDir' /\ FilmIsThere'
        BY <2>1 DEF OwnDir, FilmIsThere, Building
    <2> QED
        BY <2>1, <2>2, <2>3 DEF TypeInv
<1>3. CASE Review \/ AddTrack
    <2>1. UNCHANGED <<job, run, dir, tmp, edit, up, lives, lost, video>> /\ approved' \in Requests /\ tracks' \in 1..MaxTracks
        <3>1. CASE Review
            BY <3>1 DEF Review, TypeInv, OutsideTyped, sources, server
        <3>2. CASE AddTrack
            BY <3>2, BlurBuildAssumption DEF AddTrack, TypeInv, OutsideTyped, sources, server
        <3> QED
            BY <1>3, <3>1, <3>2
    <2> QED
        BY <2>1 DEF TypeInv, OutsideTyped, RunTyped, DirTyped, OwnDir, FilmIsThere
<1>4. CASE Crash
    <2>1. RunTyped' /\ run'.at = "none"
        BY <1>4, RunEnds DEF Crash
    <2>2. DirTyped'
        <3>1. CASE UNCHANGED dir
            BY <3>1 DEF TypeInv, DirTyped
        <3>2. CASE dir' \in HalfWiped
            BY <3>2, HalfWipedIsLess DEF TypeInv
        <3> QED
            BY <1>4, <3>1, <3>2 DEF Crash
    <2>3. OutsideTyped'
        BY <1>4, <2>1 DEF Crash, TypeInv, OutsideTyped, sources
    <2>4. OwnDir' /\ FilmIsThere'
        BY <2>1 DEF OwnDir, FilmIsThere, Building
    <2> QED
        BY <2>1, <2>2, <2>3, <2>4 DEF TypeInv
<1>5. CASE Start
    <2>1. run.at = "none" /\ UNCHANGED <<sources, run, dir, edit>> /\ tmp' \in {tmp, NoFile}
        BY <1>5 DEF Start, TypeInv, OutsideTyped
    <2>2. RunTyped' /\ DirTyped'
        BY <2>1 DEF TypeInv, RunTyped, DirTyped
    <2>3. OwnDir' /\ FilmIsThere'
        BY <2>1 DEF OwnDir, FilmIsThere, Building
    <2>4. OutsideTyped'
        BY <1>5, <2>1, BlurBuildAssumption DEF Start, TypeInv, OutsideTyped, sources
    <2> QED
        BY <2>2, <2>3, <2>4 DEF TypeInv
<1>6. CASE Lose
    <2>1. RunTyped' /\ run'.at = "none"
        BY <1>6, RunEnds DEF Lose
    <2>2. DirTyped'
        <3>1. CASE UNCHANGED dir
            BY <3>1 DEF TypeInv, DirTyped
        <3>2. CASE dir' = EmptyDir
            BY <3>2, Empty, NoPieces, BlurBuildAssumption DEF DirTyped, Requested
        <3> QED
            BY <1>6, <3>1, <3>2 DEF Lose
    <2>3. OutsideTyped'
        BY <1>6, <2>1 DEF Lose, TypeInv, OutsideTyped, sources
    <2>4. OwnDir' /\ FilmIsThere'
        BY <2>1 DEF OwnDir, FilmIsThere, Building
    <2> QED
        BY <2>1, <2>2, <2>3, <2>4 DEF TypeInv
<1> QED
    BY <1>1, <1>2, <1>3, <1>4, <1>5, <1>6

LEMMA NextKeepsTypes == TypeInv /\ [Next]_vars => TypeInv'
<1> SUFFICES ASSUME TypeInv, [Next]_vars PROVE TypeInv'
    OBVIOUS
<1>1. CASE Attempt
    BY <1>1, BeginKeeps, OpenKeeps, PlanKeeps, SplitKeeps, CutIsBadKeeps, ProduceSceneKeeps, ProduceCopyKeeps,
        JoinKeeps, AudioKeeps, MuxKeeps, PublishKeeps, CleanKeeps DEF Attempt
<1>2. CASE UNCHANGED vars
    BY <1>2 DEF vars, TypeInv, OutsideTyped, RunTyped, DirTyped, OwnDir, FilmIsThere
<1> QED
    BY <1>1, <1>2, OthersKeep DEF Next

LEMMA InitIsTyped == Init => TypeInv
<1> SUFFICES ASSUME Init PROVE TypeInv
    OBVIOUS
<1>1. RunTyped /\ run.at = "none"
    <2>1. "none" \in Stages /\ NoFile \in Requested
        BY DEF Stages, Requested
    <2> QED
        BY <2>1, Empty, NothingPlanned DEF Init, RunTyped
<1>2. DirTyped
    BY Empty, NoPieces, BlurBuildAssumption DEF Init, DirTyped, Requested
<1>3. OutsideTyped
    <2>1. lost \in BOOLEAN /\ up \in BOOLEAN /\ up
        BY DEF Init
    <2> QED
        BY <1>1, <2>1, BlurBuildAssumption DEF Init, OutsideTyped
<1>4. OwnDir /\ FilmIsThere
    BY <1>1 DEF OwnDir, FilmIsThere, Building
<1> QED
    BY <1>1, <1>2, <1>3, <1>4 DEF TypeInv

LEMMA TypesHold == Spec => []TypeInv
BY InitIsTyped, NextKeepsTypes, PTL DEF Spec

\* Whatever fails, is cancelled or dies, an attempt goes by its stages and
\* every file in the directory, the temp file and the edit is footage.
THEOREM TypeCorrect == Spec => []TypeOK
<1>1. TypeInv => TypeOK
    BY DEF TypeInv, TypeOK, OutsideTyped, RunTyped, Fitting, DirTyped
<1> QED
    BY <1>1, TypesHold, PTL

\* A plan plays the whole video once, in order, and re-encodes exactly the
\* windows as blurred, for any windows and whatever keyframes are known.
THEOREM PlansAreExact == Spec => []PlanIsExact
<1>1. TypeInv => PlanIsExact
    <2> SUFFICES ASSUME TypeInv, run.plan # <<>>
                 PROVE  FlattenSeq([i \in DOMAIN run.plan |-> Encoded(run.plan[i])]) = Wanted(Windows)
        BY DEF PlanIsExact
    <2>1. run.request \in Requests /\ \E keys : run.plan = Plan(run.request.windows, keys)
        BY DEF TypeInv, RunTyped, Fitting, Planned
    <2>2. PICK keys : run.plan = Plan(run.request.windows, keys)
        BY <2>1
    <2>3. run.request.windows \in SUBSET Window
        BY <2>1, BlurBuildAssumption
    <2> QED
        BY <2>2, <2>3, PlanPlaysAll DEF Windows
<1> QED
    BY <1>1, TypesHold, PTL

---------------------------------------------------------------------------
(* The pieces in the directory and its fingerprint *)

PieceFits(film, in) == \A i \in DOMAIN film : film[i].blur = (film[i].cell \in in)
FitInv ==
    dir.for # NoFile =>
        /\ \A i \in DOMAIN dir.reencode : PieceFits(dir.reencode[i], Within(dir.for.windows))
        /\ dir.whole # NoFile => PieceFits(dir.whole, Within(dir.for.windows))

LEMMA FootageFits ==
    ASSUME NEW a \in 0..Duration, NEW b \in 0..Duration, NEW W, a <= b
    PROVE  PieceFits(Footage(a, b, W), W)
<1>1. DOMAIN Footage(a, b, W) = 1..(b - a)
    BY DEF Footage
<1>2. ASSUME NEW i \in 1..(b - a)
      PROVE  Footage(a, b, W)[i].blur = (Footage(a, b, W)[i].cell \in W)
    <2>1. Footage(a, b, W)[i] = [cell |-> a + i - 1, blur |-> (a + i - 1) \in W]
        BY <1>2 DEF Footage
    <2> QED
        BY <2>1
<1> QED
    BY <1>1, <1>2 DEF PieceFits

\* A directory that lost pieces.
LEMMA LessFits ==
    ASSUME FitInv, dir'.for \in {dir.for, NoFile}, dir'.whole \in {dir.whole, NoFile},
           DOMAIN dir'.reencode \subseteq DOMAIN dir.reencode,
           \A i \in DOMAIN dir'.reencode : dir'.reencode[i] = dir.reencode[i]
    PROVE  FitInv'
BY DEF FitInv

LEMMA OpenFits == ASSUME TypeInv, FitInv, Open PROVE FitInv'
<1>1. CASE dir' = dir
    BY <1>1, LessFits
<1>2. CASE dir' = [EmptyDir EXCEPT !.for = run.request]
    <2>1. dir'.whole = NoFile /\ dir'.reencode = <<>>
        BY <1>2, Empty DEF DirFields
    <2> QED
        BY <2>1 DEF FitInv
<1> QED
    BY <1>1, <1>2 DEF Open, FreshDir

\* A scene's piece is a piece of the film that is wanted by the request the
\* directory was opened for.
LEMMA ProduceSceneFits == ASSUME TypeInv, FitInv, ProduceScene PROVE FitInv'
<1>1. Turn(TRUE) /\ dir.for = run.request /\ Next1 \in Nat
    BY TurnIsTyped DEF ProduceScene
<1>2. CASE UNCHANGED dir
    BY <1>2, LessFits
<1>3. CASE dir' = [dir EXCEPT !.reencode = Over(Piece(Next1, Encoded(run.plan[Next1])), @)]
    <2> DEFINE piece == Encoded(run.plan[Next1])
               files == Over(Piece(Next1, piece), dir.reencode)
    <2>1. PieceFits(piece, Within(dir.for.windows))
        <3>1. PICK a \in 0..Duration, c \in 0..Duration :
                  a <= c /\ piece = Footage(a, c, Within(run.request.windows))
            BY <1>1, PieceIsWanted
        <3> QED
            BY <1>1, <3>1, FootageFits
    <2> HIDE DEF piece
    <2>2. /\ DOMAIN files = {Next1} \cup DOMAIN dir.reencode
          /\ \A i \in DOMAIN files : files[i] = IF i = Next1 THEN piece ELSE dir.reencode[i]
        BY DEF Over, Piece
    <2>3. dir' = [dir EXCEPT !.reencode = files]
        BY <1>3 DEF piece
    <2> HIDE DEF files
    <2>4. dir'.for = dir.for /\ dir'.whole = dir.whole /\ dir'.reencode = files
        BY <2>3 DEF TypeInv, DirTyped, DirFields
    <2> QED
        BY <2>1, <2>2, <2>4 DEF FitInv
<1> QED
    BY <1>2, <1>3 DEF ProduceScene

LEMMA ReencodeAllFits == ASSUME TypeInv, FitInv, ReencodeAll PROVE FitInv'
<1>1. run.at = "reencode" /\ dir.for = run.request
    BY DEF ReencodeAll, At, TypeInv, OwnDir, Building
<1> DEFINE film == IF dir.whole # NoFile THEN dir.whole ELSE Wanted(Windows)
<1>2. dir.for # NoFile => PieceFits(film, Within(dir.for.windows))
    <2>1. PieceFits(Wanted(Windows), Within(dir.for.windows))
        <3>1. 0 \in 0..Duration /\ Duration \in 0..Duration /\ 0 <= Duration
            BY BlurBuildAssumption
        <3> QED
            BY <1>1, <3>1, FootageFits DEF Wanted, Windows
    <2> QED
        BY <2>1 DEF FitInv
<1>3. dir' = [dir EXCEPT !.whole = film]
    BY DEF ReencodeAll
<1> HIDE DEF film
<1>4. dir'.for = dir.for /\ dir'.whole = film /\ dir'.reencode = dir.reencode
    BY <1>3 DEF TypeInv, DirTyped, DirFields
<1> QED
    BY <1>2, <1>4 DEF FitInv

LEMMA WritesFit ==
    ASSUME TypeInv, FitInv, Split \/ ProduceCopy \/ Join \/ MuteAudio \/ JoinAudio PROVE FitInv'
<1>1. dir'.for = dir.for /\ dir'.whole = dir.whole /\ dir'.reencode = dir.reencode
    <2>1. CASE Split
        BY <2>1 DEF Split, TypeInv, DirTyped, DirFields
    <2>2. CASE ProduceCopy
        BY <2>2 DEF ProduceCopy, TypeInv, DirTyped, DirFields
    <2>3. CASE Join
        BY <2>3 DEF Join, TypeInv, DirTyped, DirFields
    <2>4. CASE MuteAudio \/ JoinAudio
        BY <2>4 DEF MuteAudio, JoinAudio, TypeInv, DirTyped, DirFields
    <2> QED
        BY <2>1, <2>2, <2>3, <2>4
<1> QED
    BY <1>1, LessFits

LEMMA CutIsBadFits == ASSUME TypeInv, FitInv, CutIsBad PROVE FitInv'
<1>1. dir' = dir \/ dir' = Wiped
    BY DEF CutIsBad
<1>2. CASE dir' = Wiped
    <2>1. dir'.for = dir.for /\ dir'.whole = dir.whole /\ dir'.reencode = <<>>
        BY <1>2, WipedIsTyped DEF TypeInv
    <2> QED
        BY <2>1, LessFits
<1> QED
    BY <1>1, <1>2, LessFits

LEMMA NextFits == TypeInv /\ FitInv /\ [Next]_vars => FitInv'
<1> SUFFICES ASSUME TypeInv, FitInv, [Next]_vars PROVE FitInv'
    OBVIOUS
<1>1. CASE dir' = dir
    BY <1>1, LessFits
<1>2. CASE dir' = EmptyDir
    <2>1. dir'.for = NoFile
        BY <1>2, Empty
    <2> QED
        BY <2>1 DEF FitInv
<1>3. CASE Crash
    <2>1. CASE dir' \in HalfWiped
        BY <2>1, HalfWipedIsLess, LessFits DEF TypeInv
    <2> QED
        BY <1>1, <1>3, <2>1 DEF Crash
<1>4. CASE Begin \/ Probe \/ PlanSegments \/ CutsAreGood \/ Mux \/ Verify \/ Publish \/ Record \/ Save
    BY <1>1, <1>4 DEF Begin, Probe, PlanSegments, CutsAreGood, Mux, Verify, Publish, Record, Save
<1>5. CASE Clean \/ Lose
    BY <1>1, <1>2, <1>5 DEF Clean, Lose
<1>6. CASE Fail \/ Cancel \/ Review \/ AddTrack \/ Start \/ UNCHANGED vars
    BY <1>1, <1>6 DEF Fail, Cancel, Review, AddTrack, Start, vars
<1> QED
    BY <1>3, <1>4, <1>5, <1>6, OpenFits, ProduceSceneFits, ReencodeAllFits, WritesFit, CutIsBadFits DEF Next, Attempt

\* No piece in the work directory blurs what its fingerprint does not ask for,
\* and none that was encoded leaves a window of it bare, through any crashes in
\* the middle of a wipe and any changes of what is approved.
THEOREM PiecesFit == Spec => []PiecesFitFingerprint
<1>1. Init => FitInv
    BY Empty DEF Init, FitInv
<1>2. FitInv => PiecesFitFingerprint
    BY DEF FitInv, PieceFits, PiecesFitFingerprint
<1> QED
    BY <1>1, <1>2, TypesHold, NextFits, PTL DEF Spec

---------------------------------------------------------------------------
(* What is published is right, when no probe of a cut fails *)

\* The plan with the keyframes that were probed, the one without any, and
\* whether the cuts of the first pass their checks.
FirstPlan(v, ws) == Plan(ws, v.keys)
WholePlan(ws)    == Plan(ws, {})
Clean1st(v, ws)  == AllComplaints(v, FirstPlan(v, ws), SplitCopies(v, FirstPlan(v, ws))) = <<>>

\* A piece that a join with the others of the plan p may contain: it is what
\* the plan wants there; or it is the whole film, and then the others make the
\* join too long; or it is the last and may end early, which makes it too short.
GoodPiece(p, ws, i, film) ==
    \/ film = Footage(p[i].from, p[i].to, Within(ws))
    \/ i = 1 /\ film = Wanted(ws)
    \/ i = Len(p) /\ \E c \in 0..Duration : p[i].from < c /\ film = Footage(p[i].from, c, Within(ws))

\* What produce finds in the directory d is good for the plan p.
GoodFiles(p, ws, d) ==
    \A i \in 1..Len(p) :
        /\ p[i].reencode /\ i \in DOMAIN d.reencode => GoodPiece(p, ws, i, d.reencode[i])
        /\ ~p[i].reencode /\ i \in DOMAIN d.fixed => GoodPiece(p, ws, i, d.fixed[i])
        /\ ~p[i].reencode /\ i \in DOMAIN d.copy => GoodPiece(p, ws, i, d.copy[i])

Among(f, g) == \A i \in DOMAIN f : i \in DOMAIN g /\ f[i] = g[i]

RightFilm(film, ws) == Len(film) = Duration => film = Wanted(ws)

\* What every attempt at the windows ws leaves behind.
GoodDir(v, d, ws) ==
    /\ d.whole # NoFile => d.whole = Wanted(ws)
    /\ d.joined # NoFile => RightFilm(d.joined, ws)
    /\ 1 \in DOMAIN d.reencode => \E c \in 1..Duration : d.reencode[1] = Footage(0, c, Within(ws))
    /\ Clean1st(v, ws) =>
        LET p == FirstPlan(v, ws)
            s == SplitCopies(v, p)
        IN  /\ Among(d.copy, s) /\ Among(d.fixed, s)
            /\ \A i \in 1..Len(p) : p[i].reencode /\ i \in DOMAIN d.reencode => GoodPiece(p, ws, i, d.reencode[i])

\* What the attempt r has planned, and what it has found and taken so far.
GoodRun(v, d, r) ==
    LET ws == r.request.windows IN
    /\ r.at \in Working \ {"recording"} => ws # {}
    /\ r.at \in {"probing", "opening", "keyframes"} => r.tries = 0
    /\ r.at \in {"probing", "opening", "keyframes", "split", "check"} => r.paths = <<>>
    /\ r.at \in {"split", "check", "produce"} => \E keys : r.plan = Plan(ws, keys)
    /\ r.at \in {"split", "check"} =>
        /\ Clean1st(v, ws) => r.tries = 0
        /\ r.tries = 0 => r.plan = FirstPlan(v, ws)
        /\ r.tries = 0 /\ r.at = "check" => Among(SplitCopies(v, r.plan), d.copy)
        /\ r.tries # 0 => /\ d.reencode = <<>> /\ d.fixed = <<>>
                          /\ r.at = "split" => d.copy = <<>>
                          /\ r.at = "check" => Among(d.copy, SplitCopies(v, r.plan))
    /\ r.at = "produce" =>
        /\ Clean1st(v, ws) => r.plan \in {FirstPlan(v, ws), WholePlan(ws)}
        /\ GoodFiles(r.plan, ws, d)
        /\ \A i \in 1..Len(r.paths) : GoodPiece(r.plan, ws, i, r.paths[i])

DirIsGood == dir.for # NoFile => GoodDir(video, dir, dir.for.windows)
RunIsGood == GoodRun(video, dir, run)
TmpIsGood ==
    /\ At("verify") => RightFilm(tmp, Windows)
    /\ At("publish") => tmp = Wanted(Windows)
EditInv == DirIsGood /\ RunIsGood /\ TmpIsGood /\ EditIsRight

LEMMA FlatGrows ==
    ASSUME NEW S, NEW n \in Nat \ {0}, NEW seqs \in Seq(Seq(S)), Len(seqs) = n,
           NEW f \in [1..n -> Seq(S)], f[1] = seqs[1],
           \A i \in 1..n : i < n => f[i + 1] = f[i] \o seqs[i + 1],
           NEW i \in 1..n, NEW j \in 1..n, i <= j
    PROVE  Len(f[i]) <= Len(f[j]) /\ Len(seqs[j]) <= Len(f[j])
<1> DEFINE T == {k \in Nat : k \in i..n /\ ~(Len(f[i]) <= Len(f[k]))}
<1>1. \A k \in 1..n : f[k] \in Seq(S) /\ seqs[k] \in Seq(S) /\ Len(f[k]) \in Nat /\ Len(seqs[k]) \in Nat
    BY ElementOfSeq
<1>2. ASSUME NEW k \in 1..n, k > 1
      PROVE  Len(f[k]) = Len(f[k - 1]) + Len(seqs[k]) /\ k - 1 \in 1..n
    <2>1. k - 1 \in 1..n /\ k - 1 < n /\ (k - 1) + 1 = k
        BY <1>2
    <2>2. f[k] = f[k - 1] \o seqs[k]
        BY <2>1
    <2> QED
        BY <1>1, <2>1, <2>2, ConcatProperties
<1>3. T = {}
    <2>1. SUFFICES ASSUME T # {} PROVE FALSE
        OBVIOUS
    <2>2. PICK k \in T : \A m \in T : k <= m
        <3>1. T \in SUBSET Nat
            OBVIOUS
        <3> HIDE DEF T
        <3> QED
            BY <2>1, <3>1, LeastNumber
    <2>3. k \in 1..n /\ k \in i..n /\ ~(Len(f[i]) <= Len(f[k]))
        OBVIOUS
    <2>4. k # i
        BY <1>1, <2>3
    <2>5. k > 1 /\ k - 1 \in Nat /\ k - 1 \in i..n /\ ~(k <= k - 1)
        BY <2>3, <2>4
    <2>6. Len(f[i]) <= Len(f[k - 1])
        <3>1. k - 1 \notin T
            <4> HIDE DEF T
            <4> QED
                BY <2>2, <2>5
        <3> QED
            BY <2>5, <3>1
    <2>7. Len(f[k]) = Len(f[k - 1]) + Len(seqs[k]) /\ k - 1 \in 1..n
        BY <1>2, <2>3, <2>5
    <2> HIDE DEF T
    <2> QED
        BY <1>1, <2>3, <2>6, <2>7
<1>4. Len(f[i]) <= Len(f[j])
    <2>1. j \in Nat /\ j \in i..n
        OBVIOUS
    <2> QED
        BY <1>3, <2>1
<1>5. Len(seqs[j]) <= Len(f[j])
    <2>1. CASE j = 1
        BY <1>1, <2>1
    <2>2. CASE j > 1
        BY <1>1, <1>2, <2>2
    <2> QED
        BY <2>1, <2>2
<1> QED
    BY <1>4, <1>5

\* A join is empty when all its parts are.
LEMMA FlatIsEmpty ==
    ASSUME NEW S, NEW seqs \in Seq(Seq(S)), seqs # <<>>
    PROVE  /\ FlattenSeq(seqs) \in Seq(S)
           /\ FlattenSeq(seqs) = <<>> <=> \A i \in 1..Len(seqs) : seqs[i] = <<>>
<1> DEFINE n == Len(seqs)
<1>1. n \in Nat \ {0} /\ \A i \in 1..n : seqs[i] \in Seq(S)
    BY ElementOfSeq, EmptySeq
<1>2. PICK f \in [1..n -> Seq(S)] :
          /\ f[1] = seqs[1]
          /\ \A i \in 1..n : i < n => f[i + 1] = f[i] \o seqs[i + 1]
          /\ FlattenSeq(seqs) = f[n]
    BY Flattened
<1> HIDE DEF n
<1>3. ASSUME FlattenSeq(seqs) = <<>>, NEW i \in 1..n PROVE seqs[i] = <<>>
    <2>1. f[n] = <<>> /\ n \in 1..n /\ i <= n
        BY <1>1, <1>2, <1>3
    <2>2. Len(f[i]) <= Len(f[n]) /\ Len(seqs[i]) <= Len(f[i])
        <3>1. Len(seqs) = n /\ i \in Nat /\ i <= i
            BY <1>1 DEF n
        <3>2. Len(f[i]) <= Len(f[n])
            BY <1>1, <1>2, <2>1, <3>1, FlatGrows
        <3>3. Len(seqs[i]) <= Len(f[i])
            BY <1>1, <1>2, <2>1, <3>1, FlatGrows
        <3> QED
            BY <3>2, <3>3
    <2>3. Len(f[n]) = 0 /\ Len(f[i]) \in Nat /\ Len(seqs[i]) \in Nat
        BY <1>1, <2>1
    <2>4. Len(seqs[i]) = 0
        BY <2>2, <2>3
    <2> QED
        BY <1>1, <2>4, EmptySeq
<1>4. ASSUME \A i \in 1..n : seqs[i] = <<>> PROVE FlattenSeq(seqs) = <<>>
    <2> DEFINE T == {k \in Nat : k \in 1..n /\ f[k] # <<>>}
    <2>1. T = {}
        <3>1. SUFFICES ASSUME T # {} PROVE FALSE
            OBVIOUS
        <3>2. PICK k \in T : \A m \in T : k <= m
            <4>1. T \in SUBSET Nat
                OBVIOUS
            <4> HIDE DEF T
            <4> QED
                BY <3>1, <4>1, LeastNumber
        <3>3. k \in 1..n /\ f[k] # <<>> /\ k # 1
            BY <1>1, <1>2, <1>4
        <3>4. k - 1 \in Nat /\ k - 1 \in 1..n /\ k - 1 < n /\ (k - 1) + 1 = k /\ ~(k <= k - 1)
            BY <1>1, <3>3
        <3>5. f[k - 1] = <<>>
            <4>1. k - 1 \notin T
                <5> HIDE DEF T
                <5> QED
                    BY <3>2, <3>4
            <4> QED
                BY <3>4, <4>1
        <3>6. f[k] = f[k - 1] \o seqs[k]
            BY <1>2, <3>4
        <3>7. seqs[k] = <<>>
            BY <1>4, <3>3
        <3>8. <<>> \o <<>> = <<>>
            OBVIOUS
        <3> QED
            BY <3>3, <3>5, <3>6, <3>7, <3>8
    <2>2. n \in Nat /\ n \in 1..n
        BY <1>1
    <2> QED
        BY <1>2, <2>1, <2>2
<1>5. FlattenSeq(seqs) \in Seq(S)
    BY <1>1, <1>2
<1> QED
    BY <1>3, <1>4, <1>5 DEF n

---------------------------------------------------------------------------
(* The checks of the cuts *)

\* What may be complained of.
Sayings(p, files) ==
    [boundary: {p[i].from : i \in DOMAIN p} \cup {p[i].to : i \in DOMAIN p},
     keys: {{}} \cup {{files[i][1].cell} : i \in DOMAIN p}]

LEMMA ComplaintIs ==
    ASSUME NEW v, NEW p, NEW files, NEW i \in DOMAIN p
    PROVE  /\ Complaints(v, p, files, i) \in Seq(Sayings(p, files))
           /\ i \notin DOMAIN files => Complaints(v, p, files, i) = <<>>
           /\ ~p[i].reencode /\ i \in DOMAIN files /\ Complaints(v, p, files, i) = <<>>
                => /\ p[i].from > 0 => files[i][1].cell = p[i].from
                   /\ p[i].to < Duration => Last(files[i]).cell + 1 = p[i].to
<1> DEFINE S == Sayings(p, files)
           start == files[i][1].cell
           end == Last(files[i]).cell + 1
           Bad(wrong, b, keys) == IF wrong THEN <<[boundary |-> b, keys |-> keys]>> ELSE <<>>
           b1 == Bad(p[i].from > 0 /\ start \in v.unclean, p[i].from, {})
           b2 == Bad(p[i].from > 0 /\ start # p[i].from, p[i].from, {start})
           b3 == Bad(p[i].to < Duration /\ end # p[i].to, p[i].to, {})
           b4 == Bad(p[i].to < Duration /\ end \in v.unclean, p[i].to, {})
<1>1. Complaints(v, p, files, i) = IF p[i].reencode \/ i \notin DOMAIN files THEN <<>>
                                   ELSE b1 \o b2 \o b3 \o b4
    BY DEF Complaints
<1>2. /\ [boundary |-> p[i].from, keys |-> {}] \in S /\ [boundary |-> p[i].from, keys |-> {start}] \in S
      /\ [boundary |-> p[i].to, keys |-> {}] \in S
    <2> DEFINE B == {p[k].from : k \in DOMAIN p} \cup {p[k].to : k \in DOMAIN p}
               K == {{}} \cup {{files[k][1].cell} : k \in DOMAIN p}
    <2>1. p[i].from \in B /\ p[i].to \in B /\ {} \in K /\ {start} \in K
        OBVIOUS
    <2>2. S = [boundary: B, keys: K]
        BY DEF Sayings
    <2> HIDE DEF B, K, start, S
    <2> QED
        BY <2>1, <2>2
<1>3. b1 \in Seq(S) /\ b2 \in Seq(S) /\ b3 \in Seq(S) /\ b4 \in Seq(S)
    <2> HIDE DEF start, end, S
    <2> QED
        BY <1>2
<1>4. /\ b2 = <<>> => ~(p[i].from > 0 /\ start # p[i].from)
      /\ b3 = <<>> => ~(p[i].to < Duration /\ end # p[i].to)
    <2> HIDE DEF start, end
    <2> QED
        OBVIOUS
<1> HIDE DEF start, end, S, b1, b2, b3, b4, Bad
<1>5. /\ b1 \o b2 \o b3 \o b4 \in Seq(S)
      /\ b1 \o b2 \o b3 \o b4 = <<>> => b2 = <<>> /\ b3 = <<>>
    <2>1. b1 \o b2 \in Seq(S) /\ Len(b1 \o b2) = Len(b1) + Len(b2)
        BY <1>3, ConcatProperties
    <2>2. (b1 \o b2) \o b3 \in Seq(S) /\ Len((b1 \o b2) \o b3) = Len(b1 \o b2) + Len(b3)
        BY <1>3, <2>1, ConcatProperties
    <2>3. ((b1 \o b2) \o b3) \o b4 \in Seq(S) /\ Len(((b1 \o b2) \o b3) \o b4) = Len((b1 \o b2) \o b3) + Len(b4)
        BY <1>3, <2>2, ConcatProperties
    <2>4. Len(b1) \in Nat /\ Len(b2) \in Nat /\ Len(b3) \in Nat /\ Len(b4) \in Nat
        BY <1>3
    <2>5. ASSUME b1 \o b2 \o b3 \o b4 = <<>> PROVE Len(b2) = 0 /\ Len(b3) = 0
        <3>1. Len(((b1 \o b2) \o b3) \o b4) = 0
            BY <2>5
        <3> QED
            BY <2>1, <2>2, <2>3, <2>4, <3>1
    <2> QED
        BY <1>3, <2>3, <2>5, EmptySeq
<1>6. Complaints(v, p, files, i) \in Seq(S)
    BY <1>1, <1>5
<1> QED
    BY <1>1, <1>4, <1>5, <1>6 DEF start, end, S

LEMMA NoComplaints ==
    ASSUME NEW v, NEW p, NEW files, NEW n \in Nat \ {0}, DOMAIN p = 1..n
    PROVE  /\ AllComplaints(v, p, files) \in Seq(Sayings(p, files))
           /\ AllComplaints(v, p, files) = <<>> <=> \A i \in 1..n : Complaints(v, p, files, i) = <<>>
<1> DEFINE all == [i \in DOMAIN p |-> Complaints(v, p, files, i)]
<1>1. all \in [1..n -> Seq(Sayings(p, files))]
    BY ComplaintIs
<1>2. all \in Seq(Seq(Sayings(p, files))) /\ Len(all) = n /\ all # <<>>
    BY <1>1
<1>3. \A i \in 1..n : all[i] = Complaints(v, p, files, i)
    OBVIOUS
<1>4. AllComplaints(v, p, files) = FlattenSeq(all)
    BY DEF AllComplaints
<1> HIDE DEF all
<1> QED
    BY <1>2, <1>3, <1>4, FlatIsEmpty

\* Fewer files give no more to complain of.
LEMMA FewerComplaints ==
    ASSUME NEW v, NEW p, NEW f, NEW g, NEW n \in Nat \ {0}, DOMAIN p = 1..n,
           Among(f, g), AllComplaints(v, p, g) = <<>>
    PROVE  AllComplaints(v, p, f) = <<>>
<1>1. ASSUME NEW i \in 1..n PROVE Complaints(v, p, f, i) = <<>>
    <2>1. Complaints(v, p, g, i) = <<>>
        BY NoComplaints
    <2>2. CASE i \in DOMAIN f
        <3>1. i \in DOMAIN g /\ f[i] = g[i]
            BY <2>2 DEF Among
        <3>2. Complaints(v, p, f, i) = Complaints(v, p, g, i)
            BY <2>2, <3>1 DEF Complaints
        <3> QED
            BY <2>1, <3>2
    <2>3. CASE i \notin DOMAIN f
        BY <2>3, ComplaintIs
    <2> QED
        BY <2>2, <2>3
<1> QED
    BY <1>1, NoComplaints

LEMMA FoundIs ==
    ASSUME ~MayMiss, NEW n \in Nat \ {0}, DOMAIN run.plan = 1..n
    PROVE  Found = {} <=> AllComplaints(video, run.plan, dir.copy) = <<>>
<1> DEFINE all == AllComplaints(video, run.plan, dir.copy)
<1>1. all \in Seq(Sayings(run.plan, dir.copy))
    BY NoComplaints
<1>2. Found = {all[i] : i \in DOMAIN all \cap {1}}
    BY DEF Found
<1> HIDE DEF all
<1>3. CASE all = <<>>
    BY <1>2, <1>3 DEF all
<1>4. CASE all # <<>>
    <2>1. 1 \in DOMAIN all
        BY <1>1, <1>4
    <2> QED
        BY <1>2, <1>4, <2>1 DEF all
<1> QED
    BY <1>3, <1>4

---------------------------------------------------------------------------
(* Plans, the files of a split, and joins of good pieces *)

\* A plan for the windows ws is laid out from the start of the video to its
\* end; what a segment is to show is the windows' part of it, and a copied one
\* has none of them.
Laid(p, ws) ==
    /\ Len(p) \in Nat \ {0} /\ DOMAIN p = 1..Len(p)
    /\ p[1].from = 0 /\ p[Len(p)].to = Duration
    /\ \A i \in 1..Len(p) :
        /\ p[i].from \in 0..Duration /\ p[i].to \in 0..Duration /\ p[i].from < p[i].to
        /\ i < Len(p) => p[i].to = p[i + 1].from
        /\ Encoded(p[i]) = Footage(p[i].from, p[i].to, Within(ws))
        /\ ~p[i].reencode => \A c \in Within(ws) : ~(p[i].from <= c /\ c < p[i].to)

LEMMA PlanIsLaid ==
    ASSUME NEW ws \in SUBSET Window, NEW keys
    PROVE  Laid(Plan(ws, keys), ws)
<1> DEFINE p == Plan(ws, keys)
           in == Covered(ws, keys)
<1>1. PICK n \in Nat \ {0} : \E e : Segments(p, ws, in, e, n)
    BY PlanSegmentsIt
<1>2. PICK e : Segments(p, ws, in, e, n)
    BY <1>1
<1>3. Within(ws) \subseteq in /\ Within(ws) \subseteq Cells
    BY WithinIsCovered DEF Within
<1> HIDE DEF p
<1>4. /\ e \in [1..(n + 1) -> 0..Duration] /\ e[1] = 0 /\ e[n + 1] = Duration
      /\ \A i \in 1..n : e[i] < e[i + 1]
      /\ \A i \in 1..n : \A c \in Cells : e[i] <= c /\ c < e[i + 1] => (c \in in <=> e[i] \in in)
      /\ DOMAIN p = 1..n /\ Len(p) = n
    BY <1>2 DEF Segments
<1>5. ASSUME NEW i \in 1..n
      PROVE  /\ p[i].reencode <=> e[i] \in in
             /\ p[i].from = e[i] /\ p[i].to = e[i + 1]
             /\ Encoded(p[i]) = Footage(e[i], e[i + 1], Within(ws))
    <2>1. n \in Nat /\ Segments(p, ws, Covered(ws, keys), e, n)
        BY <1>2
    <2>2. SegmentFits(p[i], ws, Covered(ws, keys), e[i], e[i + 1])
        BY <2>1, SegmentIsWanted
    <2> QED
        BY <2>2 DEF SegmentFits
<1> HIDE DEF in
<1>6. ASSUME NEW i \in 1..n
      PROVE  /\ p[i].from \in 0..Duration /\ p[i].to \in 0..Duration /\ p[i].from < p[i].to
             /\ i < n => p[i].to = p[i + 1].from
             /\ Encoded(p[i]) = Footage(p[i].from, p[i].to, Within(ws))
             /\ ~p[i].reencode => \A c \in Within(ws) : ~(p[i].from <= c /\ c < p[i].to)
    <2>1. i \in 1..(n + 1) /\ i + 1 \in 1..(n + 1) /\ (i < n => i + 1 \in 1..n)
        OBVIOUS
    <2>2. p[i].from = e[i] /\ p[i].to = e[i + 1] /\ (i < n => p[i + 1].from = e[i + 1])
        BY <1>5, <2>1
    <2>3. e[i] \in 0..Duration /\ e[i + 1] \in 0..Duration /\ e[i] < e[i + 1]
        BY <1>4, <2>1
    <2>4. Encoded(p[i]) = Footage(p[i].from, p[i].to, Within(ws))
        BY <1>5, <2>2
    <2>5. ASSUME ~p[i].reencode, NEW c \in Within(ws), e[i] <= c, c < e[i + 1] PROVE FALSE
        <3>1. c \in Cells /\ c \in in
            BY <1>3
        <3>2. e[i] \notin in
            BY <1>5, <2>5
        <3> QED
            BY <1>4, <2>5, <3>1, <3>2
    <2> QED
        BY <2>2, <2>3, <2>4, <2>5
<1>7. p[1].from = 0 /\ p[n].to = Duration
    <2>1. 1 \in 1..n /\ n \in 1..n
        OBVIOUS
    <2> QED
        BY <1>4, <1>5, <2>1
<1>8. Laid(p, ws)
    BY <1>4, <1>6, <1>7 DEF Laid
<1> QED
    BY <1>8 DEF p

\* Only the first segment begins at the start, only the last ends at the end.
LEMMA OnlyEnds ==
    ASSUME NEW ws, NEW p, Laid(p, ws), NEW i \in 1..Len(p)
    PROVE  /\ p[i].from > 0 \/ (p[i].from = 0 /\ i = 1)
           /\ p[i].to < Duration \/ (p[i].to = Duration /\ i = Len(p))
<1> DEFINE n == Len(p)
<1>1. n \in Nat \ {0} /\ Duration \in Nat /\ p[1].from = 0 /\ p[n].to = Duration
    BY BlurBuildAssumption DEF Laid
<1>2. \A k \in 1..n : /\ p[k].from \in 0..Duration /\ p[k].to \in 0..Duration /\ p[k].from < p[k].to
                      /\ k < n => p[k].to = p[k + 1].from
    BY DEF Laid
<1> HIDE DEF n
<1>3. i \in 1..n
    BY DEF n
<1>4. ASSUME i # 1 PROVE p[i].from > 0
    <2>1. i - 1 \in 1..n /\ i - 1 < n /\ (i - 1) + 1 = i
        BY <1>1, <1>3, <1>4
    <2>2. p[i - 1].to = p[i].from /\ p[i - 1].from \in Nat /\ p[i - 1].to \in Nat /\ p[i - 1].from < p[i - 1].to
        BY <1>1, <1>2, <2>1
    <2> QED
        BY <1>1, <1>2, <1>3, <2>2
<1>5. ASSUME i # n PROVE p[i].to < Duration
    <2>1. i + 1 \in 1..n /\ i < n
        BY <1>1, <1>3, <1>5
    <2>2. /\ p[i].to = p[i + 1].from /\ p[i + 1].from < p[i + 1].to
          /\ p[i + 1].to \in 0..Duration /\ p[i + 1].from \in 0..Duration
        BY <1>2, <1>3, <2>1
    <2> QED
        BY <1>1, <1>2, <1>3, <2>2
<1>6. p[i].from > 0 \/ (p[i].from = 0 /\ i = 1)
    BY <1>1, <1>2, <1>3, <1>4
<1>7. p[i].to < Duration \/ (p[i].to = Duration /\ i = n)
    BY <1>1, <1>2, <1>3, <1>5
<1> QED
    BY <1>6, <1>7 DEF n

\* Without keyframes, what is approved takes the whole video.
LEMMA WholePlanIs ==
    ASSUME NEW ws, ws # {}
    PROVE  Len(WholePlan(ws)) = 1 /\ WholePlan(ws)[1].reencode
<1> DEFINE S == {0, Duration}
           e == InOrder[S]
<1>1. Duration \in Nat \ {0} /\ 0 \in Cells /\ \A c \in Cells \ {0} : c - 1 \in Cells
    BY BlurBuildAssumption DEF Cells
<1>2. Covered(ws, {}) = Cells
    BY DEF Covered, Expanded
<1>3. Edges(Cells) = S
    BY <1>1 DEF Edges
<1>4. Cardinality(S) = 2
    <2>1. IsFiniteSet({0}) /\ Cardinality({0}) = 1 /\ S = {0} \cup {Duration} /\ Duration \notin {0}
        BY <1>1, FS_Singleton
    <2> QED
        BY <2>1, FS_AddElement
<1>5. Len(e) = 2 /\ Stairs(e, 2, S)
    <2>1. S \in SUBSET (0..Duration)
        BY <1>1
    <2> HIDE DEF S
    <2> QED
        BY <1>4, <2>1, InOrderLists
<1>6. e[1] = 0
    BY <1>5 DEF Stairs
<1>7. WholePlan(ws) =
          [i \in 1..(Len(e) - 1) |->
             [from |-> e[i], to |-> e[i + 1], reencode |-> e[i] \in Cells,
              blur |-> IF e[i] \in Cells THEN Within(ws) \cap e[i]..(e[i + 1] - 1) ELSE {}]]
    BY <1>2, <1>3 DEF WholePlan, Plan
<1> HIDE DEF e
<1> DEFINE Seg(i) == [from |-> e[i], to |-> e[i + 1], reencode |-> e[i] \in Cells,
                      blur |-> IF e[i] \in Cells THEN Within(ws) \cap e[i]..(e[i + 1] - 1) ELSE {}]
<1>8. Len(e) - 1 = 1 /\ WholePlan(ws) = [i \in 1..1 |-> Seg(i)]
    BY <1>5, <1>7
<1>9. Seg(1).reencode = (e[1] \in Cells)
    OBVIOUS
<1> HIDE DEF Seg
<1>10. Len(WholePlan(ws)) = 1 /\ WholePlan(ws)[1] = Seg(1)
    BY <1>8
<1> QED
    BY <1>1, <1>6, <1>9, <1>10

\* One segment alone has no cut to complain of.
LEMMA SingleIsClean ==
    ASSUME NEW v, NEW ws, NEW p, NEW files, Laid(p, ws), Len(p) = 1
    PROVE  AllComplaints(v, p, files) = <<>>
<1>1. DOMAIN p = 1..1 /\ ~(p[1].from > 0) /\ ~(p[1].to < Duration)
    BY BlurBuildAssumption DEF Laid
<1>2. <<>> \o <<>> \o <<>> \o <<>> = <<>>
    OBVIOUS
<1>3. Complaints(v, p, files, 1) = <<>>
    BY <1>1, <1>2 DEF Complaints
<1>4. 1 \in Nat \ {0} /\ \A i \in 1..1 : i = 1
    OBVIOUS
<1> QED
    BY <1>1, <1>3, <1>4, NoComplaints

\* Footage of cells that are blurred in both or neither.
LEMMA SameFootage ==
    ASSUME NEW a \in 0..Duration, NEW b \in 0..Duration, NEW V, NEW W,
           \A c \in Cells : a <= c /\ c < b => (c \in V <=> c \in W)
    PROVE  Footage(a, b, V) = Footage(a, b, W)
<1> DEFINE m == b - a
<1>1. Duration \in Nat
    BY BlurBuildAssumption
<1>2. ASSUME NEW k \in 1..m
      PROVE  [cell |-> a + k - 1, blur |-> (a + k - 1) \in V] = [cell |-> a + k - 1, blur |-> (a + k - 1) \in W]
    <2>1. a + k - 1 \in Cells /\ a <= a + k - 1 /\ a + k - 1 < b
        BY <1>1 DEF Cells
    <2>2. ((a + k - 1) \in V) = ((a + k - 1) \in W)
        BY <2>1
    <2> QED
        BY <2>2
<1>3. /\ Footage(a, b, V) = [k \in 1..m |-> [cell |-> a + k - 1, blur |-> (a + k - 1) \in V]]
      /\ Footage(a, b, W) = [k \in 1..m |-> [cell |-> a + k - 1, blur |-> (a + k - 1) \in W]]
    BY DEF Footage
<1> HIDE DEF m
<1> QED
    BY <1>2, <1>3

\* The muxer's files, first to last: each plays some cells, the first from the
\* start of the video.
LEMMA SplitFilms ==
    ASSUME NEW v, NEW p, NEW i \in DOMAIN SplitCopies(v, p)
    PROVE  \E a \in 0..Duration : \E b \in 0..Duration :
               a < b /\ (i = 1 => a = 0) /\ SplitCopies(v, p)[i] = Footage(a, b, {})
<1> DEFINE S == {0, Duration} \cup CutsMade(v, p)
           e == InOrder[S]
           n == Len(e) - 1
<1>1. S \in SUBSET (0..Duration) /\ Duration \in Nat /\ 0 \in S
    BY CutsAreCells, BlurBuildAssumption
<1>2. SplitCopies(v, p) = [k \in 1..n |-> Footage(e[k], e[k + 1], {})]
    BY DEF SplitCopies
<1> HIDE DEF S
<1>3. Cardinality(S) \in Nat /\ Len(e) = Cardinality(S) /\ Stairs(e, Cardinality(S), S)
    BY <1>1, InOrderLists
<1> HIDE DEF e
<1>4. i \in 1..n
    BY <1>2
<1>5. i \in 1..Len(e) /\ i + 1 \in 1..Len(e) /\ i < Len(e) /\ Len(e) \in Nat
    BY <1>3, <1>4
<1>6. /\ e \in [1..Len(e) -> S] /\ \A x \in S : \A k \in 1..Len(e) : k < Len(e) => e[k] < e[k + 1]
      /\ e[1] = 0
    BY <1>1, <1>3 DEF Stairs
<1>7. e[i] \in 0..Duration /\ e[i + 1] \in 0..Duration /\ e[i] < e[i + 1] /\ (i = 1 => e[i] = 0)
    BY <1>1, <1>5, <1>6
<1>8. SplitCopies(v, p)[i] = Footage(e[i], e[i + 1], {})
    <2> HIDE DEF n
    <2> QED
        BY <1>2, <1>4
<1> QED
    BY <1>7, <1>8

\* The first and the last cell of a piece.
LEMMA FootageEnds ==
    ASSUME NEW a \in 0..Duration, NEW b \in 0..Duration, NEW W, a < b
    PROVE  Footage(a, b, W)[1].cell = a /\ Last(Footage(a, b, W)).cell + 1 = b
<1> DEFINE f == Footage(a, b, W)
           m == b - a
<1>1. Duration \in Nat /\ m \in Nat \ {0} /\ 1 \in 1..m /\ m \in 1..m /\ a <= b
    BY BlurBuildAssumption
<1>2. Len(f) = m /\ \A i \in 1..m : f[i] = [cell |-> a + i - 1, blur |-> (a + i - 1) \in W]
    BY <1>1, FootageIsFilm
<1> HIDE DEF f
<1>3. f[1].cell = a + 1 - 1 /\ f[m].cell = a + m - 1
    <2> SUFFICES ASSUME NEW i \in 1..m PROVE f[i].cell = a + i - 1
        BY <1>1
    <2> DEFINE in == (a + i - 1) \in W
    <2>1. f[i] = [cell |-> a + i - 1, blur |-> in]
        BY <1>2
    <2> HIDE DEF in
    <2> QED
        BY <2>1
<1>4. Last(f) = f[m]
    BY <1>2 DEF Last
<1>5. f[1].cell = a /\ Last(f).cell + 1 = b
    BY <1>1, <1>3, <1>4
<1> QED
    BY <1>5 DEF f

\* A file of the split that no check complains of is what the plan wants of it,
\* but for the end of the last one, which no check looks at.
LEMMA CopyIsGood ==
    ASSUME NEW v, NEW ws, NEW p, NEW files, Laid(p, ws), NEW q, Among(files, SplitCopies(v, q)),
           NEW i \in 1..Len(p), i \in DOMAIN files, ~p[i].reencode, Complaints(v, p, files, i) = <<>>
    PROVE  GoodPiece(p, ws, i, files[i])
<1>1. i \in DOMAIN SplitCopies(v, q) /\ files[i] = SplitCopies(v, q)[i]
    BY DEF Among
<1>2. PICK a \in 0..Duration : \E b \in 0..Duration :
          a < b /\ (i = 1 => a = 0) /\ files[i] = Footage(a, b, {})
    BY <1>1, SplitFilms
<1>3. PICK b \in 0..Duration : a < b /\ (i = 1 => a = 0) /\ files[i] = Footage(a, b, {})
    BY <1>2
<1>4. files[i][1].cell = a /\ Last(files[i]).cell + 1 = b
    BY <1>3, FootageEnds
<1>5. i \in DOMAIN p /\ Duration \in Nat /\ p[i].from \in 0..Duration /\ p[i].to \in 0..Duration
    BY BlurBuildAssumption DEF Laid
<1>6. (p[i].from > 0 => a = p[i].from) /\ (p[i].to < Duration => b = p[i].to)
    BY <1>4, <1>5, ComplaintIs
<1>7. a = p[i].from
    BY <1>3, <1>6, OnlyEnds
<1>8. b <= p[i].to /\ (b = p[i].to \/ i = Len(p))
    BY <1>5, <1>6, OnlyEnds
<1>9. Footage(a, b, {}) = Footage(a, b, Within(ws))
    <2>1. ASSUME NEW c \in Cells, a <= c, c < b PROVE c \notin Within(ws)
        <3>1. p[i].from <= c /\ c < p[i].to
            BY <1>5, <1>7, <1>8, <2>1 DEF Cells
        <3> QED
            BY <3>1 DEF Laid
    <2>2. \A c \in Cells : a <= c /\ c < b => (c \in {} <=> c \in Within(ws))
        BY <2>1
    <2> QED
        BY <2>2, SameFootage
<1> QED
    BY <1>3, <1>7, <1>8, <1>9 DEF GoodPiece

\* A join of good pieces that is as long as the video is the film that is wanted.
LEMMA JoinIsRight ==
    ASSUME NEW ws, NEW p, Laid(p, ws), NEW paths \in Seq(Film), Len(paths) = Len(p),
           \A i \in 1..Len(paths) : GoodPiece(p, ws, i, paths[i])
    PROVE  RightFilm(FlattenSeq(paths), ws)
<1> DEFINE n == Len(p)
           W == Within(ws)
<1>1. /\ n \in Nat \ {0} /\ Duration \in Nat /\ Len(paths) = n /\ p[1].from = 0 /\ p[n].to = Duration
      /\ paths # <<>> /\ paths \in Seq(Seq(Frame))
    BY BlurBuildAssumption DEF Laid, Film
<1>2. PICK f \in [1..n -> Seq(Frame)] :
          /\ f[1] = paths[1]
          /\ \A i \in 1..n : i < n => f[i + 1] = f[i] \o paths[i + 1]
          /\ FlattenSeq(paths) = f[n]
    <2>1. \E f \in [1..Len(paths) -> Seq(Frame)] :
              /\ f[1] = paths[1]
              /\ \A i \in 1..Len(paths) : i < Len(paths) => f[i + 1] = f[i] \o paths[i + 1]
              /\ FlattenSeq(paths) = f[Len(paths)]
        BY <1>1, Flattened
    <2> HIDE DEF n
    <2>2. Len(paths) = n
        BY <1>1
    <2> QED
        BY <2>1, <2>2
<1>3. \A i \in 1..n : /\ p[i].from \in 0..Duration /\ p[i].to \in 0..Duration /\ p[i].from < p[i].to
                      /\ i < n => p[i].to = p[i + 1].from
    BY DEF Laid
<1>4. ASSUME NEW i \in 1..n
      PROVE  \/ paths[i] = Footage(p[i].from, p[i].to, W)
             \/ i = 1 /\ paths[i] = Wanted(ws)
             \/ i = n /\ \E c \in 0..Duration : p[i].from < c /\ paths[i] = Footage(p[i].from, c, W)
    BY <1>1 DEF GoodPiece
<1> HIDE DEF n, W
<1>5. SUFFICES ASSUME Len(f[n]) = Duration PROVE f[n] = Wanted(ws)
    BY <1>2 DEF RightFilm
<1>6. Wanted(ws) = Footage(0, Duration, W) /\ Len(Wanted(ws)) = Duration
    <2>1. Wanted(ws) = Footage(0, Duration, W)
        BY DEF Wanted, W
    <2> QED
        BY <1>1, <2>1, FootageIsFilm
<1>7. CASE n # 1 /\ paths[1] = Wanted(ws)
    <2>1. 2 \in 1..n /\ 1 \in 1..n /\ 1 < n /\ n \in 1..n /\ 2 <= n
        BY <1>1, <1>7
    <2>2. Len(paths[2]) > 0 /\ Len(paths[2]) \in Nat
        <3>1. \E c \in 0..Duration : p[2].from < c /\ paths[2] = Footage(p[2].from, c, W)
            BY <1>3, <1>4, <2>1
        <3>2. PICK c \in 0..Duration : p[2].from < c /\ paths[2] = Footage(p[2].from, c, W)
            BY <3>1
        <3>3. p[2].from \in 0..Duration /\ p[2].from <= c
            BY <1>1, <1>3, <2>1, <3>2
        <3> QED
            BY <1>1, <3>2, <3>3, FootageIsFilm
    <2>3. f[2] = f[1] \o paths[2] /\ f[1] \in Seq(Frame) /\ paths[2] \in Seq(Frame)
        <3>1. f[1 + 1] = f[1] \o paths[1 + 1]
            BY <1>2, <2>1
        <3> QED
            BY <1>1, <1>2, <2>1, <3>1
    <2>4. Len(f[2]) = Len(f[1]) + Len(paths[2])
        BY <2>3, ConcatProperties
    <2>5. Len(f[2]) <= Len(f[n])
        BY <1>1, <1>2, <2>1, FlatGrows
    <2>6. Len(f[1]) = Duration /\ Len(f[n]) \in Nat /\ Len(f[2]) \in Nat
        BY <1>2, <1>6, <1>7, <2>1
    <2>7. FALSE
        BY <1>1, <1>5, <2>2, <2>4, <2>5, <2>6
    <2> QED
        BY <2>7
<1>8. CASE n = 1 \/ paths[1] # Wanted(ws)
    <2>1. ASSUME NEW i \in 1..n, i # n PROVE paths[i] = Footage(p[i].from, p[i].to, W)
        BY <1>4, <1>8, <2>1
    <2>2. \A i \in 1..n : i # n => f[i] = Footage(0, p[i].to, W)
        <3> DEFINE T == {k \in Nat : k \in 1..n /\ k # n /\ f[k] # Footage(0, p[k].to, W)}
        <3>1. SUFFICES ASSUME T # {} PROVE FALSE
            <4>1. \A k \in 1..n : k \in Nat
                OBVIOUS
            <4> QED
                BY <4>1, Zenon
        <3>2. PICK k \in T : \A j \in T : k <= j
            <4>1. T \in SUBSET Nat
                OBVIOUS
            <4> HIDE DEF T
            <4> QED
                BY <3>1, <4>1, LeastNumber
        <3>3. k \in 1..n /\ k # n /\ f[k] # Footage(0, p[k].to, W)
            OBVIOUS
        <3>4. k # 1
            BY <1>1, <1>2, <2>1, <3>3
        <3>5. k - 1 \in 1..n /\ k - 1 # n /\ k - 1 < n /\ (k - 1) + 1 = k /\ k - 1 \in Nat /\ ~(k <= k - 1)
            BY <1>1, <3>3, <3>4
        <3>6. f[k - 1] = Footage(0, p[k - 1].to, W) /\ p[k - 1].to = p[k].from
            <4>1. k - 1 \notin T
                <5> HIDE DEF T
                <5> QED
                    BY <3>2, <3>5
            <4>2. p[k - 1].to = p[k].from
                BY <1>3, <3>5
            <4> QED
                BY <3>5, <4>1, <4>2
        <3>7. f[k] = f[k - 1] \o paths[k]
            BY <1>2, <3>5
        <3>8. Joined(Footage(0, p[k].from, W), Footage(p[k].from, p[k].to, W), Footage(0, p[k].to, W))
            <4>1. 0 \in 0..Duration /\ 0 <= p[k].from /\ p[k].from <= p[k].to
                <5>1. p[k].from \in 0..Duration /\ p[k].to \in 0..Duration /\ p[k].from < p[k].to
                    BY <1>3, <3>3
                <5> QED
                    BY <1>1, <5>1
            <4> QED
                BY <1>3, <3>3, <4>1, FootageJoins
        <3> QED
            BY <2>1, <3>3, <3>6, <3>7, <3>8 DEF Joined
    <2>3. \E c \in 0..Duration : p[n].from < c /\ paths[n] = Footage(p[n].from, c, W)
        <3>1. n \in 1..n /\ Duration \in 0..Duration
            BY <1>1
        <3>2. paths[n] = Footage(p[n].from, p[n].to, W)
                => p[n].from < Duration /\ paths[n] = Footage(p[n].from, Duration, W)
            BY <1>1, <1>3, <3>1
        <3>3. n = 1 /\ paths[n] = Wanted(ws) => p[n].from < Duration /\ paths[n] = Footage(p[n].from, Duration, W)
            BY <1>1, <1>3, <1>6, <3>1
        <3> QED
            BY <1>4, <1>8, <3>1, <3>2, <3>3
    <2>4. PICK c \in 0..Duration : p[n].from < c /\ paths[n] = Footage(p[n].from, c, W)
        BY <2>3
    <2>5. f[n] = Footage(0, c, W)
        <3>1. CASE n = 1
            BY <1>1, <1>2, <2>4, <3>1
        <3>2. CASE n # 1
            <4>1. n \in 1..n /\ n - 1 \in 1..n /\ n - 1 # n /\ n - 1 < n /\ (n - 1) + 1 = n
                BY <1>1, <3>2
            <4>2. f[n - 1] = Footage(0, p[n - 1].to, W) /\ p[n - 1].to = p[n].from
                <5>1. p[n - 1].to = p[n].from
                    BY <1>3, <4>1
                <5> QED
                    BY <2>2, <4>1, <5>1
            <4>3. f[n] = f[n - 1] \o paths[n]
                BY <1>2, <4>1
            <4>4. Joined(Footage(0, p[n].from, W), Footage(p[n].from, c, W), Footage(0, c, W))
                <5>1. 0 \in 0..Duration /\ p[n].from \in 0..Duration /\ 0 <= p[n].from /\ p[n].from <= c
                    BY <1>1, <1>3, <2>4, <4>1
                <5> QED
                    BY <5>1, FootageJoins
            <4> QED
                BY <2>4, <4>2, <4>3, <4>4 DEF Joined
        <3> QED
            BY <3>1, <3>2
    <2>6. Len(f[n]) = c
        <3>1. 0 \in 0..Duration /\ 0 <= c /\ c - 0 = c
            BY <1>1
        <3>2. Len(Footage(0, c, W)) = c - 0
            BY <3>1, FootageIsFilm
        <3> QED
            BY <2>5, <3>1, <3>2
    <2> QED
        BY <1>5, <1>6, <2>5, <2>6
<1> QED
    BY <1>7, <1>8

---------------------------------------------------------------------------
(* Attempts and directories that are good *)

LEMMA IdleRun ==
    ASSUME NEW v, NEW d, NEW r, r.at \in {"none", "clean", "recording", "saving", "failing", "savingFailed"}
    PROVE  GoodRun(v, d, r)
BY DEF GoodRun, Working, Building

LEMMA LateRun ==
    ASSUME NEW v, NEW d, NEW r, r.at \in {"reencode", "audio", "audioJoin", "mux", "verify", "publish"},
           r.request.windows # {}
    PROVE  GoodRun(v, d, r)
BY DEF GoodRun, Working, Building

LEMMA EarlyRun ==
    ASSUME NEW v, NEW d, NEW r, r.at \in {"probing", "opening", "keyframes"}, r.request.windows # {},
           r.tries = 0, r.paths = <<>>
    PROVE  GoodRun(v, d, r)
BY DEF GoodRun, Working, Building

\* A failed attempt is over, or it begins again.
LEMMA FailedRun ==
    ASSUME TypeInv, RunIsGood, run.at \in Working, Fails
    PROVE  RunIsGood' /\ TmpIsGood'
<1>1. run.at \in Building => run.request.windows # {}
    BY DEF RunIsGood, GoodRun, Working, Building
<1>2. CASE run' = [run EXCEPT !.at = "failing"]
    <2>1. run'.at = "failing"
        BY <1>2 DEF TypeInv, RunTyped, Fitting, RunFields
    <2> QED
        BY <2>1, IdleRun DEF RunIsGood, TmpIsGood, At
<1>3. CASE run.at \in Building /\ run' = [NoRun EXCEPT !.at = "opening", !.request = run.request, !.whole = TRUE]
    <2>1. run'.at = "opening" /\ run'.request = run.request /\ run'.tries = 0 /\ run'.paths = <<>>
        BY <1>3, Empty DEF RunFields
    <2>2. run.request.windows # {}
        BY <1>1, <1>3
    <2> QED
        BY <2>1, <2>2, EarlyRun DEF RunIsGood, TmpIsGood, At
<1> QED
    BY <1>2, <1>3 DEF Fails

\* A directory that lost files.
LEMMA LessDir ==
    ASSUME NEW v, NEW d, NEW e, NEW ws, GoodDir(v, d, ws),
           e.whole \in {d.whole, NoFile}, e.joined \in {d.joined, NoFile},
           Among(e.reencode, d.reencode), Among(e.copy, d.copy), Among(e.fixed, d.fixed)
    PROVE  GoodDir(v, e, ws)
<1>1. e.whole # NoFile => e.whole = Wanted(ws)
    BY DEF GoodDir
<1>2. e.joined # NoFile => RightFilm(e.joined, ws)
    BY DEF GoodDir
<1>3. 1 \in DOMAIN e.reencode => \E c \in 1..Duration : e.reencode[1] = Footage(0, c, Within(ws))
    BY DEF GoodDir, Among
<1>4. ASSUME Clean1st(v, ws)
      PROVE  LET p == FirstPlan(v, ws)
                 s == SplitCopies(v, p)
             IN  /\ Among(e.copy, s) /\ Among(e.fixed, s)
                 /\ \A i \in 1..Len(p) :
                       p[i].reencode /\ i \in DOMAIN e.reencode => GoodPiece(p, ws, i, e.reencode[i])
    <2> DEFINE p == FirstPlan(v, ws)
               s == SplitCopies(v, p)
    <2>1. /\ Among(d.copy, s) /\ Among(d.fixed, s)
          /\ \A i \in 1..Len(p) : p[i].reencode /\ i \in DOMAIN d.reencode => GoodPiece(p, ws, i, d.reencode[i])
        BY <1>4 DEF GoodDir
    <2> HIDE DEF p, s
    <2>2. /\ Among(e.copy, s) /\ Among(e.fixed, s)
          /\ \A i \in 1..Len(p) : p[i].reencode /\ i \in DOMAIN e.reencode => GoodPiece(p, ws, i, e.reencode[i])
        BY <2>1 DEF Among
    <2> QED
        BY <2>2 DEF p, s
<1> QED
    BY <1>1, <1>2, <1>3, <1>4 DEF GoodDir

LEMMA AmongItself == \A f : Among(f, f)
BY DEF Among

LEMMA NoneAmong == \A f : Among(<<>>, f)
BY DEF Among

\* The files of a split take the place of what was there.
LEMMA OverIsAmong ==
    ASSUME NEW f, NEW g
    PROVE  Among(f, Over(f, g)) /\ (Among(g, f) => Among(Over(f, g), f))
BY DEF Among, Over

LEMMA NothingIsGood ==
    ASSUME NEW v, NEW d, NEW ws, d.whole = NoFile, d.joined = NoFile, d.reencode = <<>>, d.copy = <<>>, d.fixed = <<>>
    PROVE  GoodDir(v, d, ws)
<1>1. DOMAIN d.reencode = {}
    OBVIOUS
<1> QED
    BY <1>1, NoneAmong DEF GoodDir

\* An attempt's directory holds what earlier attempts at the same request left.
LEMMA OwnDirIsGood ==
    ASSUME TypeInv, DirIsGood, run.at \in Building \ {"opening"}
    PROVE  /\ dir.for = run.request /\ dir.for # NoFile /\ GoodDir(video, dir, Windows)
           /\ Windows \in SUBSET Window
<1>1. dir.for = run.request /\ run.request \in Requests
    BY DEF TypeInv, OwnDir, RunTyped, Fitting, Building
<1>2. run.request # NoFile
    BY <1>1, NoFileAssumption
<1>3. run.request.windows \in SUBSET Window
    BY <1>1, BlurBuildAssumption
<1> QED
    BY <1>1, <1>2, <1>3 DEF DirIsGood, Windows

\* When the cuts of the first plan pass their checks, all it finds is good.
LEMMA FirstFiles ==
    ASSUME NEW v, NEW d, NEW ws \in SUBSET Window, GoodDir(v, d, ws), Clean1st(v, ws)
    PROVE  GoodFiles(FirstPlan(v, ws), ws, d)
<1> DEFINE p == FirstPlan(v, ws)
           s == SplitCopies(v, p)
<1>1. Laid(p, ws)
    BY PlanIsLaid DEF FirstPlan
<1>2. /\ Among(d.copy, s) /\ Among(d.fixed, s) /\ AllComplaints(v, p, s) = <<>>
      /\ \A i \in 1..Len(p) : p[i].reencode /\ i \in DOMAIN d.reencode => GoodPiece(p, ws, i, d.reencode[i])
    BY DEF GoodDir, Clean1st
<1> HIDE DEF p
<1>3. Len(p) \in Nat \ {0} /\ DOMAIN p = 1..Len(p)
    BY <1>1 DEF Laid
<1>4. ASSUME NEW f, Among(f, s), NEW i \in 1..Len(p), ~p[i].reencode, i \in DOMAIN f
      PROVE  GoodPiece(p, ws, i, f[i])
    <2>1. AllComplaints(v, p, f) = <<>>
        BY <1>2, <1>3, <1>4, FewerComplaints
    <2>2. Complaints(v, p, f, i) = <<>>
        BY <1>3, <2>1, NoComplaints
    <2> QED
        BY <1>1, <1>4, <2>2, CopyIsGood
<1> HIDE DEF s
<1>5. GoodFiles(p, ws, d)
    BY <1>2, <1>4 DEF GoodFiles
<1> QED
    BY <1>5 DEF p

\* So it is when there is nothing to cut.
LEMMA SingleFiles ==
    ASSUME NEW v, NEW d, NEW ws \in SUBSET Window, ws # {}, GoodDir(v, d, ws),
           NEW p \in {FirstPlan(v, ws), WholePlan(ws)}, Len(p) = 1
    PROVE  GoodFiles(p, ws, d)
<1>1. CASE p = FirstPlan(v, ws)
    <2>1. Laid(p, ws)
        BY <1>1, PlanIsLaid DEF FirstPlan
    <2>2. Clean1st(v, ws)
        BY <1>1, <2>1, SingleIsClean DEF Clean1st
    <2> QED
        BY <1>1, <2>2, FirstFiles
<1>2. CASE p = WholePlan(ws)
    <2>1. Laid(p, ws) /\ p[1].reencode
        BY <1>2, PlanIsLaid, WholePlanIs DEF WholePlan
    <2>2. p[1].from = 0
        BY <2>1 DEF Laid
    <2>3. ASSUME 1 \in DOMAIN d.reencode PROVE GoodPiece(p, ws, 1, d.reencode[1])
        <3>1. PICK c \in 1..Duration : d.reencode[1] = Footage(0, c, Within(ws))
            BY <2>3 DEF GoodDir
        <3>2. c \in 0..Duration /\ p[1].from < c
            BY <2>2, BlurBuildAssumption
        <3> QED
            BY <2>2, <3>1, <3>2 DEF GoodPiece
    <2>4. \A i \in 1..Len(p) : i = 1
        OBVIOUS
    <2> QED
        BY <2>1, <2>3, <2>4 DEF GoodFiles
<1> QED
    BY <1>1, <1>2

---------------------------------------------------------------------------
(* Every step keeps them good *)

LEMMA EditStays ==
    ASSUME EditInv, edit' = edit, DirIsGood', RunIsGood', TmpIsGood'
    PROVE  EditInv'
BY DEF EditInv, EditIsRight

LEMMA DirStays ==
    ASSUME DirIsGood, video' = video, dir' = dir
    PROVE  DirIsGood'
BY DEF DirIsGood

\* A part of an attempt's own directory is written.
LEMMA OwnDirStays ==
    ASSUME TypeInv, run.at \in Building \ {"opening"}, video' = video, dir'.for = dir.for,
           GoodDir(video, dir', Windows)
    PROVE  DirIsGood'
<1>1. dir.for = run.request
    BY DEF TypeInv, OwnDir
<1> QED
    BY <1>1 DEF DirIsGood, Windows

LEMMA BeginRight == ASSUME TypeInv, EditInv, Begin \/ Probe \/ Open PROVE EditInv'
<1>1. CASE Begin
    <2> DEFINE s == IF approved.windows = {} THEN "failing" ELSE "probing"
    <2>1. /\ run'.at = s /\ run'.request = approved /\ run'.tries = 0 /\ run'.paths = <<>>
        BY <1>1, Empty DEF Begin, RunFields
    <2>2. RunIsGood' /\ TmpIsGood'
        BY <2>1, EarlyRun, IdleRun DEF RunIsGood, TmpIsGood, At
    <2> QED
        BY <1>1, <2>2, DirStays, EditStays DEF Begin, EditInv, sources
<1>2. CASE Probe \/ Open
    <2> DEFINE s == IF Probe THEN "opening" ELSE IF run.whole THEN "reencode" ELSE "keyframes"
    <2>1. /\ run.at \in {"probing", "opening"} /\ (Stage("opening") \/ Stage("reencode") \/ Stage("keyframes"))
          /\ edit' = edit /\ video' = video
        BY <1>2 DEF Probe, Open, At, sources
    <2>2. /\ run'.at \in {"opening", "reencode", "keyframes"} /\ run'.request = run.request
          /\ run'.tries = run.tries /\ run'.paths = run.paths
        BY <2>1 DEF Stage, TypeInv, RunTyped, Fitting, RunFields
    <2>3. run.request.windows # {} /\ run.tries = 0 /\ run.paths = <<>>
        BY <2>1 DEF EditInv, RunIsGood, GoodRun, Working, Building
    <2>4. RunIsGood' /\ TmpIsGood'
        BY <2>2, <2>3, EarlyRun, LateRun DEF RunIsGood, TmpIsGood, At
    <2>5. DirIsGood'
        <3>1. CASE dir' = dir
            BY <2>1, <3>1, DirStays DEF EditInv
        <3>2. CASE dir' = [EmptyDir EXCEPT !.for = run.request]
            <4>1. /\ dir'.whole = NoFile /\ dir'.joined = NoFile /\ dir'.reencode = <<>>
                  /\ dir'.copy = <<>> /\ dir'.fixed = <<>>
                BY <3>2, Empty DEF DirFields
            <4> QED
                BY <4>1, NothingIsGood DEF DirIsGood
        <3> QED
            BY <1>2, <3>1, <3>2 DEF Probe, Open, FreshDir
    <2> QED
        BY <2>1, <2>4, <2>5, EditStays
<1> QED
    BY <1>1, <1>2

LEMMA PlanRight == ASSUME TypeInv, EditInv, PlanSegments PROVE EditInv'
<1> DEFINE plan(k) == Plan(Windows, k)
           s(k) == IF dir.joined # NoFile THEN "audio" ELSE IF Len(plan(k)) > 1 THEN "split" ELSE "produce"
<1>1. PICK keys \in {video.keys, {}} :
          run' = [run EXCEPT !.keys = keys, !.plan = plan(keys), !.first = SceneBounds(plan(keys)), !.at = s(keys)]
    BY DEF PlanSegments
<1> DEFINE p == plan(keys)
<1>2. /\ run.at = "keyframes" /\ edit' = edit /\ video' = video /\ dir' = dir
    BY DEF PlanSegments, At, sources
<1>3. Windows # {} /\ run.tries = 0 /\ run.paths = <<>> /\ DirIsGood
    BY <1>2 DEF EditInv, RunIsGood, GoodRun, Working, Building, Windows
<1>4. GoodDir(video, dir, Windows) /\ Windows \in SUBSET Window
    BY <1>2, <1>3, OwnDirIsGood DEF Building
<1>5. Laid(p, Windows) /\ p \in {FirstPlan(video, Windows), WholePlan(Windows)}
    BY <1>4, PlanIsLaid DEF FirstPlan, WholePlan
<1>6. \E k : p = Plan(Windows, k)
    OBVIOUS
<1>7. /\ run'.at = s(keys) /\ run'.plan = p /\ run'.tries = 0 /\ run'.paths = <<>> /\ run'.request = run.request
    <2> DEFINE first == SceneBounds(p)
               at == s(keys)
    <2>1. run' = [run EXCEPT !.keys = keys, !.plan = p, !.first = first, !.at = at]
        BY <1>1
    <2> HIDE DEF p, first, at
    <2>2. /\ run'.at = at /\ run'.plan = p /\ run'.tries = run.tries /\ run'.paths = run.paths
          /\ run'.request = run.request
        BY <2>1 DEF TypeInv, RunTyped, Fitting, RunFields
    <2> QED
        BY <1>3, <2>2 DEF at
<1>8. s(keys) = "audio" \/ (s(keys) = "split" /\ Len(p) > 1) \/ (s(keys) = "produce" /\ ~(Len(p) > 1))
    OBVIOUS
<1> HIDE DEF s, p, plan
<1>9. CASE s(keys) = "audio"
    <2>1. RunIsGood' /\ TmpIsGood'
        BY <1>3, <1>7, <1>9, LateRun DEF RunIsGood, TmpIsGood, At, Windows
    <2> QED
        BY <1>2, <1>3, <2>1, DirStays, EditStays
<1>10. CASE s(keys) = "split" /\ Len(p) > 1
    <2>1. p = FirstPlan(video, Windows)
        <3>1. Len(WholePlan(Windows)) = 1
            BY <1>3, WholePlanIs
        <3>2. p # WholePlan(Windows)
            <4>1. SUFFICES ASSUME p = WholePlan(Windows) PROVE FALSE
                OBVIOUS
            <4>2. Len(p) = 1
                BY <3>1, <4>1
            <4> QED
                BY <1>10, <4>2
        <3> QED
            BY <1>5, <3>2
    <2>2. RunIsGood'
        BY <1>2, <1>3, <1>6, <1>7, <1>10, <2>1 DEF RunIsGood, GoodRun, Working, Building, Windows
    <2>3. TmpIsGood'
        BY <1>7, <1>10 DEF TmpIsGood, At
    <2> QED
        BY <1>2, <1>3, <2>2, <2>3, DirStays, EditStays
<1>11. CASE s(keys) = "produce" /\ ~(Len(p) > 1)
    <2>1. Len(p) = 1
        BY <1>5, <1>11 DEF Laid
    <2>2. GoodFiles(p, Windows, dir)
        BY <1>3, <1>4, <1>5, <2>1, SingleFiles
    <2>3. \A i \in 1..Len(run'.paths) : GoodPiece(run'.plan, Windows, i, run'.paths[i])
        BY <1>7
    <2>4. RunIsGood'
        BY <1>2, <1>3, <1>5, <1>6, <1>7, <1>11, <2>2, <2>3 DEF RunIsGood, GoodRun, Working, Building, Windows
    <2>5. TmpIsGood'
        BY <1>7, <1>11 DEF TmpIsGood, At
    <2> QED
        BY <1>2, <1>3, <2>4, <2>5, DirStays, EditStays
<1> QED
    BY <1>8, <1>9, <1>10, <1>11

LEMMA SplitRight == ASSUME TypeInv, EditInv, Split PROVE EditInv'
<1> DEFINE new == SplitCopies(video, run.plan)
           files == Over(new, dir.copy)
<1>1. run.at = "split" /\ Stage("check") /\ dir' = [dir EXCEPT !.copy = files] /\ edit' = edit /\ video' = video
    BY DEF Split, At, sources
<1>2. Among(new, files) /\ (Among(dir.copy, new) => Among(files, new))
    BY OverIsAmong
<1> HIDE DEF new, files
<1>3. /\ dir'.copy = files /\ dir'.for = dir.for /\ dir'.fixed = dir.fixed /\ dir'.reencode = dir.reencode
      /\ dir'.whole = dir.whole /\ dir'.joined = dir.joined
    BY <1>1 DEF TypeInv, DirTyped, DirFields
<1>4. /\ run'.at = "check" /\ run'.request = run.request /\ run'.tries = run.tries /\ run'.paths = run.paths
      /\ run'.plan = run.plan
    BY <1>1 DEF Stage, TypeInv, RunTyped, Fitting, RunFields
<1>5. /\ Windows # {} /\ run.paths = <<>> /\ \E k : run.plan = Plan(Windows, k)
      /\ Clean1st(video, Windows) => run.tries = 0
      /\ run.tries = 0 => run.plan = FirstPlan(video, Windows)
      /\ run.tries # 0 => dir.reencode = <<>> /\ dir.fixed = <<>> /\ dir.copy = <<>>
    BY <1>1 DEF EditInv, RunIsGood, GoodRun, Working, Building, Windows
<1>6. /\ GoodDir(video, dir, Windows)
    BY <1>1, OwnDirIsGood DEF EditInv, Building
<1>7. GoodDir(video, dir', Windows)
    <2>1. ASSUME Clean1st(video, Windows) PROVE Among(files, new) /\ new = SplitCopies(video, FirstPlan(video, Windows))
        BY <1>2, <1>5, <1>6, <2>1 DEF GoodDir, new
    <2> QED
        BY <1>3, <1>6, <2>1 DEF GoodDir
<1>8. RunIsGood'
    <2>1. run.tries # 0 => Among(files, new)
        BY <1>2, <1>5, NoneAmong
    <2>2. SplitCopies(video', run'.plan) = new
        BY <1>1, <1>4 DEF new
    <2> QED
        BY <1>1, <1>2, <1>3, <1>4, <1>5, <2>1, <2>2 DEF RunIsGood, GoodRun, Working, Building, Windows
<1>9. TmpIsGood' /\ DirIsGood'
    BY <1>1, <1>3, <1>4, <1>7, OwnDirStays DEF TmpIsGood, At, Building
<1> QED
    BY <1>1, <1>8, <1>9, EditStays

\* What the checks find nothing wrong with is good.
LEMMA CheckRight == ASSUME ~MayMiss, TypeInv, EditInv, CutsAreGood PROVE EditInv'
<1> DEFINE p == run.plan
<1>1. run.at = "check" /\ Stage("produce") /\ Found = {} /\ dir' = dir /\ edit' = edit /\ video' = video
    BY DEF CutsAreGood, At, sources
<1>2. /\ run'.at = "produce" /\ run'.request = run.request /\ run'.tries = run.tries /\ run'.paths = run.paths
      /\ run'.plan = run.plan
    BY <1>1 DEF Stage, TypeInv, RunTyped, Fitting, RunFields
<1>3. /\ Windows # {} /\ run.paths = <<>> /\ \E k : p = Plan(Windows, k)
      /\ Clean1st(video, Windows) => run.tries = 0
      /\ run.tries = 0 => p = FirstPlan(video, Windows)
      /\ run.tries = 0 => Among(SplitCopies(video, p), dir.copy)
      /\ run.tries # 0 => dir.reencode = <<>> /\ dir.fixed = <<>> /\ Among(dir.copy, SplitCopies(video, p))
    BY <1>1 DEF EditInv, RunIsGood, GoodRun, Working, Building, Windows
<1>4. /\ GoodDir(video, dir, Windows) /\ Windows \in SUBSET Window
    BY <1>1, OwnDirIsGood DEF EditInv, Building
<1>5. Laid(p, Windows)
    BY <1>3, <1>4, PlanIsLaid
<1>6. Len(p) \in Nat \ {0} /\ DOMAIN p = 1..Len(p)
    BY <1>5 DEF Laid
<1>7. AllComplaints(video, p, dir.copy) = <<>>
    BY <1>1, <1>6, FoundIs
<1>8. GoodFiles(p, Windows, dir)
    <2>1. CASE run.tries = 0
        <3>1. AllComplaints(video, p, SplitCopies(video, p)) = <<>>
            BY <1>3, <1>6, <1>7, <2>1, FewerComplaints
        <3>2. Clean1st(video, Windows)
            BY <1>3, <2>1, <3>1 DEF Clean1st
        <3> QED
            BY <1>3, <1>4, <2>1, <3>2, FirstFiles
    <2>2. CASE run.tries # 0
        <3>1. ASSUME NEW i \in 1..Len(p), ~p[i].reencode, i \in DOMAIN dir.copy
              PROVE  GoodPiece(p, Windows, i, dir.copy[i])
            <4>1. Complaints(video, p, dir.copy, i) = <<>>
                BY <1>6, <1>7, NoComplaints
            <4> QED
                BY <1>3, <1>5, <2>2, <3>1, <4>1, CopyIsGood
        <3>2. DOMAIN dir.reencode = {} /\ DOMAIN dir.fixed = {}
            BY <1>3, <2>2
        <3> QED
            BY <3>1, <3>2 DEF GoodFiles
    <2> QED
        BY <2>1, <2>2
<1>9. RunIsGood'
    <2>1. \A i \in 1..Len(run'.paths) : GoodPiece(run'.plan, Windows, i, run'.paths[i])
        BY <1>2, <1>3
    <2> HIDE DEF p
    <2>2. p = run.plan
        BY DEF p
    <2> QED
        BY <1>1, <1>2, <1>3, <1>8, <2>1, <2>2 DEF RunIsGood, GoodRun, Working, Building, Windows
<1>10. TmpIsGood' /\ DirIsGood'
    BY <1>1, <1>2, DirStays DEF EditInv, TmpIsGood, At
<1> QED
    BY <1>1, <1>9, <1>10, EditStays

\* The cuts of the first plan are found bad only where they are, and then every
\* attempt finds them so.
LEMMA ReplanRight == ASSUME ~MayMiss, TypeInv, EditInv, CutIsBad PROVE EditInv'
<1> DEFINE p == run.plan
<1>1. PICK bad \in Found :
          \E keys \in {(run.keys \ {bad.boundary}) \cup bad.keys} :
          \E plan \in {Plan(Windows, keys)} :
            IF TooFar(bad.boundary)
            THEN Fails /\ UNCHANGED dir
            ELSE /\ dir' = Wiped
                 /\ IF run.tries + 1 = MaxTries
                    THEN Fails
                    ELSE /\ run' = [run EXCEPT !.keys = keys, !.plan = plan, !.tries = @ + 1,
                                      !.at = IF Len(plan) > 1 THEN "split" ELSE "check"]
                         /\ UNCHANGED tmp
    BY DEF CutIsBad
<1> DEFINE keys == (run.keys \ {bad.boundary}) \cup bad.keys
           plan == Plan(Windows, keys)
           s == IF Len(plan) > 1 THEN "split" ELSE "check"
<1>2. run.at = "check" /\ Found # {} /\ edit' = edit /\ video' = video /\ run.tries \in Nat
    BY <1>1 DEF CutIsBad, At, sources, TypeInv, RunTyped, Fitting
<1>3. /\ Windows # {} /\ run.paths = <<>> /\ \E k : p = Plan(Windows, k)
      /\ Clean1st(video, Windows) => run.tries = 0
      /\ run.tries = 0 => p = FirstPlan(video, Windows)
    BY <1>2 DEF EditInv, RunIsGood, GoodRun, Working, Building, Windows
<1>4. /\ GoodDir(video, dir, Windows) /\ Windows \in SUBSET Window
    BY <1>2, OwnDirIsGood DEF EditInv, Building
<1>5. Laid(p, Windows)
    BY <1>3, <1>4, PlanIsLaid
<1>6. Len(p) \in Nat \ {0} /\ DOMAIN p = 1..Len(p)
    BY <1>5 DEF Laid
<1>7. ~Clean1st(video, Windows)
    <2>1. SUFFICES ASSUME Clean1st(video, Windows) PROVE FALSE
        OBVIOUS
    <2>2. /\ p = FirstPlan(video, Windows) /\ Among(dir.copy, SplitCopies(video, p))
          /\ AllComplaints(video, p, SplitCopies(video, p)) = <<>>
        BY <1>3, <1>4, <2>1 DEF GoodDir, Clean1st
    <2>3. AllComplaints(video, p, dir.copy) = <<>>
        BY <1>6, <2>2, FewerComplaints
    <2> QED
        BY <1>2, <1>6, <2>3, FoundIs
<1>8. DirIsGood'
    <2>1. CASE dir' = dir
        BY <1>2, <2>1, DirStays DEF EditInv
    <2>2. CASE dir' = Wiped
        <3>1. /\ dir'.for = dir.for /\ dir'.reencode = <<>> /\ dir'.fixed = <<>> /\ dir'.copy = <<>>
              /\ dir'.whole = dir.whole /\ dir'.joined = dir.joined
            BY <2>2 DEF TypeInv, DirTyped, DirFields, Wiped, NoFiles
        <3>2. GoodDir(video, dir', Windows)
            BY <1>4, <3>1, NoneAmong, LessDir
        <3> QED
            BY <1>2, <3>1, <3>2, OwnDirStays DEF Building
    <2> QED
        BY <1>1, <2>1, <2>2
<1>9. CASE Fails
    <2>1. RunIsGood' /\ TmpIsGood'
        BY <1>2, <1>9, FailedRun DEF EditInv, Working, Building
    <2> QED
        BY <1>2, <1>8, <2>1, EditStays
<1>10. CASE /\ dir' = Wiped
            /\ run' = [run EXCEPT !.keys = keys, !.plan = plan, !.tries = @ + 1, !.at = s]
    <2>1. dir'.reencode = <<>> /\ dir'.fixed = <<>> /\ dir'.copy = <<>>
        BY <1>10 DEF TypeInv, DirTyped, DirFields, Wiped, NoFiles
    <2>2. \E k : plan = Plan(Windows, k)
        OBVIOUS
    <2>3. s \in {"split", "check"}
        OBVIOUS
    <2> HIDE DEF s, plan, keys
    <2>4. /\ run'.at = s /\ run'.request = run.request /\ run'.tries = run.tries + 1 /\ run'.paths = run.paths
          /\ run'.plan = plan
        BY <1>10 DEF TypeInv, RunTyped, Fitting, RunFields
    <2>5. run'.tries # 0
        BY <1>2, <2>4
    <2>6. RunIsGood'
        BY <1>2, <1>3, <1>7, <2>1, <2>2, <2>3, <2>4, <2>5, NoneAmong DEF RunIsGood, GoodRun, Working, Building, Windows
    <2>7. TmpIsGood'
        BY <2>3, <2>4 DEF TmpIsGood, At
    <2> QED
        BY <1>2, <1>8, <2>6, <2>7, EditStays
<1> HIDE DEF s, plan
<1> QED
    BY <1>1, <1>9, <1>10 DEF s, plan

\* What is known of the attempt when it takes a piece.
LEMMA TurnIsGood ==
    ASSUME TypeInv, EditInv, NEW b, Turn(b)
    PROVE  /\ run.at = "produce" /\ Windows # {} /\ Windows \in SUBSET Window
           /\ dir.for = run.request /\ GoodDir(video, dir, Windows)
           /\ Laid(run.plan, Windows) /\ Next1 \in 1..Len(run.plan) /\ run.plan[Next1].reencode = b
           /\ \E k : run.plan = Plan(Windows, k)
           /\ Clean1st(video, Windows) => run.plan \in {FirstPlan(video, Windows), WholePlan(Windows)}
           /\ GoodFiles(run.plan, Windows, dir)
           /\ \A i \in 1..Len(run.paths) : GoodPiece(run.plan, Windows, i, run.paths[i])
<1>1. run.at = "produce" /\ Next1 \in DOMAIN run.plan /\ run.plan[Next1].reencode = b
    BY DEF Turn, At
<1>2. /\ Windows # {} /\ \E k : run.plan = Plan(Windows, k)
      /\ Clean1st(video, Windows) => run.plan \in {FirstPlan(video, Windows), WholePlan(Windows)}
      /\ GoodFiles(run.plan, Windows, dir)
      /\ \A i \in 1..Len(run.paths) : GoodPiece(run.plan, Windows, i, run.paths[i])
    BY <1>1 DEF EditInv, RunIsGood, GoodRun, Working, Building, Windows
<1>3. dir.for = run.request /\ GoodDir(video, dir, Windows) /\ Windows \in SUBSET Window
    BY <1>1, OwnDirIsGood DEF EditInv, Building
<1>4. Laid(run.plan, Windows)
    BY <1>2, <1>3, PlanIsLaid
<1>5. DOMAIN run.plan = 1..Len(run.plan)
    BY <1>4 DEF Laid
<1> QED
    BY <1>1, <1>2, <1>3, <1>4, <1>5

\* A good piece more.
LEMMA TakingIsRight ==
    ASSUME TypeInv, EditInv, NEW b, Turn(b), NEW piece, GoodPiece(run.plan, Windows, Next1, piece), Take(piece),
           UNCHANGED <<video, edit>>, GoodFiles(run.plan, Windows, dir'),
           dir'.for = dir.for, GoodDir(video, dir', Windows)
    PROVE  EditInv'
<1>1. run.at = "produce" /\ Windows # {} /\ run.paths \in Seq(Film)
    BY TurnIsGood DEF TypeInv, RunTyped, Fitting
<1>2. /\ run'.at = "produce" /\ run'.request = run.request /\ run'.plan = run.plan /\ run'.tries = run.tries
      /\ run'.paths = Append(run.paths, piece)
    BY <1>1 DEF TypeInv, RunTyped, Fitting, RunFields, Take
<1>3. ASSUME NEW i \in 1..Len(run'.paths) PROVE GoodPiece(run'.plan, Windows, i, run'.paths[i])
    <2>1. Len(run'.paths) = Next1 /\ Next1 = Len(run.paths) + 1 /\ Len(run.paths) \in Nat
        BY <1>1, <1>2 DEF Next1
    <2>2. CASE i = Next1
        <3>1. run'.paths[i] = piece
            BY <1>1, <1>2, <2>1, <2>2
        <3> QED
            BY <1>2, <2>2, <3>1
    <2>3. CASE i # Next1
        <3>1. i \in 1..Len(run.paths)
            BY <2>1, <2>3
        <3>2. run'.paths[i] = run.paths[i]
            BY <1>1, <1>2, <3>1
        <3> QED
            BY <1>2, <3>1, <3>2, TurnIsGood
    <2> QED
        BY <2>2, <2>3
<1>4. RunIsGood'
    <2>1. /\ \E k : run.plan = Plan(Windows, k)
          /\ Clean1st(video, Windows) => run.plan \in {FirstPlan(video, Windows), WholePlan(Windows)}
        BY TurnIsGood
    <2> QED
        BY <1>1, <1>2, <1>3, <2>1 DEF RunIsGood, GoodRun, Working, Building, Windows
<1>5. TmpIsGood' /\ DirIsGood'
    BY <1>1, <1>2, OwnDirStays DEF TmpIsGood, At, Building
<1> QED
    BY <1>4, <1>5, EditStays

LEMMA SceneRight == ASSUME TypeInv, EditInv, ProduceScene PROVE EditInv'
<1> DEFINE p == run.plan
           k == Next1
           piece == Encoded(p[k])
           files == Over(Piece(k, piece), dir.reencode)
<1>1. Turn(TRUE) /\ UNCHANGED <<video, edit>>
    BY DEF ProduceScene, sources
<1>2. /\ Windows # {} /\ Windows \in SUBSET Window /\ GoodDir(video, dir, Windows)
      /\ Laid(p, Windows) /\ k \in 1..Len(p) /\ p[k].reencode
      /\ Clean1st(video, Windows) => p \in {FirstPlan(video, Windows), WholePlan(Windows)}
      /\ GoodFiles(p, Windows, dir)
    BY <1>1, TurnIsGood
<1>3. CASE k \in DOMAIN dir.reencode /\ Take(dir.reencode[k]) /\ UNCHANGED dir
    <2>1. GoodPiece(p, Windows, k, dir.reencode[k])
        BY <1>2, <1>3 DEF GoodFiles
    <2> QED
        BY <1>1, <1>2, <1>3, <2>1, TakingIsRight
<1>4. CASE dir' = [dir EXCEPT !.reencode = Over(Piece(k, piece), @)] /\ Take(piece)
    <2>1. /\ piece = Footage(p[k].from, p[k].to, Within(Windows))
          /\ p[k].from \in 0..Duration /\ p[k].to \in 0..Duration /\ p[k].from < p[k].to
        BY <1>2 DEF Laid
    <2>2. /\ DOMAIN files = {k} \cup DOMAIN dir.reencode /\ files[k] = piece
          /\ \A i \in DOMAIN dir.reencode \ {k} : files[i] = dir.reencode[i]
        BY DEF Over, Piece
    <2> HIDE DEF piece, files
    <2>3. /\ dir'.reencode = files /\ dir'.for = dir.for /\ dir'.copy = dir.copy /\ dir'.fixed = dir.fixed
          /\ dir'.whole = dir.whole /\ dir'.joined = dir.joined
        BY <1>4 DEF TypeInv, DirTyped, DirFields, files
    <2> HIDE DEF p, k
    <2>4. GoodPiece(p, Windows, k, piece)
        BY <2>1 DEF GoodPiece
    <2>5. GoodFiles(p, Windows, dir')
        BY <1>2, <2>2, <2>3, <2>4 DEF GoodFiles
    <2>6. 1 \in DOMAIN files => \E c \in 1..Duration : files[1] = Footage(0, c, Within(Windows))
        <3>1. CASE k = 1
            <4>1. p[k].from = 0 /\ p[k].to \in 1..Duration
                BY <1>2, <2>1, <3>1, BlurBuildAssumption DEF Laid
            <4> QED
                BY <2>1, <2>2, <3>1, <4>1
        <3>2. CASE k # 1
            BY <1>2, <2>2, <3>2 DEF GoodDir
        <3> QED
            BY <3>1, <3>2
    <2>7. ASSUME Clean1st(video, Windows), NEW i \in 1..Len(FirstPlan(video, Windows)),
                 FirstPlan(video, Windows)[i].reencode, i \in DOMAIN files
          PROVE  GoodPiece(FirstPlan(video, Windows), Windows, i, files[i])
        <3>1. CASE i # k
            BY <1>2, <2>2, <2>7, <3>1 DEF GoodDir
        <3>2. CASE i = k /\ p = FirstPlan(video, Windows)
            BY <2>2, <2>4, <3>2
        <3>3. CASE i = k /\ p = WholePlan(Windows)
            <4>1. k = 1 /\ Len(p) = 1
                BY <1>2, <3>3, WholePlanIs
            <4>2. p[k].from = 0 /\ p[k].to = Duration
                BY <1>2, <4>1 DEF Laid
            <4>3. piece = Wanted(Windows)
                BY <2>1, <4>2 DEF Wanted
            <4> QED
                BY <2>2, <3>3, <4>1, <4>3 DEF GoodPiece
        <3> QED
            BY <1>2, <2>7, <3>1, <3>2, <3>3
    <2>8. GoodDir(video, dir', Windows)
        BY <1>2, <2>3, <2>6, <2>7 DEF GoodDir
    <2> QED
        BY <1>1, <1>4, <2>3, <2>4, <2>5, <2>8, TakingIsRight DEF p, k
<1> QED
    BY <1>3, <1>4 DEF ProduceScene

LEMMA CopyRight == ASSUME TypeInv, EditInv, ProduceCopy PROVE EditInv'
<1> DEFINE p == run.plan
           k == Next1
           files == Over(Piece(k, dir.copy[k]), dir.fixed)
<1>1. Turn(FALSE) /\ UNCHANGED <<video, edit>>
    BY DEF ProduceCopy, sources
<1>2. /\ Windows # {} /\ Windows \in SUBSET Window /\ GoodDir(video, dir, Windows)
      /\ Laid(p, Windows) /\ k \in 1..Len(p) /\ ~p[k].reencode /\ run.at = "produce"
      /\ GoodFiles(p, Windows, dir)
    BY <1>1, TurnIsGood
<1>3. CASE k \in DOMAIN dir.fixed /\ Take(dir.fixed[k]) /\ UNCHANGED dir
    <2>1. GoodPiece(p, Windows, k, dir.fixed[k])
        BY <1>2, <1>3 DEF GoodFiles
    <2> QED
        BY <1>1, <1>2, <1>3, <2>1, TakingIsRight
<1>4. CASE /\ k \in DOMAIN dir.copy /\ dir' = [dir EXCEPT !.fixed = Over(Piece(k, dir.copy[k]), @)]
           /\ Take(dir.copy[k])
    <2>1. GoodPiece(p, Windows, k, dir.copy[k])
        BY <1>2, <1>4 DEF GoodFiles
    <2>2. /\ DOMAIN files = {k} \cup DOMAIN dir.fixed /\ files[k] = dir.copy[k]
          /\ \A i \in DOMAIN dir.fixed \ {k} : files[i] = dir.fixed[i]
        BY DEF Over, Piece
    <2> HIDE DEF files
    <2>3. /\ dir'.fixed = files /\ dir'.for = dir.for /\ dir'.copy = dir.copy /\ dir'.reencode = dir.reencode
          /\ dir'.whole = dir.whole /\ dir'.joined = dir.joined
        BY <1>4 DEF TypeInv, DirTyped, DirFields, files
    <2> HIDE DEF p, k
    <2>4. GoodFiles(p, Windows, dir')
        BY <1>2, <2>1, <2>2, <2>3 DEF GoodFiles
    <2>5. ASSUME NEW s, Among(dir.copy, s), Among(dir.fixed, s) PROVE Among(files, s)
        BY <1>4, <2>2, <2>5 DEF Among
    <2>6. GoodDir(video, dir', Windows)
        BY <1>2, <2>3, <2>5 DEF GoodDir
    <2> QED
        BY <1>1, <1>4, <2>1, <2>3, <2>4, <2>6, TakingIsRight DEF p, k
<1>5. CASE Fails /\ UNCHANGED dir
    <2>1. RunIsGood' /\ TmpIsGood'
        BY <1>2, <1>5, FailedRun DEF EditInv, Working, Building
    <2> QED
        BY <1>1, <1>5, <2>1, DirStays, EditStays DEF EditInv
<1> QED
    BY <1>3, <1>4, <1>5 DEF ProduceCopy

\* To another stage late in the attempt.
LEMMA LateStage ==
    ASSUME TypeInv, EditInv, run.at \in Building, UNCHANGED <<video, edit>>, DirIsGood', NEW s, Stage(s),
           s \in {"audio", "audioJoin", "mux", "verify", "publish"},
           s = "verify" => RightFilm(tmp', Windows), s = "publish" => tmp' = Wanted(Windows)
    PROVE  EditInv'
<1>1. run'.at = s /\ run'.request = run.request
    BY DEF Stage, TypeInv, RunTyped, Fitting, RunFields
<1>2. run.request.windows # {}
    BY DEF EditInv, RunIsGood, GoodRun, Working, Building
<1>3. RunIsGood'
    BY <1>1, <1>2, LateRun DEF RunIsGood
<1>4. TmpIsGood'
    BY <1>1 DEF TmpIsGood, At, Windows
<1> QED
    BY <1>3, <1>4, EditStays

LEMMA FailRight ==
    ASSUME TypeInv, EditInv, run.at \in Working, UNCHANGED <<video, edit, dir>>, Fails
    PROVE  EditInv'
BY FailedRun, DirStays, EditStays DEF EditInv

LEMMA JoinRight == ASSUME TypeInv, EditInv, Join \/ ReencodeAll PROVE EditInv'
<1>1. CASE Join
    <2> DEFINE film == FlattenSeq(run.paths)
    <2>1. /\ run.at = "produce" /\ Len(run.paths) = Len(run.plan) /\ dir' = [dir EXCEPT !.joined = film]
          /\ Stage("audio") /\ UNCHANGED <<video, edit>>
        BY <1>1 DEF Join, At, sources
    <2>2. /\ \E k : run.plan = Plan(Windows, k)
          /\ \A i \in 1..Len(run.paths) : GoodPiece(run.plan, Windows, i, run.paths[i])
        BY <2>1 DEF EditInv, RunIsGood, GoodRun, Windows
    <2>3. GoodDir(video, dir, Windows) /\ Windows \in SUBSET Window
        BY <2>1, OwnDirIsGood DEF EditInv, Building
    <2>4. Laid(run.plan, Windows) /\ run.paths \in Seq(Film)
        BY <2>2, <2>3, PlanIsLaid DEF TypeInv, RunTyped, Fitting
    <2>5. RightFilm(film, Windows)
        BY <2>1, <2>2, <2>4, JoinIsRight
    <2> HIDE DEF film
    <2>6. /\ dir'.joined = film /\ dir'.for = dir.for /\ dir'.copy = dir.copy /\ dir'.fixed = dir.fixed
          /\ dir'.reencode = dir.reencode /\ dir'.whole = dir.whole
        BY <2>1 DEF TypeInv, DirTyped, DirFields
    <2>7. GoodDir(video, dir', Windows)
        BY <2>3, <2>5, <2>6 DEF GoodDir
    <2>8. DirIsGood' /\ run.at \in Building
        BY <2>1, <2>6, <2>7, OwnDirStays DEF Building, Working
    <2> QED
        BY <2>1, <2>8, LateStage
<1>2. CASE ReencodeAll
    <2> DEFINE film == IF dir.whole # NoFile THEN dir.whole ELSE Wanted(Windows)
    <2>1. run.at = "reencode" /\ dir' = [dir EXCEPT !.whole = film] /\ Stage("audio") /\ UNCHANGED <<video, edit>>
        BY <1>2 DEF ReencodeAll, At, sources
    <2>2. GoodDir(video, dir, Windows)
        BY <2>1, OwnDirIsGood DEF EditInv, Building
    <2>3. film = Wanted(Windows)
        BY <2>2 DEF GoodDir
    <2> HIDE DEF film
    <2>4. /\ dir'.whole = film /\ dir'.for = dir.for /\ dir'.copy = dir.copy /\ dir'.fixed = dir.fixed
          /\ dir'.reencode = dir.reencode /\ dir'.joined = dir.joined
        BY <2>1 DEF TypeInv, DirTyped, DirFields
    <2>5. GoodDir(video, dir', Windows)
        BY <2>2, <2>3, <2>4 DEF GoodDir
    <2>6. DirIsGood' /\ run.at \in Building
        BY <2>1, <2>4, <2>5, OwnDirStays DEF Building, Working
    <2> QED
        BY <2>1, <2>6, LateStage
<1> QED
    BY <1>1, <1>2

LEMMA AudioRight == ASSUME TypeInv, EditInv, MuteAudio \/ JoinAudio PROVE EditInv'
<1>1. /\ run.at \in {"audio", "audioJoin"} /\ UNCHANGED <<video, edit>>
      /\ run.at \in Working /\ run.at \in Building \ {"opening"}
    BY DEF MuteAudio, JoinAudio, At, sources, Working, Building
<1>2. CASE Fails /\ UNCHANGED dir
    BY <1>1, <1>2, FailRight
<1>3. CASE /\ Stage("mux") \/ Stage("audioJoin")
           /\ \/ UNCHANGED dir
              \/ \E m : dir' = [dir EXCEPT !.muted = m]
              \/ \E m : dir' = [dir EXCEPT !.audio = m]
    <2>1. /\ dir'.for = dir.for /\ dir'.copy = dir.copy /\ dir'.fixed = dir.fixed /\ dir'.whole = dir.whole
          /\ dir'.reencode = dir.reencode /\ dir'.joined = dir.joined
        BY <1>3 DEF TypeInv, DirTyped, DirFields
    <2>2. GoodDir(video, dir, Windows)
        BY <1>1, OwnDirIsGood DEF EditInv
    <2>3. GoodDir(video, dir', Windows)
        BY <2>1, <2>2, AmongItself, LessDir
    <2>4. DirIsGood'
        BY <1>1, <2>1, <2>3, OwnDirStays
    <2> QED
        BY <1>1, <1>3, <2>4, LateStage
<1> QED
    BY <1>2, <1>3 DEF MuteAudio, JoinAudio

\* What is muxed has the right length only if it is the film that is wanted.
LEMMA MuxRight == ASSUME TypeInv, EditInv, Mux \/ Verify PROVE EditInv'
<1>1. /\ run.at \in {"mux", "verify"} /\ UNCHANGED <<video, edit, dir>>
      /\ run.at \in Working /\ run.at \in Building \ {"opening"}
    BY DEF Mux, Verify, At, sources, Working, Building
<1>2. CASE Fails
    BY <1>1, <1>2, FailRight
<1>3. DirIsGood' /\ GoodDir(video, dir, Windows)
    BY <1>1, DirStays, OwnDirIsGood DEF EditInv
<1>4. CASE Mux /\ tmp' = (IF run.whole THEN dir.whole ELSE dir.joined) /\ Stage("verify")
    <2>1. Len(Wanted(Windows)) = Duration /\ RightFilm(Wanted(Windows), Windows)
        <3>1. 0 \in 0..Duration /\ Duration \in 0..Duration /\ 0 <= Duration /\ Duration - 0 = Duration
            BY BlurBuildAssumption
        <3> QED
            BY <3>1, FootageIsFilm DEF Wanted, RightFilm
    <2>2. IF run.whole THEN dir.whole \in Film ELSE dir.joined \in Film
        BY <1>4 DEF Mux, At, TypeInv, FilmIsThere
    <2>3. RightFilm(tmp', Windows)
        BY <1>3, <1>4, <2>1, <2>2, NoFileAssumption DEF GoodDir
    <2> QED
        BY <1>1, <1>3, <1>4, <2>3, LateStage
<1>5. CASE Verify /\ RightLength /\ Stage("publish") /\ UNCHANGED tmp
    <2>1. tmp' = Wanted(Windows)
        BY <1>5 DEF Verify, At, RightLength, EditInv, TmpIsGood, RightFilm
    <2> QED
        BY <1>1, <1>3, <1>5, <2>1, LateStage
<1> QED
    BY <1>2, <1>4, <1>5 DEF Mux, Verify

LEMMA EndRight == ASSUME TypeInv, EditInv, Publish \/ Clean \/ Record \/ Save PROVE EditInv'
<1>1. video' = video /\ run'.at \in {"none", "clean", "recording", "saving", "savingFailed"}
    <2>1. CASE Stage("clean") \/ Stage("recording") \/ Stage("saving") \/ Stage("savingFailed")
        BY <2>1 DEF Publish, Clean, Record, Save, Stage, TypeInv, RunTyped, Fitting, RunFields, sources
    <2>2. CASE run' = NoRun
        BY <2>2, Empty DEF Publish, Clean, Record, Save, sources
    <2> QED
        BY <2>1, <2>2 DEF Publish, Clean, Record, Save
<1>2. RunIsGood' /\ TmpIsGood'
    BY <1>1, IdleRun DEF RunIsGood, TmpIsGood, At
<1>3. DirIsGood'
    <2>1. CASE dir' = dir
        BY <1>1, <2>1, DirStays DEF EditInv
    <2>2. CASE dir' = EmptyDir
        BY <2>2, Empty DEF DirIsGood
    <2> QED
        BY <2>1, <2>2 DEF Publish, Clean, Record, Save
<1>4. EditIsRight'
    <2>1. CASE Publish
        <3>1. edit' = [request |-> run.request, footage |-> tmp] /\ tmp = Wanted(Windows)
            BY <2>1 DEF Publish, EditInv, TmpIsGood
        <3>2. edit'.request = run.request /\ edit'.footage = tmp
            BY <3>1
        <3> QED
            BY <3>1, <3>2 DEF EditIsRight, Windows
    <2>2. CASE edit' = edit
        BY <2>2 DEF EditInv, EditIsRight
    <2> QED
        BY <2>1, <2>2 DEF Clean, Record, Save
<1> QED
    BY <1>2, <1>3, <1>4 DEF EditInv

LEMMA HalfWipedIsGood ==
    ASSUME DirTyped, DirIsGood, video' = video, dir' \in HalfWiped
    PROVE  DirIsGood'
<1>1. /\ dir'.for \in {dir.for, NoFile} /\ dir'.whole \in {dir.whole, NoFile}
      /\ Among(dir'.reencode, dir.reencode)
    BY HalfWipedIsLess DEF Among
<1>2. dir'.joined \in {dir.joined, NoFile} /\ dir'.copy = <<>> /\ dir'.fixed \in {dir.fixed, <<>>}
    <2> DEFINE parts == {Restrict(dir.reencode, S) : S \in SUBSET DOMAIN dir.reencode}
    <2>1. dir' \in [for: {dir.for, NoFile}, copy: {NoFiles}, fixed: {dir.fixed, NoFiles}, reencode: parts,
                    joined: {dir.joined, NoFile}, whole: {dir.whole, NoFile},
                    muted: {dir.muted, 0}, audio: {dir.audio, 0}]
        BY DEF HalfWiped
    <2> HIDE DEF parts
    <2> QED
        BY <2>1 DEF NoFiles
<1>3. Among(dir'.copy, dir.copy) /\ Among(dir'.fixed, dir.fixed)
    BY <1>2, NoneAmong, AmongItself
<1>4. SUFFICES ASSUME dir'.for # NoFile PROVE GoodDir(video, dir', dir'.for.windows)
    BY DEF DirIsGood
<1>5. dir'.for = dir.for /\ GoodDir(video, dir, dir'.for.windows)
    BY <1>1, <1>4 DEF DirIsGood
<1> QED
    BY <1>1, <1>2, <1>3, <1>5, LessDir

LEMMA OthersRight ==
    ASSUME TypeInv, EditInv, Fail \/ Cancel \/ Lose \/ Review \/ AddTrack \/ Crash \/ Start \/ UNCHANGED vars
    PROVE  EditInv'
<1>1. UNCHANGED <<video, edit>>
    BY DEF Fail, Cancel, Lose, Review, AddTrack, Crash, Start, sources, vars
<1>2. CASE Fail
    BY <1>1, <1>2, FailRight DEF Fail
<1>3. CASE run' = NoRun /\ (dir' = dir \/ dir' = EmptyDir \/ dir' \in HalfWiped)
    <2>1. RunIsGood' /\ TmpIsGood'
        BY <1>3, Empty, IdleRun DEF RunIsGood, TmpIsGood, At
    <2>2. DirIsGood'
        <3>1. CASE dir' = EmptyDir
            BY <3>1, Empty DEF DirIsGood
        <3> QED
            BY <1>1, <1>3, <3>1, DirStays, HalfWipedIsGood DEF EditInv, TypeInv
    <2> QED
        BY <1>1, <2>1, <2>2, EditStays
<1>4. CASE UNCHANGED <<run, dir, tmp>>
    BY <1>1, <1>4 DEF EditInv, DirIsGood, RunIsGood, TmpIsGood, EditIsRight, At, Windows
<1>5. CASE Start
    <2>1. run.at = "none" /\ run' = run /\ dir' = dir
        BY <1>5 DEF Start, TypeInv, OutsideTyped
    <2>2. RunIsGood' /\ TmpIsGood'
        BY <2>1, IdleRun DEF RunIsGood, TmpIsGood, At
    <2> QED
        BY <1>1, <2>1, <2>2, DirStays, EditStays DEF EditInv
<1> QED
    BY <1>2, <1>3, <1>4, <1>5 DEF Cancel, Lose, Review, AddTrack, Crash, vars

LEMMA NextIsRight == ASSUME ~MayMiss PROVE TypeInv /\ EditInv /\ [Next]_vars => EditInv'
<1> SUFFICES ASSUME TypeInv, EditInv, [Next]_vars PROVE EditInv'
    OBVIOUS
<1>1. CASE Attempt
    BY <1>1, BeginRight, PlanRight, SplitRight, CheckRight, ReplanRight, SceneRight, CopyRight, JoinRight,
        AudioRight, MuxRight, EndRight DEF Attempt
<1> QED
    BY <1>1, OthersRight DEF Next

\* When no probe of a cut fails, what is published plays the whole video, in
\* order, with every window it was built for blurred and nothing else: for any
\* video, wherever it really can be cut, whatever fails or is given up, and
\* whatever an attempt that crashed left behind.
THEOREM EditsAreRight == ASSUME ~MayMiss PROVE Spec => []EditIsRight
<1>1. Init => EditInv
    <2> SUFFICES ASSUME Init PROVE EditInv
        OBVIOUS
    <2>1. run.at = "none" /\ dir.for = NoFile /\ edit = NoFile
        BY Empty DEF Init
    <2>2. RunIsGood /\ TmpIsGood
        BY <2>1, IdleRun DEF RunIsGood, TmpIsGood, At
    <2> QED
        BY <2>1, <2>2 DEF EditInv, DirIsGood, EditIsRight
<1>2. EditInv => EditIsRight
    BY DEF EditInv
<1>3. TypeInv /\ EditInv /\ [Next]_vars => EditInv'
    BY NextIsRight
<1> QED
    BY <1>1, <1>2, <1>3, TypesHold, PTL DEF Spec
=============================================================================
