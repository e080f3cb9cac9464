-------------------------- MODULE SceneScanProofs --------------------------
(* Theorems about SceneScan, for a video of any length, any intervals, any *)
(* number of frames at once and any number of interrupted attempts. *)
EXTENDS SceneScan, TLAPS, WellFoundedInduction, FiniteSetTheorems, SequenceTheorems

---------------------------------------------------------------------------
(* Lemmas about numbers *)

\* A set of numbers has a smallest one.
LEMMA LeastElement ==
    ASSUME NEW S \in SUBSET Nat, S # {}
    PROVE  \E m \in S : \A u \in S : m <= u
<1>1. PICK m \in S : \A u \in S : <<u, m>> \notin OpToRel(<, Nat)
    BY WFMin, NatLessThanWellFounded, Zenon
<1>2. ASSUME NEW u \in S PROVE m <= u
    <2>1. ~(u < m)
        BY <1>1 DEF OpToRel
    <2> QED
        BY <2>1
<1> QED
    BY <1>2

\* A set of numbers below a bound has a largest one.
LEMMA GreatestElement ==
    ASSUME NEW n \in Nat, NEW S \in SUBSET (0 .. n), S # {}
    PROVE  Latest(S) \in S /\ \A u \in S : u <= Latest(S)
<1> DEFINE below == {n - t : t \in S}
<1>1. below \in SUBSET Nat /\ below # {}
    <2>1. \A t \in S : n - t \in Nat
        OBVIOUS
    <2>2. PICK t \in S : TRUE
        OBVIOUS
    <2>3. n - t \in below
        BY <2>2
    <2> QED
        BY <2>1, <2>3
<1>2. PICK m \in below : \A u \in below : m <= u
    BY <1>1, LeastElement
<1>3. PICK t \in S : m = n - t
    BY <1>2
<1>4. \A u \in S : u <= t
    BY <1>2, <1>3
<1> QED
    BY <1>4 DEF Latest

LEMMA Distributes == \A k, m, i \in Int : (k + m) * i = k * i + m * i
BY SMT

\* Multiplying keeps the order.
LEMMA TimesKeepsOrder ==
    ASSUME NEW i \in Nat, NEW m \in Nat, NEW n \in Nat, m <= n
    PROVE  m * i <= n * i
<1>1. n - m \in Nat /\ n = m + (n - m)
    OBVIOUS
<1>2. n * i = m * i + (n - m) * i
    BY <1>1, Distributes
<1>3. (n - m) * i \in Nat /\ m * i \in Nat
    BY <1>1
<1> QED
    BY <1>2, <1>3

\* Two different multiples of an interval are at least an interval apart.
LEMMA MultiplesApart ==
    ASSUME NEW i \in Nat \ {0}, NEW m \in Nat, NEW n \in Nat, m * i < n * i
    PROVE  m + 1 <= n /\ m * i + i <= n * i
<1>1. m < n
    <2>1. SUFFICES ASSUME n <= m PROVE FALSE
        OBVIOUS
    <2>2. n * i <= m * i
        BY <2>1, TimesKeepsOrder
    <2>3. m * i \in Nat /\ n * i \in Nat
        OBVIOUS
    <2> QED
        BY <2>2, <2>3
<1>2. (m + 1) * i <= n * i
    BY <1>1, TimesKeepsOrder
<1>3. (m + 1) * i = m * i + i
    BY Distributes
<1> QED
    BY <1>1, <1>2, <1>3

LEMMA Associates == \A m, k, i \in Int : m * (k * i) = (m * k) * i
BY SMT

\* Where chunks can start.
Reached(t, i) == \E m, n \in Nat : t = m * ChunkSeconds + n * i

\* The grid is what can be reached within the video.
LEMMA GridIsReached ==
    ASSUME NEW i \in Nat \ {0}, NEW t \in Times
    PROVE  t \in Grid(i) <=> Reached(t, i)
<1>1. Duration \in Nat /\ ChunkSeconds \in Nat \ {0} /\ Times \subseteq Nat
    BY ScanAssumption DEF Times
<1>2. ASSUME NEW m \in Nat, NEW n \in Nat, t = m * ChunkSeconds + n * i
      PROVE  m \in Times /\ n \in Times
    <2>1. 1 * m <= ChunkSeconds * m /\ 1 * n <= i * n
        BY <1>1, TimesKeepsOrder
    <2>2. m * ChunkSeconds \in Nat /\ n * i \in Nat /\ m <= m * ChunkSeconds /\ n <= n * i
        BY <1>1, <2>1
    <2> QED
        BY <1>1, <1>2, <2>2 DEF Times
<1> QED
    BY <1>1, <1>2 DEF Grid, Reached

LEMMA GridIsTimes == \A i : Grid(i) \subseteq Times /\ Grid(i) \subseteq 0 .. Duration /\ Grid(i) \subseteq Nat
BY ScanAssumption DEF Grid, Times

LEMMA OneMore ==
    ASSUME NEW i \in Nat \ {0}, NEW t, Reached(t, i)
    PROVE  t \in Nat /\ Reached(t + i, i) /\ Reached(t + ChunkSeconds, i)
<1>1. PICK m \in Nat, n \in Nat : t = m * ChunkSeconds + n * i
    BY DEF Reached
<1>2. ChunkSeconds \in Nat
    BY ScanAssumption
<1>3. m * ChunkSeconds \in Nat /\ n * i \in Nat
    BY <1>2
<1>4. (n + 1) * i = n * i + i /\ (m + 1) * ChunkSeconds = m * ChunkSeconds + ChunkSeconds
    BY <1>2, Distributes
<1>5. t + i = m * ChunkSeconds + (n + 1) * i /\ t + ChunkSeconds = (m + 1) * ChunkSeconds + n * i
    BY <1>1, <1>2, <1>3, <1>4
<1>6. m + 1 \in Nat /\ n + 1 \in Nat
    OBVIOUS
<1>7. Reached(t + i, i)
    BY <1>5, <1>6 DEF Reached
<1>8. Reached(t + ChunkSeconds, i)
    BY <1>5, <1>6 DEF Reached
<1> QED
    BY <1>1, <1>3, <1>7, <1>8

LEMMA StartIsReached == ASSUME NEW i \in Nat PROVE Reached(0, i)
<1>1. 0 = 0 * ChunkSeconds + 0 * i
    BY ScanAssumption
<1> QED
    BY <1>1 DEF Reached

---------------------------------------------------------------------------
(* The trusted prefix *)

\* Each frame of S follows another, or the start, within one and a half intervals, and
\* what S holds reaches up to s.
Follows(S, i) == \A u \in S \ {0} : \E v \in S \cup {0} : v < u /\ 2 * (u - v) <= 3 * i
ReachesTo(S, s, i) == \A t \in Times : t < s => \E v \in S \cup {0} : t < v + i
Short(S, s, i) == S \subseteq Times /\ (\A v \in S : v < s) /\ Follows(S, i) /\ ReachesTo(S, s, i)

\* Where a scan resumes can be reached.
LEMMA CoveredIsReached ==
    ASSUME NEW i \in Nat \ {0}, NEW L \in SUBSET Grid(i)
    PROVE  Covered(L, i) \in Nat /\ Reached(Covered(L, i), i)
<1>1. CASE L = {}
    BY <1>1, StartIsReached DEF Covered
<1>2. CASE L # {}
    <2>1. L \in SUBSET (0 .. Duration) /\ Duration \in Nat
        BY GridIsTimes, ScanAssumption
    <2>2. Latest(L) \in L
        BY <1>2, <2>1, GreatestElement
    <2>3. Latest(L) \in Nat /\ Reached(Latest(L), i)
        BY <2>1, <2>2, GridIsTimes, GridIsReached
    <2> QED
        BY <1>2, <2>3, OneMore DEF Covered
<1> QED
    BY <1>1, <1>2

\* The trusted prefix has no gap of more than one and a half intervals.
LEMMA TrustedIsShort ==
    ASSUME NEW i \in Nat \ {0}, NEW L \in SUBSET Grid(i)
    PROVE  Short(Trusted(L, i), Covered(Trusted(L, i), i), i)
<1> DEFINE T == Trusted(L, i)
<1>1. /\ T \in SUBSET (0 .. Duration) /\ T \subseteq L /\ T \subseteq Times /\ L \in SUBSET Nat
      /\ Duration \in Nat
    BY GridIsTimes, ScanAssumption DEF Trusted
<1>2. ASSUME NEW u \in T, u # 0
      PROVE  \E v \in T \cup {0} : v < u /\ 2 * (u - v) <= 3 * i
    <2>1. \A w \in L : w <= u /\ w # 0 => \E v \in L \cup {0} : v < w /\ 2 * (w - v) <= 3 * i
        BY DEF Trusted
    <2>2. PICK v \in L \cup {0} : v < u /\ 2 * (u - v) <= 3 * i
        BY <1>1, <1>2, <2>1
    <2>3. ASSUME v \in L PROVE v \in T
        <3>1. \A w \in L : w <= v => w <= u
            BY <1>1, <2>2, <2>3
        <3> QED
            BY <2>1, <2>3, <3>1 DEF Trusted
    <2> QED
        BY <2>2, <2>3
<1>3. CASE T = {}
    <2>1. Covered(T, i) = 0
        BY <1>3 DEF Covered
    <2>2. \A t \in Times : ~(t < 0)
        BY ScanAssumption DEF Times
    <2> QED
        BY <1>3, <2>1, <2>2 DEF Short, Follows, ReachesTo
<1>4. CASE T # {}
    <2>1. Latest(T) \in T /\ \A u \in T : u <= Latest(T)
        BY <1>1, <1>4, GreatestElement
    <2>2. Covered(T, i) = Latest(T) + i
        BY <1>4 DEF Covered
    <2>3. \A v \in T : v < Covered(T, i)
        BY <1>1, <2>1, <2>2
    <2>4. ReachesTo(T, Covered(T, i), i)
        BY <2>1, <2>2 DEF ReachesTo
    <2>5. Follows(T, i)
        BY <1>2 DEF Follows
    <2> HIDE DEF T
    <2>6. Short(T, Covered(T, i), i)
        BY <1>1, <2>3, <2>4, <2>5 DEF Short
    <2> QED
        BY <2>6 DEF T
<1> QED
    BY <1>3, <1>4

\* A chunk goes on from where it starts.
LEMMA ChunkIsShort ==
    ASSUME NEW i \in Nat \ {0}, NEW s \in Nat, NEW S, Short(S, s, i)
    PROVE  Short(S \cup ChunkFrames(s, i), s + ChunkSeconds, i)
<1> DEFINE W == ChunkFrames(s, i)
           e == s + ChunkSeconds
<1>1. /\ Duration \in Nat /\ ChunkSeconds \in Nat \ {0} /\ S \subseteq Times
      /\ \A t \in Times : t \in Nat /\ t < Duration
      /\ \A v \in S : v \in Nat /\ v < s
    BY ScanAssumption DEF Short, Times
<1>2. \A t \in W : t \in Times /\ s <= t /\ t < e /\ \E n \in Times : t = s + n * i
    BY DEF ChunkFrames
<1>3. ASSUME NEW t \in Times, s <= t, t < e, NEW n \in Nat, t = s + n * i PROVE t \in W
    <2>1. 1 * n <= i * n
        BY TimesKeepsOrder
    <2>2. n <= n * i /\ n * i \in Nat
        BY <2>1
    <2>3. n \in Times
        BY <1>1, <1>3, <2>2 DEF Times
    <2> QED
        BY <1>3, <2>3 DEF ChunkFrames
<1>4. ASSUME NEW u \in W, u # 0
      PROVE  \E v \in S \cup W \cup {0} : v < u /\ 2 * (u - v) <= 3 * i
    <2>1. PICK n \in Times : u = s + n * i
        BY <1>2
    <2>2. n \in Nat /\ u \in Times /\ u \in Nat /\ u < e /\ s <= u /\ u < Duration
        BY <1>1, <1>2
    <2>3. CASE n = 0
        <3>1. u = s
            BY <2>1, <2>3
        <3>2. u - 1 \in Times /\ u - 1 < s
            BY <1>1, <1>4, <2>2, <3>1 DEF Times
        <3>3. PICK v \in S \cup {0} : u - 1 < v + i
            BY <3>2 DEF Short, ReachesTo
        <3>4. v \in Nat /\ v < u
            BY <1>1, <1>4, <2>2, <3>1
        <3> QED
            BY <2>2, <3>3, <3>4
    <2>4. CASE n # 0
        <3>1. n - 1 \in Nat /\ n * i = (n - 1) * i + i /\ (n - 1) * i \in Nat
            <4>1. n - 1 \in Nat /\ n = (n - 1) + 1
                BY <2>2, <2>4
            <4>2. ((n - 1) + 1) * i = (n - 1) * i + 1 * i
                BY <4>1, Distributes
            <4> QED
                BY <4>1, <4>2
        <3> DEFINE k == (n - 1) * i
                   v == s + k
        <3>2. k \in Nat /\ u = v + i /\ v \in Nat
            BY <2>1, <3>1
        <3> HIDE DEF k
        <3>3. v \in Times /\ s <= v /\ v < e
            BY <1>1, <2>2, <3>2 DEF Times
        <3>4. v \in W
            BY <1>3, <3>1, <3>3 DEF k
        <3>5. v < u /\ 2 * (u - v) <= 3 * i
            BY <3>2
        <3> QED
            BY <3>4, <3>5
    <2> QED
        BY <2>3, <2>4
<1>5. ASSUME NEW t \in Times, t < e
      PROVE  \E v \in S \cup W \cup {0} : t < v + i
    <2>1. CASE t < s
        BY <2>1 DEF Short, ReachesTo
    <2>2. CASE s <= t
        <3> DEFINE K == {k \in 0 .. t : s + k * i <= t}
        <3>1. t \in Nat /\ 0 \in K /\ K \in SUBSET (0 .. t)
            BY <1>1, <2>2
        <3>2. Latest(K) \in K /\ \A k \in K : k <= Latest(K)
            BY <3>1, GreatestElement
        <3>3. PICK n \in K : \A k \in K : k <= n
            BY <3>2
        <3>4. n \in Nat /\ n * i \in Nat /\ s + n * i <= t
            BY <3>1, <3>3
        <3>5. (n + 1) * i = n * i + i
            BY <3>4, Distributes
        <3>6. t < s + n * i + i
            <4>1. SUFFICES ASSUME s + (n + 1) * i <= t PROVE FALSE
                BY <3>1, <3>4, <3>5
            <4>2. 1 * (n + 1) <= i * (n + 1)
                BY <3>4, TimesKeepsOrder
            <4>3. n + 1 \in 0 .. t
                BY <3>1, <3>4, <3>5, <4>1, <4>2
            <4>4. n + 1 \in K
                BY <4>1, <4>3
            <4> QED
                BY <3>3, <3>4, <4>4
        <3>7. s + n * i \in Times
            BY <1>1, <3>1, <3>4 DEF Times
        <3>8. s + n * i \in W
            BY <1>1, <1>3, <1>5, <3>1, <3>4, <3>7
        <3> QED
            BY <3>6, <3>8
    <2> QED
        BY <1>1, <2>1, <2>2
<1>6. \A v \in S \cup W : v \in Times /\ v < e
    BY <1>1, <1>2
<1>7. \A u \in S \ {0} : \E v \in S \cup W \cup {0} : v < u /\ 2 * (u - v) <= 3 * i
    BY DEF Short, Follows
<1> HIDE DEF W, e
<1>8. Short(S \cup W, e, i)
    BY <1>4, <1>5, <1>6, <1>7 DEF Short, Follows, ReachesTo
<1> QED
    BY <1>8 DEF W, e

---------------------------------------------------------------------------
(* Frames in the order of time, and folds over a list *)

\* How many frames of a set are before one.
Below(S, i) == Cardinality({x \in S : x < i})

\* The rank of a frame is a number that grows at the members of the set.
LEMMA BelowGrows ==
    ASSUME NEW L \in Nat, NEW S \in SUBSET (0 .. L), NEW x \in Nat, NEW y \in Nat, x < y
    PROVE  /\ Below(S, x) \in Nat /\ Below(S, y) \in Nat /\ Below(S, x) <= Below(S, y)
           /\ x \in S => Below(S, x) < Below(S, y)
<1> DEFINE U(z) == {c \in S : c < z}
<1>1. IsFiniteSet(S) /\ \A c \in S : c \in Nat
    <2>1. IsFiniteSet(0 .. L)
        BY FS_Interval
    <2>2. IsFiniteSet(S)
        BY <2>1, FS_Subset
    <2> QED
        BY <2>2
<1>2. IsFiniteSet(U(x)) /\ IsFiniteSet(U(y)) /\ U(x) \subseteq U(y)
    <2>1. U(x) \subseteq S /\ U(y) \subseteq S /\ U(x) \subseteq U(y)
        <3>1. \A c \in S : c < x => c < y
            BY <1>1
        <3> QED
            BY <3>1, Zenon
    <2> HIDE DEF U
    <2> QED
        BY <1>1, <2>1, FS_Subset
<1>3. x \in S => U(x) # U(y)
    BY <1>1
<1>4. Below(S, x) = Cardinality(U(x)) /\ Below(S, y) = Cardinality(U(y))
    BY DEF Below
<1> HIDE DEF U
<1>5. /\ Cardinality(U(x)) \in Nat /\ Cardinality(U(y)) \in Nat /\ Cardinality(U(x)) <= Cardinality(U(y))
      /\ Cardinality(U(x)) = Cardinality(U(y)) => U(x) = U(y)
    BY <1>2, FS_Subset, FS_CardinalityType
<1> QED
    BY <1>3, <1>4, <1>5

\* Every rank up to the size of the set is that of a member.
LEMMA RankExists ==
    ASSUME NEW L \in Nat, NEW S \in SUBSET (0 .. L), NEW k \in 1 .. Cardinality(S)
    PROVE  \E i \in S : Below(S, i) = k - 1
<1>1. IsFiniteSet(S) /\ Cardinality(S) \in Nat /\ \A x \in S : x \in Nat /\ x < L + 1
    <2>1. IsFiniteSet(0 .. L)
        BY FS_Interval
    <2>2. IsFiniteSet(S)
        BY <2>1, FS_Subset
    <2> QED
        BY <2>2, FS_CardinalityType
<1>2. ASSUME NEW j \in Nat PROVE Below(S, j) \in Nat /\ IsFiniteSet({x \in S : x < j})
    <2>1. IsFiniteSet({x \in S : x < j})
        BY <1>1, FS_Subset
    <2> QED
        BY <2>1, FS_CardinalityType DEF Below
<1> DEFINE T == {j \in Nat : k <= Below(S, j)}
<1>3. L + 1 \in T /\ Below(S, L + 1) = Cardinality(S)
    <2>1. {x \in S : x < L + 1} = S
        BY <1>1
    <2> QED
        BY <1>1, <2>1 DEF Below
<1>4. PICK j \in T : \A y \in T : j <= y
    <2>1. T \in SUBSET Nat /\ T # {}
        BY <1>3
    <2> HIDE DEF T
    <2> QED
        BY <2>1, LeastElement
<1>5. j \in Nat /\ k <= Below(S, j) /\ k \in Nat /\ 1 <= k
    BY <1>1
<1>6. j # 0
    <2>1. {x \in S : x < 0} = {}
        <3>1. \A x \in S : ~(x < 0)
            BY <1>1
        <3> QED
            BY <3>1, Zenon
    <2>2. Below(S, 0) = 0
        BY <2>1, FS_EmptySet DEF Below
    <2> QED
        BY <2>2, <1>5
<1>7. j - 1 \in Nat /\ Below(S, j - 1) \in Nat /\ Below(S, j - 1) <= k - 1
    <2>1. j - 1 \in Nat /\ j - 1 \notin T
        BY <1>4, <1>5, <1>6
    <2>2. Below(S, j - 1) \in Nat /\ ~(k <= Below(S, j - 1))
        BY <2>1, <1>2
    <2> QED
        BY <2>1, <2>2, <1>5
<1>8. j - 1 \in S
    <2>1. SUFFICES ASSUME j - 1 \notin S PROVE FALSE
        OBVIOUS
    <2>2. \A x \in S : x < j <=> x < j - 1
        BY <2>1, <1>1, <1>5
    <2>3. {x \in S : x < j} = {x \in S : x < j - 1}
        BY <2>2, Zenon
    <2>4. Below(S, j) = Below(S, j - 1)
        BY <2>3 DEF Below
    <2> QED
        BY <2>4, <1>5, <1>7
<1>9. Below(S, j) = Below(S, j - 1) + 1
    <2>1. \A x \in S : x < j <=> x < j - 1 \/ x = j - 1
        BY <1>1, <1>5
    <2>2. {x \in S : x < j} = {x \in S : x < j - 1} \cup {j - 1}
        BY <2>1, <1>8, Zenon
    <2>3. j - 1 \notin {x \in S : x < j - 1}
        BY <1>7
    <2>4. IsFiniteSet({x \in S : x < j - 1})
        BY <1>2, <1>7
    <2> QED
        BY <2>2, <2>3, <2>4, FS_AddElement DEF Below
<1> QED
    BY <1>5, <1>7, <1>8, <1>9

\* Ordered lists the members of a set of frames, each once, in their order.
LEMMA OrderedLists ==
    ASSUME NEW L \in Nat, NEW S \in SUBSET (0 .. L)
    PROVE  /\ Cardinality(S) \in Nat
           /\ Ordered(S) \in Seq(S) /\ Len(Ordered(S)) = Cardinality(S)
           /\ \A i, j \in 1 .. Cardinality(S) : i < j => Ordered(S)[i] < Ordered(S)[j]
           /\ \A x \in S : \E i \in 1 .. Cardinality(S) : Ordered(S)[i] = x
<1> DEFINE n == Cardinality(S)
           nth(i) == CHOOSE x \in S : Below(S, x) = i - 1
           e == [i \in 1 .. n |-> nth(i)]
<1>1. n \in Nat /\ IsFiniteSet(S) /\ \A x \in S : x \in Nat /\ x <= L
    <2>1. IsFiniteSet(0 .. L)
        BY FS_Interval
    <2>2. IsFiniteSet(S)
        BY <2>1, FS_Subset
    <2> QED
        BY <2>2, FS_CardinalityType
<1>2. Ordered(S) = e
    BY DEF Ordered, Below
<1>3. \A i \in 1 .. n : nth(i) \in S /\ Below(S, nth(i)) = i - 1
    <2> SUFFICES ASSUME NEW i \in 1 .. n PROVE nth(i) \in S /\ Below(S, nth(i)) = i - 1
        OBVIOUS
    <2>1. \E x \in S : Below(S, x) = i - 1
        BY <1>1, RankExists
    <2> QED
        BY <2>1
<1> HIDE DEF nth
<1>4. e \in [1 .. n -> S] /\ \A i \in 1 .. n : e[i] \in S /\ Below(S, e[i]) = i - 1
    BY <1>3
<1> HIDE DEF e
<1>5. e \in Seq(S) /\ Len(e) = n
    <2> HIDE DEF n
    <2>1. e \in Seq(S) /\ DOMAIN e = 1 .. n
        BY <1>1, <1>4
    <2> QED
        BY <1>1, <2>1
<1>6. ASSUME NEW x \in S, NEW y \in S, x < y PROVE Below(S, x) < Below(S, y)
    BY <1>1, <1>6, BelowGrows
<1>7. ASSUME NEW x \in S PROVE Below(S, x) \in Nat /\ Below(S, x) < n
    <2>1. {c \in S : c < L + 1} = S
        <3>1. \A c \in S : c < L + 1
            BY <1>1
        <3> QED
            BY <3>1, Zenon
    <2>2. Below(S, L + 1) = n
        BY <2>1 DEF Below
    <2>3. x \in Nat /\ L + 1 \in Nat /\ x < L + 1
        BY <1>1
    <2> HIDE DEF n
    <2> QED
        BY <2>2, <2>3, BelowGrows
<1>8. ASSUME NEW i \in 1 .. n, NEW j \in 1 .. n, i < j PROVE e[i] < e[j]
    <2> HIDE DEF n
    <2>1. e[i] \in S /\ e[j] \in S /\ e[i] \in Nat /\ e[j] \in Nat
          /\ Below(S, e[i]) = i - 1 /\ Below(S, e[j]) = j - 1
        BY <1>1, <1>4
    <2>2. ~(e[j] < e[i]) /\ e[i] # e[j]
        BY <1>1, <1>6, <1>8, <2>1
    <2> QED
        BY <2>1, <2>2
<1>9. ASSUME NEW x \in S PROVE \E i \in 1 .. n : e[i] = x
    <2> DEFINE k == Below(S, x) + 1
    <2> HIDE DEF n
    <2>1. k \in 1 .. n /\ k - 1 = Below(S, x)
        BY <1>1, <1>7
    <2>2. e[k] \in S /\ Below(S, e[k]) = Below(S, x)
        BY <1>4, <2>1
    <2>3. ~(e[k] < x) /\ ~(x < e[k])
        <3> HIDE DEF k
        <3>1. Below(S, x) \in Nat /\ Below(S, e[k]) \in Nat
            BY <1>7, <2>2
        <3>2. e[k] < x => Below(S, e[k]) < Below(S, x)
            BY <1>6, <2>2
        <3>3. x < e[k] => Below(S, x) < Below(S, e[k])
            BY <1>6, <2>2
        <3> QED
            BY <2>2, <3>1, <3>2, <3>3
    <2>4. e[k] = x
        <3> HIDE DEF k
        <3>1. e[k] \in Nat /\ x \in Nat
            BY <1>1, <2>2
        <3> QED
            BY <2>3, <3>1
    <2> QED
        BY <2>1, <2>4
<1> QED
    BY <1>1, <1>2, <1>5, <1>8, <1>9

\* The last index of a set that is not empty is one of it.
LEMMA LastIndex ==
    ASSUME NEW m \in Nat, NEW s \in SUBSET (1 .. m)
    PROVE  /\ s # {} => Max(s) \in s
           /\ m \in s => Max(s) = m
<1> DEFINE T == {j \in Nat : \A x \in s : x <= j}
<1>1. T \in SUBSET Nat /\ m \in T
    OBVIOUS
<1>2. PICK j \in T : \A k \in T : j <= k
    <2> HIDE DEF T
    <2> QED
        BY <1>1, LeastElement
<1>3. j \in Nat /\ \A x \in s : x <= j
    OBVIOUS
<1>4. s # {} => j \in s
    <2> SUFFICES ASSUME s # {}, j \notin s PROVE FALSE
        OBVIOUS
    <2>1. PICK x \in s : TRUE
        OBVIOUS
    <2>2. x \in Nat /\ 1 <= x /\ x <= j /\ x # j
        BY <1>3
    <2>3. j - 1 \in Nat /\ \A y \in s : y <= j - 1
        BY <1>3, <2>2
    <2>4. j - 1 \in T
        BY <2>3
    <2> QED
        BY <1>2, <1>3, <2>4
<1>5. s # {} => \E x \in s : \A y \in s : x >= y
    BY <1>3, <1>4
<1>6. s # {} => Max(s) \in s /\ \A y \in s : Max(s) >= y
    BY <1>5 DEF Max
<1>7. m \in s => Max(s) = m
    <2> SUFFICES ASSUME m \in s PROVE Max(s) = m
        OBVIOUS
    <2>1. Max(s) \in 1 .. m /\ Max(s) >= m
        BY <1>6
    <2> QED
        BY <2>1
<1> QED
    BY <1>6, <1>7

\* f folds n elements: Folds.tla takes them by a function of the sets of their indices.
IsFold(f, n, base, step) ==
    \A s \in SUBSET (1 .. n) :
        f[s] = IF s = {} THEN base ELSE step[<<f[s \ {Max(s)}], Max(s)>>]

\* A fold over n elements exists, whatever its steps do: the function that Folds.tla
\* chooses is one that takes them one after the other.
LEMMA FoldExists ==
    ASSUME NEW A, NEW n \in Nat, NEW base \in A, NEW step \in [A \X (1 .. n) -> A]
    PROVE  \E f \in [SUBSET (1 .. n) -> A] : IsFold(f, n, base, step)
<1> DEFINE P(f, m) ==
             /\ f \in [SUBSET (1 .. m) -> A]
             /\ IsFold(f, m, base, step)
           T == {m \in Nat : m <= n /\ ~\E f : P(f, m)}
<1>1. SUFFICES ASSUME T # {} PROVE FALSE
    <2>1. n \notin T => \E f : P(f, n)
        <3> HIDE DEF P
        <3> QED
            OBVIOUS
    <2> QED
        BY <1>1, <2>1
<1>2. PICK m \in T : \A k \in T : m <= k
    <2>1. T \in SUBSET Nat
        OBVIOUS
    <2> HIDE DEF T
    <2> QED
        BY <1>1, <2>1, LeastElement
<1>3. m \in Nat /\ m <= n /\ ~\E f : P(f, m)
    OBVIOUS
<1>4. m # 0
    <2> SUFFICES ASSUME m = 0 PROVE FALSE
        OBVIOUS
    <2> DEFINE f == [s \in SUBSET (1 .. m) |-> base]
    <2>1. \A s \in SUBSET (1 .. m) : s = {}
        OBVIOUS
    <2>2. P(f, m)
        BY <2>1 DEF IsFold
    <2> HIDE DEF f, P
    <2> QED
        BY <1>3, <2>2
<1>5. m - 1 \in Nat /\ m \in 1 .. n /\ m - 1 <= n
    BY <1>3, <1>4
<1>6. PICK f : P(f, m - 1)
    <2>1. m - 1 \notin T
        <3> HIDE DEF T
        <3> QED
            BY <1>2, <1>3, <1>5
    <2> HIDE DEF P
    <2> QED
        BY <1>5, <2>1
<1> DEFINE g == [s \in SUBSET (1 .. m) |-> IF m \in s THEN step[<<f[s \ {m}], m>>] ELSE f[s]]
<1>7. ASSUME NEW s \in SUBSET (1 .. m)
      PROVE  /\ s \ {m} \in SUBSET (1 .. (m - 1)) /\ s \ {m} \in SUBSET (1 .. m)
             /\ m \notin s => s \in SUBSET (1 .. (m - 1))
    BY <1>3, <1>5
<1>8. \A s \in SUBSET (1 .. (m - 1)) : f[s] \in A
    BY <1>6
<1>9. g \in [SUBSET (1 .. m) -> A]
    <2>1. ASSUME NEW s \in SUBSET (1 .. m) PROVE g[s] \in A
        <3>1. CASE m \in s
            <4>1. f[s \ {m}] \in A
                BY <1>7, <1>8
            <4>2. <<f[s \ {m}], m>> \in A \X (1 .. n)
                BY <1>5, <4>1
            <4> QED
                BY <3>1, <4>2
        <3>2. CASE m \notin s
            BY <1>7, <1>8, <3>2
        <3> QED
            BY <3>1, <3>2
    <2> QED
        BY <2>1
<1>10. ASSUME NEW s \in SUBSET (1 .. m)
       PROVE  g[s] = IF s = {} THEN base ELSE step[<<g[s \ {Max(s)}], Max(s)>>]
    <2>1. CASE m \in s
        <3>1. Max(s) = m /\ s # {}
            BY <1>3, <2>1, LastIndex
        <3>2. g[s \ {m}] = f[s \ {m}] /\ g[s] = step[<<f[s \ {m}], m>>]
            BY <1>7, <2>1
        <3> HIDE DEF g
        <3> QED
            BY <3>1, <3>2
    <2>2. CASE m \notin s
        <3>1. s \in SUBSET (1 .. (m - 1)) /\ g[s] = f[s]
            BY <1>7, <2>2
        <3>2. f[s] = IF s = {} THEN base ELSE step[<<f[s \ {Max(s)}], Max(s)>>]
            BY <1>6, <3>1 DEF IsFold
        <3>3. s # {} => Max(s) \in s
            BY <1>5, <3>1, LastIndex
        <3>4. g[s \ {Max(s)}] = f[s \ {Max(s)}]
            <4>1. s \ {Max(s)} \in SUBSET (1 .. m) /\ m \notin s \ {Max(s)}
                BY <2>2
            <4> QED
                BY <4>1
        <3> HIDE DEF g
        <3> QED
            BY <3>1, <3>2, <3>4
    <2> QED
        BY <2>1, <2>2
<1> HIDE DEF g
<1>11. P(g, m)
    BY <1>9, <1>10 DEF IsFold
<1> HIDE DEF P
<1> QED
    BY <1>3, <1>11

\* The last of the first k indices.
LEMMA FirstIndices ==
    ASSUME NEW n \in Nat, NEW k \in 1 .. n
    PROVE  /\ 1 .. k \in SUBSET (1 .. n) /\ 1 .. k # {} /\ Max(1 .. k) = k
           /\ 1 .. (k - 1) \in SUBSET (1 .. n) /\ (1 .. k) \ {k} = 1 .. (k - 1)
<1>1. k \in Nat /\ k \in 1 .. k /\ 1 .. k \in SUBSET (1 .. k)
    OBVIOUS
<1>2. Max(1 .. k) = k
    BY <1>1, LastIndex, Zenon
<1>3. \A j : j \in (1 .. k) \ {k} <=> j \in 1 .. (k - 1)
    OBVIOUS
<1> QED
    BY <1>1, <1>2, <1>3

\* What cluster_scenes holds after each of its frames, and what it ends with.
FramesTaken(g, said, spacing, n) ==
    /\ g[0] = [runs |-> <<>>, current |-> <<>>]
    /\ \A k \in 1 .. n : g[k] = NextFrame(said, spacing, g[k - 1], Ordered(DOMAIN said)[k])
    /\ Runs(said, spacing) =
         IF g[n].current = <<>> THEN g[n].runs ELSE Append(g[n].runs, g[n].current)

\* The runs of cluster_scenes, one frame after the other.
LEMMA RunsUnfold ==
    ASSUME NEW said, NEW spacing, NEW n \in Nat,
           Ordered(DOMAIN said) \in Seq(DOMAIN said), Len(Ordered(DOMAIN said)) = n
    PROVE  \E g : FramesTaken(g, said, spacing, n)
<1> DEFINE S == DOMAIN said
           A == [runs : Seq(Seq(S)), current : Seq(S)]
           base == [runs |-> <<>>, current |-> <<>>]
           e == Ordered(S)
           step == [p \in A \X (1 .. n) |-> NextFrame(said, spacing, p[1], e[p[2]])]
           Folds(f) == f = [s \in SUBSET (DOMAIN e) |->
                              IF s = {} THEN base
                              ELSE NextFrame(said, spacing, f[s \ {Max(s)}], e[Max(s)])]
           h == CHOOSE f : Folds(f)
           g == [k \in 0 .. n |-> h[1 .. k]]
<1>1. base \in A /\ \A i \in 1 .. n : e[i] \in S
    OBVIOUS
<1>2. step \in [A \X (1 .. n) -> A]
    <2>1. ASSUME NEW a \in A, NEW i \in 1 .. n PROVE NextFrame(said, spacing, a, e[i]) \in A
        <3>1. a.runs \in Seq(Seq(S)) /\ a.current \in Seq(S) /\ e[i] \in S
            BY <1>1
        <3>2. Append(a.runs, a.current) \in Seq(Seq(S)) /\ Append(a.current, e[i]) \in Seq(S)
              /\ <<e[i]>> \in Seq(S) /\ <<>> \in Seq(S)
            BY <3>1
        <3> HIDE DEF e
        <3> QED
            BY <3>1, <3>2 DEF NextFrame
    <2> HIDE DEF A, e
    <2> QED
        BY <2>1
<1>3. PICK f \in [SUBSET (1 .. n) -> A] :
            IsFold(f, n, base, step)
    <2>1. base \in A
        BY <1>1
    <2> HIDE DEF step, base, A, e, S, Folds, h, g
    <2> QED
        BY <1>2, <2>1, FoldExists
<1>6. DOMAIN e = 1 .. n
    OBVIOUS
<1>4. Folds(f)
    <2>1. ASSUME NEW s \in SUBSET (1 .. n), s # {}
          PROVE  f[s] = NextFrame(said, spacing, f[s \ {Max(s)}], e[Max(s)])
        <3>1. Max(s) \in 1 .. n /\ s \ {Max(s)} \in SUBSET (1 .. n)
            BY <2>1, LastIndex
        <3>2. f[s \ {Max(s)}] \in A
            BY <3>1
        <3>3. f[s] = step[<<f[s \ {Max(s)}], Max(s)>>]
            BY <1>3, <2>1 DEF IsFold
        <3> HIDE DEF A, e
        <3> QED
            BY <3>1, <3>2, <3>3
    <2>2. \A s \in SUBSET (1 .. n) :
            f[s] = IF s = {} THEN base ELSE NextFrame(said, spacing, f[s \ {Max(s)}], e[Max(s)])
        BY <1>3, <2>1 DEF IsFold
    <2> HIDE DEF A, base, e
    <2> QED
        BY <1>6, <2>2
<1>5. Folds(h)
    <2> HIDE DEF Folds
    <2> QED
        BY <1>4
<1>7. Runs(said, spacing) = IF h[DOMAIN e].current = <<>> THEN h[DOMAIN e].runs
                              ELSE Append(h[DOMAIN e].runs, h[DOMAIN e].current)
    BY DEF Runs, FoldLeft, MapThenFoldSet
<1> HIDE DEF h, e
<1>8. h[{}] = base
    <2>1. {} \in SUBSET (1 .. n)
        OBVIOUS
    <2> QED
        BY <1>5, <1>6, <2>1
<1>9. ASSUME NEW k \in 1 .. n
      PROVE  h[1 .. k] = NextFrame(said, spacing, h[1 .. (k - 1)], e[k])
    <2>1. /\ 1 .. k \in SUBSET (1 .. n) /\ 1 .. k # {} /\ Max(1 .. k) = k
          /\ (1 .. k) \ {k} = 1 .. (k - 1)
        BY FirstIndices
    <2>2. h[1 .. k] = IF 1 .. k = {} THEN base
                      ELSE NextFrame(said, spacing, h[(1 .. k) \ {Max(1 .. k)}], e[Max(1 .. k)])
        BY <1>5, <1>6, <2>1
    <2> QED
        BY <2>1, <2>2
<1>10. /\ g[0] = base
       /\ \A k \in 1 .. n : g[k] = NextFrame(said, spacing, g[k - 1], e[k])
       /\ g[n] = h[1 .. n]
    <2>1. g[0] = h[{}]
        OBVIOUS
    <2>2. \A k \in 1 .. n : k - 1 \in 0 .. n /\ k \in 0 .. n
        OBVIOUS
    <2>3. n \in 0 .. n
        OBVIOUS
    <2> HIDE DEF base
    <2> QED
        BY <1>8, <1>9, <2>1, <2>2, <2>3
<1> HIDE DEF g
<1> QED
    BY <1>6, <1>7, <1>10 DEF e, FramesTaken

\* The windows cluster_scenes has after each run.
WindowsTaken(g, said, runs, n) ==
    /\ g[0] = <<>>
    /\ \A k \in 1 .. n : g[k] = NextRun(said, g[k - 1], runs[k])
    /\ RealWindows(said, runs) = g[n]

\* The windows, run by run.
LEMMA WindowsUnfold ==
    ASSUME NEW said, NEW S, NEW n \in Nat, NEW runs \in Seq(Seq(S)), Len(runs) = n,
           \A k \in 1 .. n : runs[k] # <<>>
    PROVE  \E g : WindowsTaken(g, said, runs, n)
<1> DEFINE A == Seq(S \X S)
           base == <<>>
           e == runs
           step == [p \in A \X (1 .. n) |-> NextRun(said, p[1], e[p[2]])]
           Folds(f) == f = [s \in SUBSET (DOMAIN e) |->
                              IF s = {} THEN base
                              ELSE NextRun(said, f[s \ {Max(s)}], e[Max(s)])]
           h == CHOOSE f : Folds(f)
           g == [k \in 0 .. n |-> h[1 .. k]]
<1>1. base \in A
    OBVIOUS
<1>2. step \in [A \X (1 .. n) -> A]
    <2>1. ASSUME NEW a \in A, NEW i \in 1 .. n PROVE NextRun(said, a, e[i]) \in A
        <3>1. a \in Seq(S \X S) /\ e[i] \in Seq(S) /\ e[i] # <<>>
            OBVIOUS
        <3>2. Head(e[i]) \in S /\ Last(e[i]) \in S
            BY <3>1 DEF Last
        <3>3. Append(a, <<Head(e[i]), Last(e[i])>>) \in Seq(S \X S)
            BY <3>1, <3>2
        <3> HIDE DEF e
        <3> QED
            BY <3>1, <3>3 DEF NextRun
    <2> HIDE DEF A, e
    <2> QED
        BY <2>1
<1>3. PICK f \in [SUBSET (1 .. n) -> A] :
            IsFold(f, n, base, step)
    <2>1. base \in A
        BY <1>1
    <2> HIDE DEF step, base, A, e, Folds, h, g
    <2> QED
        BY <1>2, <2>1, FoldExists
<1>6. DOMAIN e = 1 .. n
    OBVIOUS
<1>4. Folds(f)
    <2>1. ASSUME NEW s \in SUBSET (1 .. n), s # {}
          PROVE  f[s] = NextRun(said, f[s \ {Max(s)}], e[Max(s)])
        <3>1. Max(s) \in 1 .. n /\ s \ {Max(s)} \in SUBSET (1 .. n)
            BY <2>1, LastIndex
        <3>2. f[s \ {Max(s)}] \in A
            BY <3>1
        <3>3. f[s] = step[<<f[s \ {Max(s)}], Max(s)>>]
            BY <1>3, <2>1 DEF IsFold
        <3> HIDE DEF A, e
        <3> QED
            BY <3>1, <3>2, <3>3
    <2>2. \A s \in SUBSET (1 .. n) :
            f[s] = IF s = {} THEN base ELSE NextRun(said, f[s \ {Max(s)}], e[Max(s)])
        BY <1>3, <2>1 DEF IsFold
    <2> HIDE DEF A, base, e
    <2> QED
        BY <1>6, <2>2
<1>5. Folds(h)
    <2> HIDE DEF Folds
    <2> QED
        BY <1>4
<1>7. RealWindows(said, runs) = h[DOMAIN e]
    BY DEF RealWindows, FoldLeft, MapThenFoldSet
<1> HIDE DEF h, e
<1>8. h[{}] = base
    <2>1. {} \in SUBSET (1 .. n)
        OBVIOUS
    <2> QED
        BY <1>5, <1>6, <2>1
<1>9. ASSUME NEW k \in 1 .. n
      PROVE  h[1 .. k] = NextRun(said, h[1 .. (k - 1)], e[k])
    <2>1. /\ 1 .. k \in SUBSET (1 .. n) /\ 1 .. k # {} /\ Max(1 .. k) = k
          /\ (1 .. k) \ {k} = 1 .. (k - 1)
        BY FirstIndices
    <2>2. h[1 .. k] = IF 1 .. k = {} THEN base
                      ELSE NextRun(said, h[(1 .. k) \ {Max(1 .. k)}], e[Max(1 .. k)])
        BY <1>5, <1>6, <2>1
    <2> QED
        BY <2>1, <2>2
<1>10. /\ g[0] = base
       /\ \A k \in 1 .. n : g[k] = NextRun(said, g[k - 1], e[k])
       /\ g[n] = h[1 .. n]
    <2>1. g[0] = h[{}]
        OBVIOUS
    <2>2. \A k \in 1 .. n : k - 1 \in 0 .. n /\ k \in 0 .. n
        OBVIOUS
    <2>3. n \in 0 .. n
        OBVIOUS
    <2> HIDE DEF base
    <2> QED
        BY <1>8, <1>9, <2>1, <2>2, <2>3
<1> HIDE DEF g
<1> QED
    BY <1>6, <1>7, <1>10 DEF e, WindowsTaken
\* What merge_intervals has after each window.
WindowsMerged(g, gap, windows, n) ==
    /\ g[0] = <<>>
    /\ \A k \in 1 .. n : g[k] = NextWindow(gap, g[k - 1], windows[k])
    /\ MergeIntervals(windows, gap) = g[n]

\* The merged windows, window by window.
LEMMA MergeUnfolds ==
    ASSUME NEW gap, NEW S, NEW n \in Nat, NEW windows \in Seq(S \X S), Len(windows) = n
    PROVE  \E g : WindowsMerged(g, gap, windows, n)
<1> DEFINE A == Seq(S \X S)
           base == <<>>
           e == windows
           step == [p \in A \X (1 .. n) |-> NextWindow(gap, p[1], e[p[2]])]
           Folds(f) == f = [s \in SUBSET (DOMAIN e) |->
                              IF s = {} THEN base
                              ELSE NextWindow(gap, f[s \ {Max(s)}], e[Max(s)])]
           h == CHOOSE f : Folds(f)
           g == [k \in 0 .. n |-> h[1 .. k]]
<1>1. base \in A
    OBVIOUS
<1>2. step \in [A \X (1 .. n) -> A]
    <2>1. ASSUME NEW a \in A, NEW i \in 1 .. n PROVE NextWindow(gap, a, e[i]) \in A
        <3>1. a \in Seq(S \X S) /\ e[i] \in S \X S
            OBVIOUS
        <3>2. Append(a, e[i]) \in Seq(S \X S)
            BY <3>1
        <3>3. a # <<>> => Len(a) \in DOMAIN a /\ Last(a) \in S \X S
            BY <3>1 DEF Last
        <3> HIDE DEF e
        <3>4. ASSUME a # <<>>, NEW w \in S \X S PROVE [a EXCEPT ![Len(a)] = w] \in Seq(S \X S)
            BY <3>1, <3>4
        <3>5. a # <<>> => <<a[Len(a)][1], IF e[i][2] > a[Len(a)][2] THEN e[i][2] ELSE a[Len(a)][2]>> \in S \X S
            BY <3>1, <3>3
        <3>6. a # <<>> => [a EXCEPT ![Len(a)] =
                 <<@[1], IF e[i][2] > @[2] THEN e[i][2] ELSE @[2]>>] \in Seq(S \X S)
            BY <3>1, <3>3, <3>4, <3>5
        <3> QED
            BY <3>1, <3>2, <3>6 DEF NextWindow
    <2> HIDE DEF A, e
    <2> QED
        BY <2>1
<1>3. PICK f \in [SUBSET (1 .. n) -> A] :
            IsFold(f, n, base, step)
    <2>1. base \in A
        BY <1>1
    <2> HIDE DEF step, base, A, e, Folds, h, g
    <2> QED
        BY <1>2, <2>1, FoldExists
<1>6. DOMAIN e = 1 .. n
    OBVIOUS
<1>4. Folds(f)
    <2>1. ASSUME NEW s \in SUBSET (1 .. n), s # {}
          PROVE  f[s] = NextWindow(gap, f[s \ {Max(s)}], e[Max(s)])
        <3>1. Max(s) \in 1 .. n /\ s \ {Max(s)} \in SUBSET (1 .. n)
            BY <2>1, LastIndex
        <3>2. f[s \ {Max(s)}] \in A
            BY <3>1
        <3>3. f[s] = step[<<f[s \ {Max(s)}], Max(s)>>]
            BY <1>3, <2>1 DEF IsFold
        <3> HIDE DEF A, e
        <3> QED
            BY <3>1, <3>2, <3>3
    <2>2. \A s \in SUBSET (1 .. n) :
            f[s] = IF s = {} THEN base ELSE NextWindow(gap, f[s \ {Max(s)}], e[Max(s)])
        BY <1>3, <2>1 DEF IsFold
    <2> HIDE DEF A, base, e
    <2> QED
        BY <1>6, <2>2
<1>5. Folds(h)
    <2> HIDE DEF Folds
    <2> QED
        BY <1>4
<1>7. MergeIntervals(windows, gap) = h[DOMAIN e]
    BY DEF MergeIntervals, FoldLeft, MapThenFoldSet
<1> HIDE DEF h, e
<1>8. h[{}] = base
    <2>1. {} \in SUBSET (1 .. n)
        OBVIOUS
    <2> QED
        BY <1>5, <1>6, <2>1
<1>9. ASSUME NEW k \in 1 .. n
      PROVE  h[1 .. k] = NextWindow(gap, h[1 .. (k - 1)], e[k])
    <2>1. /\ 1 .. k \in SUBSET (1 .. n) /\ 1 .. k # {} /\ Max(1 .. k) = k
          /\ (1 .. k) \ {k} = 1 .. (k - 1)
        BY FirstIndices
    <2>2. h[1 .. k] = IF 1 .. k = {} THEN base
                      ELSE NextWindow(gap, h[(1 .. k) \ {Max(1 .. k)}], e[Max(1 .. k)])
        BY <1>5, <1>6, <2>1
    <2> QED
        BY <2>1, <2>2
<1>10. /\ g[0] = base
       /\ \A k \in 1 .. n : g[k] = NextWindow(gap, g[k - 1], e[k])
       /\ g[n] = h[1 .. n]
    <2>1. g[0] = h[{}]
        OBVIOUS
    <2>2. \A k \in 1 .. n : k - 1 \in 0 .. n /\ k \in 0 .. n
        OBVIOUS
    <2>3. n \in 0 .. n
        OBVIOUS
    <2> HIDE DEF base
    <2> QED
        BY <1>8, <1>9, <2>1, <2>2, <2>3
<1> HIDE DEF g
<1> QED
    BY <1>6, <1>7, <1>10 DEF e, WindowsMerged

---------------------------------------------------------------------------
(* The runs of cluster_scenes *)

\* A part of a run is a run.
LEMMA SameRunParts ==
    ASSUME NEW said, DOMAIN said \subseteq Nat, NEW i \in Nat,
           NEW a \in DOMAIN said, NEW b \in DOMAIN said, NEW c \in DOMAIN said,
           a <= b, b <= c, SameRun(said, i, a, c)
    PROVE  SameRun(said, i, a, b) /\ SameRun(said, i, b, c)
<1> DEFINE S == DOMAIN said
           Between(x, y) == {t \in S : x <= t /\ t <= y}
<1>1. /\ \A t \in Between(a, c) : said[t] # "low"
      /\ \A t \in Between(a, c) \ {c} : \E u \in Between(a, c) : t < u /\ 2 * u <= 2 * t + 5 * i
    BY DEF SameRun
<1>2. \A x \in S : x \in Nat
    OBVIOUS
<1>3. Between(a, b) \subseteq Between(a, c) /\ Between(b, c) \subseteq Between(a, c)
    BY <1>2
<1>4. ASSUME NEW t \in Between(a, b) \ {b}
      PROVE  \E u \in Between(a, b) : t < u /\ 2 * u <= 2 * t + 5 * i
    <2>1. t \in Between(a, c) \ {c} /\ t < b /\ t \in Nat
        BY <1>2
    <2>2. PICK u \in Between(a, c) : t < u /\ 2 * u <= 2 * t + 5 * i
        BY <1>1, <2>1
    <2>3. CASE u <= b
        BY <2>2, <2>3
    <2>4. CASE b < u
        <3>1. b \in Between(a, b) /\ 2 * b <= 2 * t + 5 * i
            BY <1>2, <2>1, <2>2, <2>4
        <3> QED
            BY <2>1, <3>1
    <2> QED
        BY <1>2, <2>3, <2>4
<1>5. ASSUME NEW t \in Between(b, c) \ {c}
      PROVE  \E u \in Between(b, c) : t < u /\ 2 * u <= 2 * t + 5 * i
    <2>1. t \in Between(a, c) \ {c} /\ b <= t /\ t \in Nat
        BY <1>2, <1>3
    <2>2. PICK u \in Between(a, c) : t < u /\ 2 * u <= 2 * t + 5 * i
        BY <1>1, <2>1
    <2>3. u \in Between(b, c)
        BY <1>2, <2>1, <2>2
    <2> QED
        BY <2>2, <2>3
<1> QED
    BY <1>1, <1>3, <1>4, <1>5 DEF SameRun

\* Two runs that share a frame are one.
LEMMA SameRunJoins ==
    ASSUME NEW said, DOMAIN said \subseteq Nat, NEW i \in Nat,
           NEW a \in DOMAIN said, NEW b \in DOMAIN said, NEW c \in DOMAIN said,
           a <= b, b <= c, SameRun(said, i, a, b), SameRun(said, i, b, c)
    PROVE  SameRun(said, i, a, c)
<1> DEFINE S == DOMAIN said
           Between(x, y) == {t \in S : x <= t /\ t <= y}
<1>1. \A x \in S : x \in Nat
    OBVIOUS
<1>2. Between(a, c) = Between(a, b) \cup Between(b, c)
    BY <1>1
<1>3. /\ \A t \in Between(a, b) \cup Between(b, c) : said[t] # "low"
      /\ \A t \in Between(a, b) \ {b} : \E u \in Between(a, b) : t < u /\ 2 * u <= 2 * t + 5 * i
      /\ \A t \in Between(b, c) \ {c} : \E u \in Between(b, c) : t < u /\ 2 * u <= 2 * t + 5 * i
    BY DEF SameRun
<1>4. b \in Between(b, c)
    BY <1>1
<1>5. \A t \in Between(a, c) \ {c} : \E u \in Between(a, c) : t < u /\ 2 * u <= 2 * t + 5 * i
    <2> HIDE DEF Between
    <2> QED
        BY <1>2, <1>3, <1>4
<1> QED
    BY <1>2, <1>3, <1>5 DEF SameRun

\* A frame above the threshold is a run.
LEMMA SameRunSelf ==
    ASSUME NEW said, DOMAIN said \subseteq Nat, NEW i \in Nat, NEW a \in DOMAIN said
    PROVE  SameRun(said, i, a, a) <=> said[a] # "low"
<1>1. {t \in DOMAIN said : a <= t /\ t <= a} = {a}
    OBVIOUS
<1> QED
    BY <1>1 DEF SameRun

\* Two frames in a row are in the same run when they are not too far apart.
LEMMA SameRunNext ==
    ASSUME NEW said, NEW i \in Nat \ {0}, DOMAIN said \subseteq Nat,
           NEW p \in DOMAIN said, NEW t \in DOMAIN said, p < t,
           \A x \in DOMAIN said : ~(p < x /\ x < t),
           said[p] # "low", said[t] # "low"
    PROVE  SameRun(said, i, p, t) <=> ~TooFar(p, t, i)
<1>1. \A x \in DOMAIN said : x \in Nat
    OBVIOUS
<1>2. {x \in DOMAIN said : p <= x /\ x <= t} = {p, t}
    BY <1>1
<1>3. p # t /\ {p, t} \ {t} = {p}
    BY <1>1
<1>4. SameRun(said, i, p, t) <=> \E u \in {p, t} : p < u /\ 2 * u <= 2 * p + 5 * i
    BY <1>2, <1>3 DEF SameRun
<1> QED
    BY <1>1, <1>4 DEF TooFar

\* The runs of the frames X: not empty, in order, all of one run in each, no two of one run
\* in two of them, and every frame of X above the threshold in one.
RunsOk(said, i, rs, X) ==
    /\ rs \in Seq(Seq(X))
    /\ \A k \in DOMAIN rs : rs[k] # <<>>
    /\ \A k \in DOMAIN rs : \A j, m \in DOMAIN rs[k] :
         /\ j < m => rs[k][j] < rs[k][m]
         /\ j <= m => SameRun(said, i, rs[k][j], rs[k][m])
    /\ \A k, l \in DOMAIN rs : \A j \in DOMAIN rs[k], m \in DOMAIN rs[l] :
         k < l => rs[k][j] < rs[l][m] /\ ~SameRun(said, i, rs[k][j], rs[l][m])
    /\ \A t \in X : said[t] # "low" => \E k \in DOMAIN rs : \E j \in DOMAIN rs[k] : rs[k][j] = t

\* A later frame above the threshold that is in no run so far starts one.
LEMMA OneMoreRun ==
    ASSUME NEW said, DOMAIN said \subseteq Nat, NEW i \in Nat, NEW X \in SUBSET DOMAIN said, NEW rs,
           RunsOk(said, i, rs, X), NEW t \in DOMAIN said, said[t] # "low",
           \A x \in X : x < t,
           \A k \in DOMAIN rs : \A j \in DOMAIN rs[k] : ~SameRun(said, i, rs[k][j], t)
    PROVE  RunsOk(said, i, Append(rs, <<t>>), X \cup {t})
<1> DEFINE Y == X \cup {t}
           new == Append(rs, <<t>>)
           n == Len(rs)
<1>1. rs \in Seq(Seq(X)) /\ n \in Nat /\ DOMAIN rs = 1 .. n
    BY DEF RunsOk
<1>2. \A k \in DOMAIN rs : rs[k] \in Seq(X) /\ \A j \in DOMAIN rs[k] : rs[k][j] \in X
    BY <1>1
<1>3. rs \in Seq(Seq(Y))
    <2>1. \A k \in 1 .. n : rs[k] \in Seq(Y)
        BY <1>1, <1>2
    <2> QED
        BY <1>1, <2>1
<1>4. new \in Seq(Seq(Y)) /\ DOMAIN new = 1 .. n + 1
      /\ (\A k \in 1 .. n : new[k] = rs[k]) /\ new[n + 1] = <<t>>
    <2>1. <<t>> \in Seq(Y)
        OBVIOUS
    <2> QED
        BY <1>1, <1>3, <2>1
<1> HIDE DEF new, n
<1>5. DOMAIN new[n + 1] = {1} /\ new[n + 1][1] = t
    BY <1>4
<1>6. ASSUME NEW k \in DOMAIN new PROVE (k \in DOMAIN rs /\ k < n + 1 /\ new[k] = rs[k]) \/ k = n + 1
    BY <1>1, <1>4
<1>7. \A k \in DOMAIN new : new[k] # <<>>
    <2> TAKE k \in DOMAIN new
    <2>1. CASE k = n + 1
        <3>1. <<t>> # <<>>
            OBVIOUS
        <3> QED
            BY <1>4, <2>1, <3>1
    <2>2. CASE k \in DOMAIN rs /\ new[k] = rs[k]
        BY <2>2 DEF RunsOk
    <2> QED
        BY <1>6, <2>1, <2>2
<1>8. ASSUME NEW k \in DOMAIN new, NEW j \in DOMAIN new[k], NEW m \in DOMAIN new[k]
      PROVE  /\ j < m => new[k][j] < new[k][m]
             /\ j <= m => SameRun(said, i, new[k][j], new[k][m])
    <2>1. CASE k \in DOMAIN rs /\ new[k] = rs[k]
        BY <2>1 DEF RunsOk
    <2>2. CASE k = n + 1
        BY <1>5, <2>2, SameRunSelf
    <2> QED
        BY <1>6, <2>1, <2>2
<1>9. ASSUME NEW k \in DOMAIN new, NEW l \in DOMAIN new,
             NEW j \in DOMAIN new[k], NEW m \in DOMAIN new[l], k < l
      PROVE  new[k][j] < new[l][m] /\ ~SameRun(said, i, new[k][j], new[l][m])
    <2>1. k \in DOMAIN rs /\ new[k] = rs[k]
        BY <1>1, <1>4, <1>6, <1>9
    <2>2. CASE l \in DOMAIN rs /\ new[l] = rs[l]
        BY <1>9, <2>1, <2>2 DEF RunsOk
    <2>3. CASE l = n + 1
        BY <1>2, <1>5, <2>1, <2>3
    <2> QED
        BY <1>6, <2>2, <2>3
<1>10. ASSUME NEW x \in Y, said[x] # "low"
       PROVE  \E k \in DOMAIN new : \E j \in DOMAIN new[k] : new[k][j] = x
    <2>1. CASE x = t
        <3>1. n + 1 \in DOMAIN new /\ 1 \in DOMAIN new[n + 1]
            BY <1>1, <1>4, <1>5
        <3> QED
            BY <1>5, <2>1, <3>1
    <2>2. CASE x \in X
        <3>1. PICK k \in DOMAIN rs : \E j \in DOMAIN rs[k] : rs[k][j] = x
            BY <1>10, <2>2 DEF RunsOk
        <3>2. k \in DOMAIN new /\ new[k] = rs[k]
            BY <1>1, <1>4
        <3> QED
            BY <3>1, <3>2
    <2> QED
        BY <2>1, <2>2
<1> QED
    BY <1>4, <1>7, <1>8, <1>9, <1>10 DEF RunsOk, new

\* A later frame of the run of the last frame goes on with it.
LEMMA LongerRun ==
    ASSUME NEW said, DOMAIN said \subseteq Nat, NEW i \in Nat, NEW X \in SUBSET DOMAIN said, NEW rs, NEW c,
           rs \in Seq(Seq(X)), c \in Seq(X), c # <<>>,
           RunsOk(said, i, Append(rs, c), X), NEW t \in DOMAIN said, said[t] # "low",
           \A x \in X : x < t,
           SameRun(said, i, Last(c), t),
           \A k \in DOMAIN rs : \A j \in DOMAIN rs[k] : ~SameRun(said, i, rs[k][j], t)
    PROVE  RunsOk(said, i, Append(rs, Append(c, t)), X \cup {t})
<1> DEFINE Y == X \cup {t}
           old == Append(rs, c)
           d == Append(c, t)
           new == Append(rs, d)
           n == Len(rs)
           q == Len(c)
<1>1. n \in Nat /\ DOMAIN rs = 1 .. n /\ q \in Nat /\ DOMAIN c = 1 .. q /\ q # 0 /\ Last(c) = c[q]
    BY DEF Last
<1>2. \A k \in DOMAIN rs : rs[k] \in Seq(X) /\ \A j \in DOMAIN rs[k] : rs[k][j] \in X
    OBVIOUS
<1>3. \A j \in 1 .. q : c[j] \in X
    BY <1>1
<1>4. d \in Seq(Y) /\ DOMAIN d = 1 .. q + 1 /\ (\A j \in 1 .. q : d[j] = c[j]) /\ d[q + 1] = t /\ d # <<>>
    <2>1. c \in Seq(Y)
        BY <1>3
    <2> QED
        BY <1>1, <2>1
<1>5. /\ DOMAIN old = 1 .. n + 1 /\ (\A k \in 1 .. n : old[k] = rs[k]) /\ old[n + 1] = c
    BY <1>1
<1>6. /\ new \in Seq(Seq(Y)) /\ DOMAIN new = 1 .. n + 1
      /\ (\A k \in 1 .. n : new[k] = rs[k]) /\ new[n + 1] = d
    <2>1. \A k \in 1 .. n : rs[k] \in Seq(Y)
        BY <1>1, <1>2
    <2>2. rs \in Seq(Seq(Y))
        BY <1>1, <2>1
    <2> HIDE DEF d
    <2> QED
        BY <1>1, <1>4, <2>2
<1> HIDE DEF new, n, old, d, q
<1>7. ASSUME NEW k \in DOMAIN new
      PROVE  (k \in 1 .. n /\ k < n + 1 /\ new[k] = rs[k] /\ new[k] = old[k] /\ k \in DOMAIN old) \/ k = n + 1
    BY <1>1, <1>5, <1>6
<1>8. n + 1 \in DOMAIN new /\ n + 1 \in DOMAIN old
    BY <1>1, <1>5, <1>6
<1>9. \A k \in DOMAIN new : new[k] # <<>>
    <2> TAKE k \in DOMAIN new
    <2>1. CASE k = n + 1
        BY <1>4, <1>6, <2>1
    <2>2. CASE new[k] = old[k] /\ k \in DOMAIN old
        BY <2>2 DEF RunsOk, old
    <2> QED
        BY <1>7, <2>1, <2>2
<1>10. ASSUME NEW j \in DOMAIN c PROVE SameRun(said, i, c[j], t) /\ c[j] < t
    <2>1. q \in DOMAIN c /\ j <= q
        BY <1>1
    <2>2. SameRun(said, i, c[j], c[q]) /\ (j < q => c[j] < c[q])
        BY <1>5, <1>8, <2>1 DEF RunsOk, old
    <2>3. c[j] \in X /\ c[q] \in X /\ c[j] <= c[q] /\ c[q] < t /\ c[j] < t
        BY <1>1, <1>3, <2>1, <2>2
    <2>4. c[j] \in DOMAIN said /\ c[q] \in DOMAIN said /\ c[q] <= t
        BY <2>3
    <2> QED
        BY <1>1, <2>2, <2>3, <2>4, SameRunJoins
<1>11. ASSUME NEW k \in DOMAIN new, NEW j \in DOMAIN new[k], NEW m \in DOMAIN new[k]
      PROVE  /\ j < m => new[k][j] < new[k][m]
             /\ j <= m => SameRun(said, i, new[k][j], new[k][m])
    <2>1. CASE k \in DOMAIN old /\ new[k] = old[k]
        BY <2>1 DEF RunsOk, old
    <2>2. CASE k = n + 1
        <3>1. new[k] = d /\ j \in 1 .. q + 1 /\ m \in 1 .. q + 1
            BY <1>4, <1>6, <2>2
        <3>2. CASE m = q + 1 /\ j = q + 1
            BY <1>1, <1>4, <3>1, <3>2, SameRunSelf
        <3>3. CASE m = q + 1 /\ j \in 1 .. q
            BY <1>1, <1>4, <1>10, <3>1, <3>3
        <3>4. CASE m \in 1 .. q /\ j \in 1 .. q
            <4>1. new[k][j] = old[n + 1][j] /\ new[k][m] = old[n + 1][m]
                  /\ j \in DOMAIN old[n + 1] /\ m \in DOMAIN old[n + 1]
                BY <1>1, <1>4, <1>5, <3>1, <3>4
            <4> QED
                BY <1>8, <4>1 DEF RunsOk, old
        <3>5. CASE m \in 1 .. q /\ j = q + 1
            BY <1>1, <3>5
        <3>6. \A z \in 1 .. q + 1 : z \in 1 .. q \/ z = q + 1
            BY <1>1
        <3> QED
            BY <3>1, <3>2, <3>3, <3>4, <3>5, <3>6
    <2> QED
        BY <1>7, <2>1, <2>2
<1>12. ASSUME NEW k \in DOMAIN new, NEW l \in DOMAIN new,
             NEW j \in DOMAIN new[k], NEW m \in DOMAIN new[l], k < l
      PROVE  new[k][j] < new[l][m] /\ ~SameRun(said, i, new[k][j], new[l][m])
    <2>1. k \in 1 .. n /\ new[k] = rs[k] /\ new[k] = old[k] /\ k \in DOMAIN old
        <3>1. l \in 1 .. n + 1 /\ k \in 1 .. n + 1
            BY <1>6
        <3>2. k # n + 1
            BY <1>1, <1>12, <3>1
        <3> QED
            BY <1>7, <3>2
    <2>2. CASE l \in DOMAIN old /\ new[l] = old[l]
        BY <1>12, <2>1, <2>2 DEF RunsOk, old
    <2>3. CASE l = n + 1
        <3>1. new[l] = d /\ m \in 1 .. q + 1
            BY <1>4, <1>6, <2>3
        <3>2. CASE m = q + 1
            BY <1>1, <1>2, <1>4, <2>1, <3>1, <3>2
        <3>3. CASE m \in 1 .. q
            <4>1. new[l][m] = old[l][m] /\ m \in DOMAIN old[l] /\ l \in DOMAIN old
                BY <1>1, <1>4, <1>5, <1>8, <2>3, <3>1, <3>3
            <4> QED
                BY <1>12, <2>1, <4>1 DEF RunsOk, old
        <3>4. \A z \in 1 .. q + 1 : z \in 1 .. q \/ z = q + 1
            BY <1>1
        <3> QED
            BY <3>1, <3>2, <3>3, <3>4
    <2> QED
        BY <1>7, <2>2, <2>3
<1>13. ASSUME NEW x \in Y, said[x] # "low"
       PROVE  \E k \in DOMAIN new : \E j \in DOMAIN new[k] : new[k][j] = x
    <2>1. CASE x = t
        <3>1. q + 1 \in DOMAIN d /\ d[q + 1] = t
            BY <1>1, <1>4
        <3> QED
            BY <1>6, <1>8, <2>1, <3>1
    <2>2. CASE x \in X
        <3>1. PICK k \in DOMAIN old : \E j \in DOMAIN old[k] : old[k][j] = x
            BY <1>13, <2>2 DEF RunsOk, old
        <3>2. PICK j \in DOMAIN old[k] : old[k][j] = x
            BY <3>1
        <3>3. CASE k \in 1 .. n
            <4>1. k \in DOMAIN new /\ new[k] = old[k]
                BY <1>1, <1>5, <1>6, <3>3
            <4> QED
                BY <3>2, <4>1
        <3>4. CASE k = n + 1
            <4>1. j \in DOMAIN d /\ d[j] = x
                BY <1>1, <1>4, <1>5, <3>2, <3>4
            <4> QED
                BY <1>6, <1>8, <4>1
        <3> QED
            BY <1>1, <1>5, <3>1, <3>3, <3>4
    <2> QED
        BY <2>1, <2>2
<1> QED
    BY <1>6, <1>9, <1>11, <1>12, <1>13 DEF RunsOk, new, d

\* The runs that have ended, and the one that may go on.
AllRuns(acc) == IF acc.current = <<>> THEN acc.runs ELSE Append(acc.runs, acc.current)

\* What cluster_scenes holds after the frames X: their runs, the last of which may go on; no
\* later frame is of a run that has ended.
RunsSoFar(said, i, acc, X) ==
    /\ acc.runs \in Seq(Seq(X)) /\ acc.current \in Seq(X)
    /\ RunsOk(said, i, AllRuns(acc), X)
    /\ acc.current # <<>> => \A x \in X : x <= Last(acc.current)
    /\ \A k \in DOMAIN acc.runs : \A j \in DOMAIN acc.runs[k] :
         \A y \in DOMAIN said \ X : ~SameRun(said, i, acc.runs[k][j], y)

\* A list of some frames is one of more frames.
LEMMA SeqOfMore ==
    ASSUME NEW X, NEW Y, X \subseteq Y
    PROVE  (\A s \in Seq(X) : s \in Seq(Y)) /\ (\A s \in Seq(Seq(X)) : s \in Seq(Seq(Y)))
<1>1. ASSUME NEW U, NEW V, U \subseteq V PROVE \A s \in Seq(U) : s \in Seq(V)
    <2> TAKE s \in Seq(U)
    <2>1. s \in [1 .. Len(s) -> V] /\ Len(s) \in Nat
        BY <1>1
    <2> QED
        BY <2>1
<1>2. Seq(X) \subseteq Seq(Y)
    BY <1>1
<1> QED
    BY <1>1, <1>2

\* One more frame keeps it so.
LEMMA NextFrameKeeps ==
    ASSUME NEW said, NEW i \in Nat \ {0}, DOMAIN said \subseteq Nat, NEW acc,
           NEW X \in SUBSET DOMAIN said, NEW t \in DOMAIN said \ X,
           \A x \in X : x < t, \A y \in DOMAIN said \ X : t <= y,
           RunsSoFar(said, i, acc, X)
    PROVE  RunsSoFar(said, i, NextFrame(said, i, acc, t), X \cup {t})
<1> DEFINE S == DOMAIN said
           Y == X \cup {t}
           new == NextFrame(said, i, acc, t)
           rs == acc.runs
           c == acc.current
           above == said[t] # "low"
           ends == c # <<>> /\ (~above \/ TooFar(Last(c), t, i))
<1> SUFFICES RunsSoFar(said, i, new, Y)
    OBVIOUS
<1>1. S \subseteq Nat /\ i \in Nat /\ \A y \in S : y \in Nat
    OBVIOUS
<1>2. /\ rs \in Seq(Seq(X)) /\ c \in Seq(X) /\ RunsOk(said, i, AllRuns(acc), X)
      /\ c # <<>> => \A x \in X : x <= Last(c)
      /\ \A k \in DOMAIN rs : \A j \in DOMAIN rs[k] : \A y \in S \ X : ~SameRun(said, i, rs[k][j], y)
    BY DEF RunsSoFar
<1>3. rs \in Seq(Seq(Y)) /\ c \in Seq(Y)
    BY <1>2, SeqOfMore, Zenon
<1>4. \A y \in S \ Y : y \in S \ X /\ t < y
    BY <1>1
<1>5. \A k \in DOMAIN rs : \A j \in DOMAIN rs[k] : ~SameRun(said, i, rs[k][j], t)
    BY <1>2
<1>6. c # <<>> => Last(c) \in X /\ Len(c) \in DOMAIN c /\ \A j \in DOMAIN c : c[j] \in X
    BY <1>2 DEF Last
<1>7. c # <<>> => \A j \in DOMAIN c : c[j] <= Last(c) /\ SameRun(said, i, c[j], Last(c))
    <2> SUFFICES ASSUME c # <<>>, NEW j \in DOMAIN c
                 PROVE  c[j] <= Last(c) /\ SameRun(said, i, c[j], Last(c))
        OBVIOUS
    <2>1. j <= Len(c) /\ Len(c) \in DOMAIN c
        BY <1>2
    <2> DEFINE all == Append(rs, c)
               n == Len(rs) + 1
    <2>2. n \in DOMAIN all /\ all[n] = c /\ AllRuns(acc) = all
        BY <1>2 DEF AllRuns
    <2> HIDE DEF all, n
    <2>3. SameRun(said, i, c[j], c[Len(c)])
        BY <1>2, <2>1, <2>2 DEF RunsOk
    <2> QED
        BY <1>2, <1>6, <2>3 DEF Last
<1>8. ASSUME above, c # <<>> PROVE SameRun(said, i, Last(c), t) <=> ~TooFar(Last(c), t, i)
    <2>1. \A x \in S : ~(Last(c) < x /\ x < t)
        BY <1>1, <1>2, <1>6, <1>8
    <2>2. said[Last(c)] # "low"
        <3>1. SameRun(said, i, Last(c), Last(c))
            BY <1>6, <1>7, <1>8 DEF Last
        <3> QED
            BY <1>1, <1>6, <1>8, <3>1, SameRunSelf
    <2> QED
        BY <1>6, <1>8, <2>1, <2>2, SameRunNext
<1>9. ASSUME c # <<>>, NEW j \in DOMAIN c, SameRun(said, i, Last(c), t) = FALSE
      PROVE  ~SameRun(said, i, c[j], t)
    <2>1. c[j] \in S /\ Last(c) \in S /\ c[j] <= Last(c) /\ Last(c) <= t
        BY <1>1, <1>6, <1>7, <1>9
    <2> QED
        BY <1>1, <1>9, <2>1, SameRunParts
<1>10. ASSUME NEW x \in X, NEW y \in S \ Y, SameRun(said, i, x, y)
       PROVE  above /\ SameRun(said, i, x, t)
    <2>1. x <= t /\ t <= y /\ x \in S /\ y \in S
        BY <1>1, <1>4
    <2>2. SameRun(said, i, x, t) /\ SameRun(said, i, t, y)
        BY <1>1, <1>10, <2>1, SameRunParts
    <2>3. t <= t /\ SameRun(said, i, t, t)
        BY <1>1, <2>1, <2>2, SameRunParts
    <2> QED
        BY <1>1, <2>2, <2>3, SameRunSelf
<1>11. RunsOk(said, i, AllRuns(acc), X) /\ ~above => RunsOk(said, i, AllRuns(acc), Y)
    BY SeqOfMore, Zenon DEF RunsOk
<1> HIDE DEF S, above
\* A frame below the threshold while no run is open.
<1>12. CASE ~above /\ c = <<>>
    <2>1. new.runs = rs /\ new.current = <<>>
        BY <1>12 DEF NextFrame, above
    <2>2. AllRuns(new) = AllRuns(acc)
        BY <1>12, <2>1 DEF AllRuns
    <2>3. <<>> \in Seq(Y)
        OBVIOUS
    <2> HIDE DEF new, rs, c, Y
    <2> QED
        BY <1>2, <1>3, <1>4, <1>11, <1>12, <2>1, <2>2, <2>3 DEF RunsSoFar, S
\* The open run ends.
<1>13. CASE ends
    <2>1. new.runs = Append(rs, c) /\ new.current = IF above THEN <<t>> ELSE <<>>
        BY <1>13 DEF NextFrame, above
    <2>2. AllRuns(acc) = Append(rs, c)
        BY <1>13 DEF AllRuns
    <2>3. ASSUME NEW k \in DOMAIN Append(rs, c), NEW j \in DOMAIN Append(rs, c)[k]
          PROVE  (k \in DOMAIN rs /\ Append(rs, c)[k] = rs[k]) \/ Append(rs, c)[k] = c
        BY <1>2
    <2>4. above => SameRun(said, i, Last(c), t) = FALSE
        BY <1>8, <1>13 DEF SameRun
    <2>5. ASSUME NEW k \in DOMAIN new.runs, NEW j \in DOMAIN new.runs[k], NEW y \in S \ Y
          PROVE  ~SameRun(said, i, new.runs[k][j], y)
        <3>1. CASE k \in DOMAIN rs /\ new.runs[k] = rs[k]
            <4> HIDE DEF new, rs, Y
            <4> QED
                BY <1>2, <1>4, <3>1
        <3>2. CASE new.runs[k] = c
            <4>1. c[j] \in X /\ j \in DOMAIN c /\ c # <<>>
                BY <1>6, <1>13, <3>2
            <4> HIDE DEF new, rs, c, Y
            <4> QED
                BY <1>9, <1>10, <2>4, <3>2, <4>1
        <3> QED
            BY <2>1, <2>3, <3>1, <3>2
    <2>6. RunsOk(said, i, AllRuns(new), Y)
        <3>1. CASE ~above
            <4>1. AllRuns(new) = AllRuns(acc)
                BY <2>1, <2>2, <3>1 DEF AllRuns
            <4> QED
                BY <1>2, <1>11, <3>1, <4>1
        <3>2. CASE above
            <4>1. <<t>> # <<>>
                OBVIOUS
            <4>2. AllRuns(new) = Append(AllRuns(acc), <<t>>)
                BY <2>1, <2>2, <3>2, <4>1 DEF AllRuns
            <4>3. \A k \in DOMAIN Append(rs, c) : \A j \in DOMAIN Append(rs, c)[k] :
                    ~SameRun(said, i, Append(rs, c)[k][j], t)
                <5> HIDE DEF rs, c
                <5> QED
                    BY <1>5, <1>9, <1>13, <2>3, <2>4, <3>2
            <4> DEFINE old == Append(rs, c)
            <4>4. RunsOk(said, i, old, X) /\ said[t] # "low" /\ DOMAIN said \subseteq Nat /\ i \in Nat
                BY <1>1, <1>2, <2>2, <3>2 DEF S, above
            <4>5. \A k \in DOMAIN old : \A j \in DOMAIN old[k] : ~SameRun(said, i, old[k][j], t)
                BY <4>3
            <4> HIDE DEF old
            <4>6. RunsOk(said, i, Append(old, <<t>>), Y)
                BY <4>4, <4>5, OneMoreRun
            <4> HIDE DEF new, Y
            <4> QED
                BY <2>2, <4>2, <4>6 DEF old
        <3> QED
            BY <3>1, <3>2
    <2>7. new.current \in Seq(Y) /\ (new.current # <<>> => \A x \in Y : x <= Last(new.current))
        <3>1. CASE ~above
            BY <2>1, <3>1
        <3>2. CASE above
            <4>1. <<t>> \in Seq(Y) /\ Last(<<t>>) = t
                BY DEF Last
            <4>2. \A x \in Y : x <= t
                BY <1>1 DEF S
            <4> QED
                BY <2>1, <3>2, <4>1, <4>2
        <3> QED
            BY <3>1, <3>2
    <2>8. new.runs \in Seq(Seq(Y))
        <3> HIDE DEF Y, new, rs, c
        <3> QED
            BY <1>3, <2>1
    <2> HIDE DEF new, Y
    <2> QED
        BY <2>5, <2>6, <2>7, <2>8 DEF RunsSoFar, S
\* A run starts.
<1>14. CASE above /\ c = <<>>
    <2>1. new.runs = rs /\ new.current = Append(c, t)
        BY <1>14 DEF NextFrame, above
    <2>2. Append(c, t) = <<t>> /\ <<t>> # <<>> /\ <<t>> \in Seq(Y) /\ Last(<<t>>) = t
        BY <1>14 DEF Last
    <2>3. AllRuns(acc) = rs /\ AllRuns(new) = Append(rs, <<t>>)
        BY <1>14, <2>1, <2>2 DEF AllRuns
    <2>4. RunsOk(said, i, AllRuns(new), Y)
        <3> HIDE DEF new, rs, c
        <3> QED
            BY <1>1, <1>2, <1>5, <1>14, <2>3, OneMoreRun DEF S, above
    <2>5. \A x \in Y : x <= t
        BY <1>1 DEF S
    <2> HIDE DEF new, rs, c, Y
    <2> QED
        BY <1>2, <1>3, <1>4, <2>1, <2>2, <2>4, <2>5 DEF RunsSoFar, S
\* The open run goes on.
<1>15. CASE above /\ c # <<>> /\ ~TooFar(Last(c), t, i)
    <2>1. new.runs = rs /\ new.current = Append(c, t)
        BY <1>15 DEF NextFrame, above
    <2>2. Append(c, t) # <<>> /\ Append(c, t) \in Seq(Y) /\ Last(Append(c, t)) = t
        <3> HIDE DEF c
        <3>1. c \in Seq(Y) /\ t \in Y
            BY <1>3
        <3> HIDE DEF Y
        <3> QED
            BY <3>1 DEF Last
    <2>3. AllRuns(acc) = Append(rs, c) /\ AllRuns(new) = Append(rs, Append(c, t))
        <3> HIDE DEF new
        <3> QED
            BY <1>15, <2>1, <2>2 DEF AllRuns
    <2>4. RunsOk(said, i, AllRuns(new), Y)
        <3>1. SameRun(said, i, Last(c), t)
            BY <1>8, <1>15
        <3>2. RunsOk(said, i, Append(rs, c), X) /\ said[t] # "low" /\ DOMAIN said \subseteq Nat
              /\ i \in Nat /\ c # <<>>
            BY <1>1, <1>2, <1>15, <2>3 DEF S, above
        <3> HIDE DEF new, rs, c
        <3>3. RunsOk(said, i, Append(rs, Append(c, t)), Y)
            BY <1>2, <1>5, <3>1, <3>2, LongerRun
        <3> HIDE DEF Y
        <3> QED
            BY <2>3, <3>3
    <2>5. \A x \in Y : x <= t
        BY <1>1 DEF S
    <2> HIDE DEF new, rs, c, Y
    <2> QED
        BY <1>2, <1>3, <1>4, <2>1, <2>2, <2>4, <2>5 DEF RunsSoFar, S
<1> QED
    BY <1>12, <1>13, <1>14, <1>15

\* The runs of cluster_scenes are the runs of its frames.
LEMMA RunsAre ==
    ASSUME NEW L \in Nat, NEW said, DOMAIN said \in SUBSET (0 .. L),
           NEW i \in Nat \ {0}, DOMAIN said \subseteq Nat
    PROVE  RunsOk(said, i, Runs(said, i), DOMAIN said)
<1> DEFINE S == DOMAIN said
           e == Ordered(S)
           n == Cardinality(S)
           X(k) == {e[j] : j \in 1 .. k}
<1>1. /\ n \in Nat /\ e \in Seq(S) /\ Len(e) = n
      /\ \A j, k \in 1 .. n : j < k => e[j] < e[k]
      /\ \A x \in S : \E j \in 1 .. n : e[j] = x
    BY OrderedLists
<1>2. PICK g : /\ g[0] = [runs |-> <<>>, current |-> <<>>]
               /\ \A k \in 1 .. n : g[k] = NextFrame(said, i, g[k - 1], e[k])
               /\ Runs(said, i) = AllRuns(g[n])
    <2>1. PICK g : FramesTaken(g, said, i, n)
        <3> HIDE DEF n
        <3> QED
            BY <1>1, RunsUnfold
    <2> HIDE DEF n
    <2> QED
        BY <2>1 DEF FramesTaken, AllRuns
<1>3. \A x \in S : x \in Nat
    OBVIOUS
<1>4. \A j \in 1 .. n : e[j] \in S
    <2> HIDE DEF n, S
    <2> QED
        BY <1>1
<1> HIDE DEF e, n
<1>5. RunsSoFar(said, i, g[0], {}) /\ X(0) = {}
    <2>1. 1 .. 0 = {}
        OBVIOUS
    <2>2. X(0) = {}
        BY <2>1
    <2>3. <<>> \in Seq(Seq({})) /\ DOMAIN <<>> = {} /\ <<>> \in Seq({})
        OBVIOUS
    <2>4. RunsOk(said, i, <<>>, {})
        BY <2>3, Zenon DEF RunsOk
    <2>5. AllRuns(g[0]) = <<>> /\ g[0].runs = <<>> /\ g[0].current = <<>>
        BY <1>2 DEF AllRuns
    <2> QED
        BY <2>2, <2>3, <2>4, <2>5, Zenon DEF RunsSoFar
<1> DEFINE Wrong == {k \in Nat : k <= n /\ ~RunsSoFar(said, i, g[k], X(k))}
<1>6. Wrong = {}
    <2> SUFFICES ASSUME Wrong # {} PROVE FALSE
        OBVIOUS
    <2>1. PICK k \in Wrong : \A j \in Wrong : k <= j
        <3>1. Wrong \in SUBSET Nat
            OBVIOUS
        <3> HIDE DEF Wrong
        <3> QED
            BY <3>1, LeastElement
    <2>2. k \in Nat /\ k <= n /\ ~RunsSoFar(said, i, g[k], X(k))
        OBVIOUS
    <2>3. k # 0
        BY <1>5, <2>2
    <2>4. k \in 1 .. n /\ k - 1 \in Nat /\ k - 1 <= n /\ k - 1 \notin Wrong
        <3> HIDE DEF Wrong
        <3> QED
            BY <1>1, <2>1, <2>2, <2>3
    <2>5. RunsSoFar(said, i, g[k - 1], X(k - 1))
        <3> HIDE DEF X
        <3> QED
            BY <2>4
    <2>6. X(k - 1) \in SUBSET S /\ X(k) = X(k - 1) \cup {e[k]}
        <3>1. \A j \in 1 .. (k - 1) : j \in 1 .. n
            BY <1>1, <2>4
        <3>2. \A j : j \in 1 .. k <=> j \in 1 .. (k - 1) \/ j = k
            BY <2>4
        <3> QED
            BY <1>4, <3>1, <3>2
    <2>7. \A x \in X(k - 1) : x < e[k]
        <3> SUFFICES ASSUME NEW j \in 1 .. (k - 1) PROVE e[j] < e[k]
            OBVIOUS
        <3>1. j \in 1 .. n /\ j < k
            BY <1>1, <2>4
        <3> QED
            BY <1>1, <2>4, <3>1
    <2>8. e[k] \in S \ X(k - 1)
        <3>1. e[k] \in S
            BY <1>4, <2>4
        <3>2. ~(e[k] < e[k])
            BY <1>3, <3>1
        <3> QED
            BY <2>7, <3>1, <3>2
    <2>9. \A y \in S \ X(k - 1) : e[k] <= y
        <3> SUFFICES ASSUME NEW y \in S \ X(k - 1) PROVE e[k] <= y
            OBVIOUS
        <3>1. PICK j \in 1 .. n : e[j] = y
            BY <1>1
        <3>2. j \notin 1 .. (k - 1)
            BY <3>1
        <3>3. j = k \/ k < j
            BY <1>1, <2>4, <3>2
        <3>4. j = k \/ e[k] < e[j]
            BY <1>1, <2>4, <3>3
        <3>5. e[k] \in Nat /\ e[j] \in Nat
            BY <1>3, <1>4, <2>4
        <3> QED
            BY <3>1, <3>4, <3>5
    <2>10. g[k] = NextFrame(said, i, g[k - 1], e[k])
        BY <1>2, <2>4
    <2> HIDE DEF X
    <2> QED
        BY <2>2, <2>5, <2>6, <2>7, <2>8, <2>9, <2>10, NextFrameKeeps DEF S
<1>7. X(n) = S
    BY <1>1, <1>4
<1>8. RunsSoFar(said, i, g[n], S)
    <2> HIDE DEF X
    <2> QED
        BY <1>1, <1>6, <1>7
<1> QED
    BY <1>2, <1>8 DEF RunsSoFar

\* The ends of a run are above the threshold.
LEMMA RunIsAbove ==
    ASSUME NEW said, DOMAIN said \subseteq Nat, NEW i \in Nat,
           NEW a \in DOMAIN said, NEW b \in DOMAIN said, a <= b, SameRun(said, i, a, b)
    PROVE  said[a] # "low" /\ said[b] # "low"
<1>1. a <= a /\ b <= b
    OBVIOUS
<1>2. SameRun(said, i, a, a) /\ SameRun(said, i, b, b)
    BY <1>1, SameRunParts
<1> QED
    BY <1>2, SameRunSelf

\* Frames of one run are in one of the runs of cluster_scenes, in their order.
LEMMA OneRun ==
    ASSUME NEW said, DOMAIN said \subseteq Nat, NEW i \in Nat, NEW rs,
           RunsOk(said, i, rs, DOMAIN said),
           NEW l \in DOMAIN rs, NEW j \in DOMAIN rs[l], NEW m \in DOMAIN rs, NEW k \in DOMAIN rs[m],
           rs[l][j] <= rs[m][k]
    PROVE  /\ rs[l][j] \in DOMAIN said /\ rs[m][k] \in DOMAIN said
           /\ l <= m /\ (l = m => j <= k)
           /\ SameRun(said, i, rs[l][j], rs[m][k]) <=> l = m
<1>1. /\ rs \in Seq(Seq(DOMAIN said)) /\ l \in Nat /\ m \in Nat
      /\ rs[l] \in Seq(DOMAIN said) /\ rs[m] \in Seq(DOMAIN said) /\ j \in Nat /\ k \in Nat
    <2>1. rs \in Seq(Seq(DOMAIN said))
        BY DEF RunsOk
    <2>2. rs[l] \in Seq(DOMAIN said) /\ rs[m] \in Seq(DOMAIN said) /\ l \in Nat /\ m \in Nat
        BY <2>1
    <2> QED
        BY <2>1, <2>2
<1>2. rs[l][j] \in DOMAIN said /\ rs[m][k] \in DOMAIN said /\ rs[l][j] \in Nat /\ rs[m][k] \in Nat
    BY <1>1
<1>3. ~(m < l)
    <2> SUFFICES ASSUME m < l PROVE FALSE
        OBVIOUS
    <2>1. rs[m][k] < rs[l][j]
        BY DEF RunsOk
    <2> QED
        BY <1>2, <2>1
<1>4. ASSUME l = m PROVE j <= k /\ SameRun(said, i, rs[l][j], rs[m][k])
    <2>1. ~(k < j)
        <3> SUFFICES ASSUME k < j PROVE FALSE
            OBVIOUS
        <3>1. rs[m][k] < rs[l][j]
            BY <1>4 DEF RunsOk
        <3> QED
            BY <1>2, <3>1
    <2>2. j <= k
        BY <1>1, <2>1
    <2> QED
        BY <1>4, <2>2 DEF RunsOk
<1>5. l < m => ~SameRun(said, i, rs[l][j], rs[m][k])
    BY DEF RunsOk
<1> QED
    BY <1>1, <1>2, <1>3, <1>4, <1>5

\* The frames that count are those of the real runs.
LEMMA CountedIs ==
    ASSUME NEW said, DOMAIN said \subseteq Nat, NEW i \in Nat, NEW rs,
           RunsOk(said, i, rs, DOMAIN said)
    PROVE  /\ \A l \in DOMAIN rs : \A j \in DOMAIN rs[l] :
                IsRealRun(said, rs[l]) => rs[l][j] \in Counted(said, i)
           /\ \A t \in Counted(said, i) : \E l \in DOMAIN rs : \E j \in DOMAIN rs[l] :
                rs[l][j] = t /\ IsRealRun(said, rs[l])
<1> DEFINE S == DOMAIN said
           R(a, b) == IF a <= b THEN SameRun(said, i, a, b) ELSE SameRun(said, i, b, a)
<1>1. \A x \in S : x \in Nat
    OBVIOUS
<1>2. ASSUME NEW l \in DOMAIN rs PROVE rs[l] \in Seq(S) /\ DOMAIN rs[l] = 1 .. Len(rs[l]) /\ Len(rs[l]) \in Nat
    BY DEF RunsOk
<1>3. ASSUME NEW l \in DOMAIN rs, NEW j \in DOMAIN rs[l], NEW m \in DOMAIN rs[l]
      PROVE  rs[l][j] \in S /\ rs[l][m] \in S /\ R(rs[l][j], rs[l][m]) /\ (j # m => rs[l][j] # rs[l][m])
             /\ said[rs[l][j]] # "low"
    <2>1. rs[l][j] \in S /\ rs[l][m] \in S
        BY <1>2
    <2>2. rs[l][j] <= rs[l][m] \/ rs[l][m] <= rs[l][j]
        BY <1>1, <2>1
    <2>3. R(rs[l][j], rs[l][m])
        <3>1. CASE rs[l][j] <= rs[l][m]
            BY <3>1, OneRun
        <3>2. CASE ~(rs[l][j] <= rs[l][m])
            <4>1. SameRun(said, i, rs[l][m], rs[l][j])
                BY <2>2, <3>2, OneRun
            <4> QED
                BY <3>2, <4>1
        <3> QED
            BY <3>1, <3>2
    <2>4. j # m => rs[l][j] # rs[l][m]
        <3> SUFFICES ASSUME j # m, rs[l][j] = rs[l][m] PROVE FALSE
            OBVIOUS
        <3>1. rs[l][j] <= rs[l][m] /\ rs[l][m] <= rs[l][j]
            BY <1>1, <2>1
        <3>2. j <= m /\ m <= j
            BY <3>1, OneRun
        <3> QED
            BY <1>2, <3>2
    <2>5. said[rs[l][j]] # "low"
        <3>1. rs[l][j] <= rs[l][j]
            BY <1>1, <2>1
        <3>2. SameRun(said, i, rs[l][j], rs[l][j])
            BY <3>1, OneRun
        <3> QED
            BY <2>1, <3>2, SameRunSelf
    <2> QED
        BY <2>1, <2>3, <2>4, <2>5
<1>4. ASSUME NEW l \in DOMAIN rs, NEW j \in DOMAIN rs[l], IsRealRun(said, rs[l])
      PROVE  rs[l][j] \in Counted(said, i)
    <2>1. \E m \in DOMAIN rs[l] : m # j \/ said[rs[l][m]] = "high"
        <3>1. CASE Len(rs[l]) >= 2
            <4>1. 1 \in DOMAIN rs[l] /\ 2 \in DOMAIN rs[l]
                BY <1>2, <3>1
            <4>2. 1 # j \/ 2 # j
                OBVIOUS
            <4> QED
                BY <4>1, <4>2
        <3>2. CASE \E m \in DOMAIN rs[l] : said[rs[l][m]] = "high"
            BY <3>2
        <3> QED
            BY <1>4, <3>1, <3>2 DEF IsRealRun, MinConsecutiveFrames
    <2>2. PICK m \in DOMAIN rs[l] : m # j \/ said[rs[l][m]] = "high"
        BY <2>1
    <2>3. /\ rs[l][j] \in S /\ rs[l][m] \in S /\ R(rs[l][j], rs[l][m]) /\ said[rs[l][j]] # "low"
          /\ rs[l][m] # rs[l][j] \/ said[rs[l][m]] = "high"
        BY <1>3, <2>2
    <2> QED
        BY <2>3 DEF Counted
<1>5. ASSUME NEW t \in Counted(said, i)
      PROVE  \E l \in DOMAIN rs : \E j \in DOMAIN rs[l] : rs[l][j] = t /\ IsRealRun(said, rs[l])
    <2>1. t \in S /\ said[t] # "low"
        BY DEF Counted
    <2>2. PICK b \in S : R(t, b) /\ (b # t \/ said[b] = "high")
        BY DEF Counted
    <2>3. said[b] # "low"
        <3>1. CASE t <= b
            BY <2>1, <2>2, <3>1, RunIsAbove
        <3>2. CASE ~(t <= b)
            <4>1. b <= t
                BY <1>1, <2>1, <3>2
            <4> QED
                BY <2>1, <2>2, <3>2, <4>1, RunIsAbove
        <3> QED
            BY <3>1, <3>2
    <2>4. PICK l \in DOMAIN rs : \E j \in DOMAIN rs[l] : rs[l][j] = t
        BY <2>1 DEF RunsOk
    <2>5. PICK j \in DOMAIN rs[l] : rs[l][j] = t
        BY <2>4
    <2>6. PICK m \in DOMAIN rs : \E k \in DOMAIN rs[m] : rs[m][k] = b
        BY <2>3 DEF RunsOk
    <2>7. PICK k \in DOMAIN rs[m] : rs[m][k] = b
        BY <2>6
    <2>8. l = m
        <3>1. CASE t <= b
            BY <2>2, <2>5, <2>7, <3>1, OneRun
        <3>2. CASE ~(t <= b)
            <4>1. b <= t
                BY <1>1, <2>1, <3>2
            <4> QED
                BY <2>2, <2>5, <2>7, <3>2, <4>1, OneRun
        <3> QED
            BY <3>1, <3>2
    <2>9. IsRealRun(said, rs[l])
        <3>1. CASE said[b] = "high"
            BY <2>7, <2>8, <3>1 DEF IsRealRun
        <3>2. CASE b # t
            <4>1. j # k
                BY <2>5, <2>7, <2>8, <3>2
            <4>2. Len(rs[l]) >= 2
                BY <1>2, <2>5, <2>7, <2>8, <4>1
            <4> QED
                BY <4>2 DEF IsRealRun, MinConsecutiveFrames
        <3> QED
            BY <2>2, <3>1, <3>2
    <2> QED
        BY <2>5, <2>9
<1> QED
    BY <1>4, <1>5

---------------------------------------------------------------------------
(* Their windows *)

FramePairs(said) == (DOMAIN said) \X (DOMAIN said)

\* Two frames are a pair of frames.
LEMMA PairOfFrames ==
    ASSUME NEW f, NEW a \in DOMAIN f, NEW b \in DOMAIN f
    PROVE  <<a, b>> \in FramePairs(f)
BY DEF FramePairs

\* The windows of the real ones of the first k runs, in their order.
WindowsSoFar(said, rs, W, k) ==
    /\ W \in Seq(FramePairs(said))
    /\ \A n \in DOMAIN W : \E l \in 1 .. k :
         IsRealRun(said, rs[l]) /\ W[n] = <<Head(rs[l]), Last(rs[l])>>
    /\ \A n, m \in DOMAIN W : n < m => W[n][2] < W[m][1]
    /\ \A l \in 1 .. k : IsRealRun(said, rs[l]) =>
         \E n \in DOMAIN W : W[n] = <<Head(rs[l]), Last(rs[l])>>

\* One more run, one more window at most: that of the run, after those so far.
LEMMA NextRunKeeps ==
    ASSUME NEW said, DOMAIN said \subseteq Nat, NEW i \in Nat, NEW rs,
           RunsOk(said, i, rs, DOMAIN said), NEW k \in DOMAIN rs, NEW W,
           WindowsSoFar(said, rs, W, k - 1)
    PROVE  WindowsSoFar(said, rs, NextRun(said, W, rs[k]), k)
<1> DEFINE S == DOMAIN said
           w == <<Head(rs[k]), Last(rs[k])>>
           new == Append(W, w)
           q == Len(W)
<1>1. /\ rs \in Seq(Seq(S)) /\ k \in Nat /\ k >= 1 /\ k <= Len(rs) /\ Len(rs) \in Nat
      /\ DOMAIN rs = 1 .. Len(rs)
    <2>1. rs \in Seq(Seq(S))
        BY DEF RunsOk
    <2> QED
        BY <2>1
<1>2. W \in Seq(FramePairs(said)) /\ q \in Nat /\ DOMAIN W = 1 .. q
    <2>1. W \in Seq(FramePairs(said))
        BY DEF WindowsSoFar
    <2> QED
        BY <2>1
<1>3. ASSUME NEW l \in DOMAIN rs
      PROVE  /\ 1 \in DOMAIN rs[l] /\ Len(rs[l]) \in DOMAIN rs[l]
             /\ Head(rs[l]) = rs[l][1] /\ Last(rs[l]) = rs[l][Len(rs[l])]
             /\ Head(rs[l]) \in S /\ Last(rs[l]) \in S
    <2>1. rs[l] \in Seq(S) /\ rs[l] # <<>>
        BY <1>1 DEF RunsOk
    <2> QED
        BY <2>1 DEF Last
<1>4. w \in FramePairs(said) /\ w[1] = Head(rs[k]) /\ w[2] = Last(rs[k])
    <2>1. Head(rs[k]) \in S /\ Last(rs[k]) \in S
        BY <1>3
    <2> QED
        BY <2>1, PairOfFrames
<1>5. \A l \in 1 .. k : l \in 1 .. (k - 1) \/ l = k
    BY <1>1
<1>6. \A l \in 1 .. (k - 1) : l \in 1 .. k /\ l \in DOMAIN rs /\ l < k
    BY <1>1
<1>7. k \in 1 .. k
    BY <1>1
<1>8. CASE ~IsRealRun(said, rs[k])
    <2>1. NextRun(said, W, rs[k]) = W
        BY <1>8 DEF NextRun
    <2>2. WindowsSoFar(said, rs, W, k)
        BY <1>5, <1>6, <1>8 DEF WindowsSoFar
    <2> QED
        BY <2>1, <2>2
<1>9. CASE IsRealRun(said, rs[k])
    <2>1. NextRun(said, W, rs[k]) = new
        BY <1>9 DEF NextRun
    <2>2. new \in Seq(FramePairs(said)) /\ DOMAIN new = 1 .. q + 1 /\ (\A n \in 1 .. q : new[n] = W[n]) /\ new[q + 1] = w
        <3> HIDE DEF w
        <3> QED
            BY <1>2, <1>4
    <2> HIDE DEF new, q, w
    <2>3. \A n \in DOMAIN new : (n \in DOMAIN W /\ n < q + 1 /\ new[n] = W[n]) \/ (n = q + 1 /\ new[n] = w)
        BY <1>2, <2>2
    <2>4. ASSUME NEW n \in DOMAIN new
          PROVE  \E l \in 1 .. k : IsRealRun(said, rs[l]) /\ new[n] = <<Head(rs[l]), Last(rs[l])>>
        <3>1. CASE n \in DOMAIN W /\ new[n] = W[n]
            BY <1>6, <3>1 DEF WindowsSoFar
        <3>2. CASE new[n] = w
            BY <1>7, <1>9, <3>2 DEF w
        <3> QED
            BY <2>3, <3>1, <3>2
    <2>5. ASSUME NEW n \in DOMAIN new, NEW m \in DOMAIN new, n < m PROVE new[n][2] < new[m][1]
        <3>1. n \in DOMAIN W /\ new[n] = W[n]
            BY <1>2, <2>2, <2>3, <2>5
        <3>2. CASE m \in DOMAIN W /\ new[m] = W[m]
            BY <2>5, <3>1, <3>2 DEF WindowsSoFar
        <3>3. CASE new[m] = w
            <4>1. PICK l \in 1 .. (k - 1) : W[n] = <<Head(rs[l]), Last(rs[l])>>
                BY <3>1 DEF WindowsSoFar
            <4>2. l \in DOMAIN rs /\ l < k /\ k \in DOMAIN rs
                BY <1>6
            <4>3. Last(rs[l]) < Head(rs[k])
                BY <1>3, <4>2 DEF RunsOk
            <4> QED
                BY <1>4, <3>1, <3>3, <4>1, <4>3
        <3> QED
            BY <2>3, <3>2, <3>3
    <2>6. ASSUME NEW l \in 1 .. k, IsRealRun(said, rs[l])
          PROVE  \E n \in DOMAIN new : new[n] = <<Head(rs[l]), Last(rs[l])>>
        <3>1. CASE l \in 1 .. (k - 1)
            <4>1. PICK n \in DOMAIN W : W[n] = <<Head(rs[l]), Last(rs[l])>>
                BY <2>6, <3>1 DEF WindowsSoFar
            <4>2. n \in DOMAIN new /\ new[n] = W[n]
                BY <1>2, <2>2
            <4> QED
                BY <4>1, <4>2
        <3>2. CASE l = k
            <4>1. q + 1 \in DOMAIN new
                BY <1>2, <2>2
            <4> QED
                BY <2>2, <3>2, <4>1 DEF w
        <3> QED
            BY <1>5, <3>1, <3>2
    <2>7. WindowsSoFar(said, rs, new, k)
        BY <2>2, <2>4, <2>5, <2>6 DEF WindowsSoFar
    <2> QED
        BY <2>1, <2>7
<1> QED
    BY <1>8, <1>9

\* Windows in order, one for each stretch of counted frames of one run.
WindowsOk(said, i, W) ==
    /\ W \in Seq(FramePairs(said))
    /\ \A n \in DOMAIN W :
         /\ W[n][1] \in Counted(said, i) /\ W[n][2] \in Counted(said, i) /\ W[n][1] <= W[n][2]
         /\ SameRun(said, i, W[n][1], W[n][2])
    /\ \A n, m \in DOMAIN W : n < m => W[n][2] < W[m][1]
    /\ \A t \in Counted(said, i) : \E n \in DOMAIN W : W[n][1] <= t /\ t <= W[n][2]
    /\ \A n, m \in DOMAIN W : n < m => ~SameRun(said, i, W[n][2], W[m][1])

\* The windows of the runs of cluster_scenes are such windows.
LEMMA WindowsAre ==
    ASSUME NEW said, DOMAIN said \subseteq Nat, NEW i \in Nat, NEW rs,
           RunsOk(said, i, rs, DOMAIN said)
    PROVE  WindowsOk(said, i, RealWindows(said, rs))
<1> DEFINE S == DOMAIN said
           n == Len(rs)
           W == RealWindows(said, rs)
<1>1. rs \in Seq(Seq(S)) /\ n \in Nat /\ DOMAIN rs = 1 .. n /\ \A k \in 1 .. n : rs[k] # <<>>
    <2>1. rs \in Seq(Seq(S))
        BY DEF RunsOk
    <2> QED
        BY <2>1 DEF RunsOk
<1>2. PICK g : WindowsTaken(g, said, rs, n)
    <2> HIDE DEF S
    <2> QED
        BY <1>1, WindowsUnfold
<1> DEFINE Wrong == {k \in Nat : k <= n /\ ~WindowsSoFar(said, rs, g[k], k)}
<1> HIDE DEF n
<1>3. WindowsSoFar(said, rs, g[0], 0)
    <2>1. g[0] = <<>> /\ <<>> \in Seq(FramePairs(said)) /\ DOMAIN <<>> = {}
        BY <1>2 DEF WindowsTaken
    <2>2. \A l : l \notin 1 .. 0
        OBVIOUS
    <2> HIDE DEF S
    <2> QED
        BY <2>1, <2>2, Zenon DEF WindowsSoFar, S
<1>4. Wrong = {}
    <2> SUFFICES ASSUME Wrong # {} PROVE FALSE
        OBVIOUS
    <2>1. PICK k \in Wrong : \A j \in Wrong : k <= j
        <3>1. Wrong \in SUBSET Nat
            OBVIOUS
        <3> HIDE DEF Wrong
        <3> QED
            BY <3>1, LeastElement
    <2>2. k \in Nat /\ k <= n /\ ~WindowsSoFar(said, rs, g[k], k) /\ k # 0
        BY <1>3
    <2>3. k \in 1 .. n /\ k - 1 \in Nat /\ k - 1 <= n /\ k - 1 \notin Wrong
        <3> HIDE DEF Wrong
        <3> QED
            BY <1>1, <2>1, <2>2
    <2>4. WindowsSoFar(said, rs, g[k - 1], k - 1) /\ g[k] = NextRun(said, g[k - 1], rs[k]) /\ k \in DOMAIN rs
        BY <1>1, <1>2, <2>3 DEF WindowsTaken
    <2> QED
        BY <2>2, <2>4, NextRunKeeps
<1>5. WindowsSoFar(said, rs, W, n)
    BY <1>1, <1>2, <1>4 DEF WindowsTaken
<1> HIDE DEF W
<1>6. ASSUME NEW l \in DOMAIN rs
      PROVE  /\ 1 \in DOMAIN rs[l] /\ Len(rs[l]) \in DOMAIN rs[l] /\ 1 <= Len(rs[l])
             /\ Head(rs[l]) = rs[l][1] /\ Last(rs[l]) = rs[l][Len(rs[l])]
             /\ \A j \in DOMAIN rs[l] : rs[l][j] \in S /\ 1 <= j /\ j <= Len(rs[l])
    <2>1. rs[l] \in Seq(S) /\ rs[l] # <<>>
        BY <1>1
    <2> QED
        BY <2>1 DEF Last
<1>7. ASSUME NEW m \in DOMAIN W
      PROVE  \E l \in DOMAIN rs :
               IsRealRun(said, rs[l]) /\ W[m][1] = Head(rs[l]) /\ W[m][2] = Last(rs[l])
    <2>1. PICK l \in 1 .. n : IsRealRun(said, rs[l]) /\ W[m] = <<Head(rs[l]), Last(rs[l])>>
        BY <1>5 DEF WindowsSoFar
    <2>2. l \in DOMAIN rs
        BY <1>1
    <2>3. W[m][1] = Head(rs[l]) /\ W[m][2] = Last(rs[l])
        <3>1. \A a, b : W[m] = <<a, b>> => W[m][1] = a /\ W[m][2] = b
            OBVIOUS
        <3> QED
            BY <2>1, <3>1, Zenon
    <2> QED
        BY <2>1, <2>2, <2>3, Zenon
<1>8. ASSUME NEW m \in DOMAIN W
      PROVE  /\ W[m][1] \in Counted(said, i) /\ W[m][2] \in Counted(said, i) /\ W[m][1] <= W[m][2]
             /\ SameRun(said, i, W[m][1], W[m][2])
    <2>1. PICK l \in DOMAIN rs : IsRealRun(said, rs[l]) /\ W[m][1] = Head(rs[l]) /\ W[m][2] = Last(rs[l])
        BY <1>7
    <2>2. Head(rs[l]) \in Counted(said, i) /\ Last(rs[l]) \in Counted(said, i)
        BY <1>6, <2>1, CountedIs
    <2>3. SameRun(said, i, Head(rs[l]), Last(rs[l]))
        BY <1>6 DEF RunsOk
    <2>4. Head(rs[l]) <= Last(rs[l])
        <3>1. rs[l][1] \in Nat /\ rs[l][Len(rs[l])] \in Nat
            BY <1>6
        <3>2. 1 < Len(rs[l]) => rs[l][1] < rs[l][Len(rs[l])]
            BY <1>6 DEF RunsOk
        <3>3. Len(rs[l]) = 1 \/ 1 < Len(rs[l])
            <4>1. Len(rs[l]) \in Nat /\ 1 <= Len(rs[l])
                BY <1>1, <1>6
            <4>2. \A x \in Nat : 1 <= x => x = 1 \/ 1 < x
                OBVIOUS
            <4> QED
                BY <4>1, <4>2, Zenon
        <3> QED
            BY <1>6, <3>1, <3>2, <3>3
    <2> QED
        BY <2>1, <2>2, <2>3, <2>4
<1>9. ASSUME NEW t \in Counted(said, i) PROVE \E m \in DOMAIN W : W[m][1] <= t /\ t <= W[m][2]
    <2>1. PICK l \in DOMAIN rs : \E j \in DOMAIN rs[l] : rs[l][j] = t /\ IsRealRun(said, rs[l])
        BY CountedIs
    <2>2. PICK j \in DOMAIN rs[l] : rs[l][j] = t /\ IsRealRun(said, rs[l])
        BY <2>1
    <2>3. PICK m \in DOMAIN W : W[m] = <<Head(rs[l]), Last(rs[l])>>
        BY <1>1, <1>5, <2>2 DEF WindowsSoFar
    <2>4. (1 < j => rs[l][1] < rs[l][j]) /\ (j < Len(rs[l]) => rs[l][j] < rs[l][Len(rs[l])])
        BY <1>6 DEF RunsOk
    <2>5. rs[l][1] \in Nat /\ rs[l][j] \in Nat /\ rs[l][Len(rs[l])] \in Nat
        BY <1>6
    <2>6. (1 < j \/ j = 1) /\ (j < Len(rs[l]) \/ j = Len(rs[l]))
        <3>1. j \in Nat /\ Len(rs[l]) \in Nat
            BY <1>1
        <3> QED
            BY <1>6, <3>1
    <2>7. rs[l][1] <= t /\ t <= rs[l][Len(rs[l])]
        BY <2>2, <2>4, <2>5, <2>6
    <2> QED
        BY <1>6, <2>3, <2>7
<1>10. ASSUME NEW m \in DOMAIN W, NEW q \in DOMAIN W, m < q
       PROVE  W[m][2] < W[q][1] /\ ~SameRun(said, i, W[m][2], W[q][1])
    <2>1. W[m][2] < W[q][1]
        BY <1>5, <1>10 DEF WindowsSoFar
    <2>2. PICK l \in DOMAIN rs : W[m][1] = Head(rs[l]) /\ W[m][2] = Last(rs[l])
        BY <1>7
    <2>3. PICK p \in DOMAIN rs : W[q][1] = Head(rs[p]) /\ W[q][2] = Last(rs[p])
        BY <1>7
    <2>4. rs[l][Len(rs[l])] < rs[p][1]
        BY <1>6, <2>1, <2>2, <2>3
    <2>5. rs[l][Len(rs[l])] \in Nat /\ rs[p][1] \in Nat /\ rs[l][Len(rs[l])] <= rs[p][1]
        BY <1>6, <2>4
    <2>6. SameRun(said, i, rs[l][Len(rs[l])], rs[p][1]) => l = p
        BY <1>6, <2>5, OneRun
    <2>7. l # p
        <3> SUFFICES ASSUME l = p PROVE FALSE
            OBVIOUS
        <3>1. Len(rs[l]) <= 1
            BY <1>6, <2>5, OneRun
        <3>2. Len(rs[l]) = 1
            <4>1. Len(rs[l]) \in Nat /\ 1 <= Len(rs[l])
                BY <1>1, <1>6
            <4>2. \A x \in Nat : 1 <= x /\ x <= 1 => x = 1
                OBVIOUS
            <4> QED
                BY <3>1, <4>1, <4>2, Zenon
        <3> QED
            BY <2>4, <2>5, <3>2
    <2> QED
        BY <1>6, <2>1, <2>2, <2>3, <2>6, <2>7
<1>11. W \in Seq(FramePairs(said))
    BY <1>5 DEF WindowsSoFar
<1> QED
    BY <1>8, <1>9, <1>10, <1>11 DEF WindowsOk, W

---------------------------------------------------------------------------
(* The scenes of merge_intervals *)

\* The first windows of scenes are those too far from the window before.
Breaks(W, gap, n) == n = 1 \/ W[n][1] > W[n - 1][2] + gap
Joined(W, gap, p, q) == \A n \in p + 1 .. q : ~Breaks(W, gap, n)

\* Of the first k windows, those from p to q make one scene.
Group(W, gap, k, p, q) ==
    /\ p <= q /\ Breaks(W, gap, p) /\ Joined(W, gap, p, q)
    /\ q = k \/ Breaks(W, gap, q + 1)

\* The numbers in windows that are in order.
LEMMA WindowNumbers ==
    ASSUME NEW said, DOMAIN said \subseteq Nat, NEW i, NEW W, WindowsOk(said, i, W)
    PROVE  /\ Len(W) \in Nat /\ DOMAIN W = 1 .. Len(W)
           /\ \A n \in DOMAIN W :
                /\ W[n] \in FramePairs(said) /\ W[n] = <<W[n][1], W[n][2]>>
                /\ W[n][1] \in DOMAIN said /\ W[n][2] \in DOMAIN said
                /\ W[n][1] \in Nat /\ W[n][2] \in Nat
                /\ W[n][1] <= W[n][2]
           /\ \A n, m \in DOMAIN W : n < m => W[n][2] < W[m][1] /\ W[n][2] < W[m][2]
<1>1. W \in Seq(FramePairs(said))
    BY DEF WindowsOk
<1>2. Len(W) \in Nat /\ DOMAIN W = 1 .. Len(W) /\ \A n \in DOMAIN W : W[n] \in FramePairs(said)
    BY <1>1
<1>3. ASSUME NEW n \in DOMAIN W
      PROVE  /\ W[n] = <<W[n][1], W[n][2]>> /\ W[n][1] \in DOMAIN said /\ W[n][2] \in DOMAIN said
             /\ W[n][1] \in Nat /\ W[n][2] \in Nat
    <2>1. W[n] \in (DOMAIN said) \X (DOMAIN said)
        BY <1>2 DEF FramePairs
    <2> QED
        BY <2>1
<1>4. \A n \in DOMAIN W : W[n][1] <= W[n][2]
    BY DEF WindowsOk
<1>5. \A n, m \in DOMAIN W : n < m => W[n][2] < W[m][1]
    BY DEF WindowsOk
<1>6. ASSUME NEW n \in DOMAIN W, NEW m \in DOMAIN W, n < m PROVE W[n][2] < W[m][2]
    <2>1. W[n][2] < W[m][1] /\ W[m][1] <= W[m][2]
        BY <1>4, <1>5, <1>6
    <2> QED
        BY <1>3, <2>1
<1> QED
    BY <1>2, <1>3, <1>4, <1>5, <1>6

\* What merge_intervals has after k windows: the scenes they make, the last of which may go on.
GroupsSoFar(said, W, gap, M, k) ==
    /\ M \in Seq(FramePairs(said))
    /\ \A j \in DOMAIN M : \E p, q \in 1 .. k :
         Group(W, gap, k, p, q) /\ M[j] = <<W[p][1], W[q][2]>> /\ (q = k <=> j = Len(M))
    /\ \A p, q \in 1 .. k : Group(W, gap, k, p, q) =>
         \E j \in DOMAIN M : M[j] = <<W[p][1], W[q][2]>> /\ (q = k <=> j = Len(M))
    /\ k > 0 => M # <<>>

\* After a window too far away the scenes are those before it, and the one it begins.
LEMMA GroupsAtBreak ==
    ASSUME NEW W, NEW gap, NEW k \in Nat \ {0}, Breaks(W, gap, k),
           NEW p \in 1 .. k, NEW q \in 1 .. k
    PROVE  Group(W, gap, k, p, q) <=>
             \/ p = k /\ q = k
             \/ p \in 1 .. (k - 1) /\ q \in 1 .. (k - 1) /\ Group(W, gap, k - 1, p, q)
<1>1. CASE q = k
    <2>1. p # k => k \in p + 1 .. k
        OBVIOUS
    <2>2. k + 1 .. k = {}
        OBVIOUS
    <2>3. k \notin 1 .. (k - 1) /\ p <= k
        OBVIOUS
    <2> QED
        BY <1>1, <2>1, <2>2, <2>3 DEF Group, Joined
<1>2. CASE q # k
    <2>1. q \in 1 .. (k - 1) /\ (p <= q => p \in 1 .. (k - 1))
        BY <1>2
    <2>2. q = k - 1 => Breaks(W, gap, q + 1)
        OBVIOUS
    <2> QED
        BY <1>2, <2>1, <2>2 DEF Group
<1> QED
    BY <1>1, <1>2

\* After a window that is close the last scene goes on.
LEMMA GroupsGoOn ==
    ASSUME NEW W, NEW gap, NEW k \in Nat \ {0}, ~Breaks(W, gap, k),
           NEW p \in 1 .. k, NEW q \in 1 .. k
    PROVE  Group(W, gap, k, p, q) <=>
             /\ p \in 1 .. (k - 1)
             /\ \/ q = k /\ k - 1 \in 1 .. (k - 1) /\ Group(W, gap, k - 1, p, k - 1)
                \/ q \in 1 .. (k - 1) /\ q # k - 1 /\ Group(W, gap, k - 1, p, q)
<1>1. k # 1
    BY DEF Breaks
<1>2. CASE q = k
    <2>1. CASE p = k
        BY <1>2, <2>1 DEF Group
    <2>2. CASE p # k
        <3>1. p \in 1 .. (k - 1) /\ p <= k - 1 /\ p <= k /\ k - 1 \in 1 .. (k - 1) /\ k \notin 1 .. (k - 1)
            BY <1>1, <2>2
        <3>2. \A n : n \in p + 1 .. k <=> n \in p + 1 .. (k - 1) \/ n = k
            BY <3>1
        <3>3. Joined(W, gap, p, k) <=> Joined(W, gap, p, k - 1)
            BY <3>2 DEF Joined
        <3> QED
            BY <1>2, <3>1, <3>3 DEF Group
    <2> QED
        BY <2>1, <2>2
<1>3. CASE q # k
    <2>1. q \in 1 .. (k - 1) /\ (p <= q => p \in 1 .. (k - 1))
        BY <1>3
    <2>2. q = k - 1 => ~Breaks(W, gap, q + 1)
        OBVIOUS
    <2> QED
        BY <1>3, <2>1, <2>2 DEF Group
<1> QED
    BY <1>2, <1>3

\* One more window begins a scene, or the last one goes on to its end.
LEMMA NextWindowKeeps ==
    ASSUME NEW said, DOMAIN said \subseteq Nat, NEW i, NEW W, WindowsOk(said, i, W),
           NEW gap \in Nat, NEW k \in DOMAIN W, NEW M, GroupsSoFar(said, W, gap, M, k - 1)
    PROVE  GroupsSoFar(said, W, gap, NextWindow(gap, M, W[k]), k)
<1> DEFINE P == FramePairs(said)
           r == Len(M)
           next == NextWindow(gap, M, W[k])
<1>1. /\ Len(W) \in Nat /\ DOMAIN W = 1 .. Len(W) /\ k \in Nat /\ k >= 1 /\ k \in Nat \ {0}
      /\ 1 .. k \subseteq DOMAIN W /\ 1 .. (k - 1) \subseteq 1 .. k /\ k \notin 1 .. (k - 1) /\ k \in 1 .. k
    <2>1. Len(W) \in Nat /\ DOMAIN W = 1 .. Len(W)
        BY WindowNumbers
    <2> QED
        BY <2>1
<1>2. M \in Seq(P) /\ r \in Nat /\ DOMAIN M = 1 .. r
    <2>1. M \in Seq(P)
        BY DEF GroupsSoFar
    <2> HIDE DEF P
    <2> QED
        BY <2>1
<1>3. /\ k = 1 => M = <<>>
      /\ k > 1 => M # <<>> /\ r > 0
    <2>1. ASSUME k = 1 PROVE M = <<>>
        <3>1. ASSUME NEW j \in DOMAIN M PROVE FALSE
            <4>1. PICK p \in 1 .. (k - 1) : TRUE
                BY DEF GroupsSoFar
            <4> QED
                BY <2>1, <4>1
        <3>2. DOMAIN M = {}
            BY <3>1
        <3> HIDE DEF P
        <3> QED
            BY <1>2, <3>2
    <2>2. ASSUME k > 1 PROVE M # <<>>
        <3>1. k - 1 > 0
            BY <1>1, <2>2
        <3> QED
            BY <3>1 DEF GroupsSoFar
    <2>3. M # <<>> => r > 0
        <3> HIDE DEF P
        <3> QED
            BY <1>2
    <2> QED
        BY <2>1, <2>2, <2>3
\* The last scene ends where the window before does.
<1>4. ASSUME k > 1
      PROVE  /\ r \in DOMAIN M /\ Last(M) = M[r] /\ k - 1 \in DOMAIN W
             /\ \E p \in 1 .. (k - 1) : M[r] = <<W[p][1], W[k - 1][2]>> /\ Group(W, gap, k - 1, p, k - 1)
    <2>1. r \in DOMAIN M /\ Last(M) = M[r] /\ k - 1 \in DOMAIN W
        BY <1>1, <1>2, <1>3, <1>4 DEF Last
    <2>2. PICK p \in 1 .. (k - 1) : \E q \in 1 .. (k - 1) :
             Group(W, gap, k - 1, p, q) /\ M[r] = <<W[p][1], W[q][2]>> /\ (q = k - 1 <=> r = Len(M))
        BY <2>1 DEF GroupsSoFar
    <2> QED
        BY <2>1, <2>2
<1>5. W[k] \in P /\ W[k] = <<W[k][1], W[k][2]>>
    BY WindowNumbers
<1>6. Breaks(W, gap, k) <=> M = <<>> \/ W[k][1] > Last(M)[2] + gap
    <2>1. CASE k = 1
        BY <1>3, <2>1 DEF Breaks
    <2>2. CASE k > 1
        <3>1. Last(M)[2] = W[k - 1][2]
            BY <1>4, <2>2
        <3> QED
            BY <1>3, <2>2, <3>1 DEF Breaks
    <2> QED
        BY <1>1, <2>1, <2>2
<1>7. CASE Breaks(W, gap, k)
    <2>1. next = Append(M, W[k])
        BY <1>6, <1>7 DEF NextWindow
    <2> HIDE DEF next, P
    <2>2. /\ next \in Seq(P) /\ DOMAIN next = 1 .. r + 1 /\ Len(next) = r + 1 /\ next # <<>>
          /\ next[r + 1] = W[k] /\ \A j \in DOMAIN M : next[j] = M[j] /\ j \in DOMAIN next /\ j # r + 1
          /\ \A j \in DOMAIN next : j \in DOMAIN M \/ j = r + 1
          /\ r + 1 \in DOMAIN next
        BY <1>2, <1>5, <2>1
    <2> HIDE DEF r
    <2>3. ASSUME NEW j \in DOMAIN next
          PROVE  \E p, q \in 1 .. k :
                   Group(W, gap, k, p, q) /\ next[j] = <<W[p][1], W[q][2]>> /\ (q = k <=> j = Len(next))
        <3>1. CASE j \in DOMAIN M
            <4>1. PICK p \in 1 .. (k - 1), q \in 1 .. (k - 1) :
                    Group(W, gap, k - 1, p, q) /\ M[j] = <<W[p][1], W[q][2]>>
                BY <3>1 DEF GroupsSoFar
            <4>2. p \in 1 .. k /\ q \in 1 .. k /\ q # k
                BY <1>1
            <4>3. Group(W, gap, k, p, q)
                BY <1>1, <1>7, <4>1, <4>2, GroupsAtBreak
            <4> QED
                BY <2>2, <3>1, <4>1, <4>2, <4>3
        <3>2. CASE j = r + 1
            <4>1. Group(W, gap, k, k, k)
                BY <1>1, <1>7, GroupsAtBreak
            <4> QED
                BY <1>1, <1>5, <2>2, <3>2, <4>1
        <3> QED
            BY <2>2, <3>1, <3>2
    <2>4. ASSUME NEW p \in 1 .. k, NEW q \in 1 .. k, Group(W, gap, k, p, q)
          PROVE  \E j \in DOMAIN next : next[j] = <<W[p][1], W[q][2]>> /\ (q = k <=> j = Len(next))
        <3>1. \/ p = k /\ q = k
              \/ p \in 1 .. (k - 1) /\ q \in 1 .. (k - 1) /\ Group(W, gap, k - 1, p, q)
            BY <1>1, <1>7, <2>4, GroupsAtBreak
        <3>2. CASE p = k /\ q = k
            BY <1>5, <2>2, <3>2
        <3>3. CASE p \in 1 .. (k - 1) /\ q \in 1 .. (k - 1) /\ Group(W, gap, k - 1, p, q)
            <4>1. PICK j \in DOMAIN M : M[j] = <<W[p][1], W[q][2]>>
                BY <3>3 DEF GroupsSoFar
            <4> QED
                BY <1>1, <2>2, <3>3, <4>1
        <3> QED
            BY <3>1, <3>2, <3>3
    <2> QED
        BY <2>2, <2>3, <2>4 DEF GroupsSoFar, next, P
<1>8. CASE ~Breaks(W, gap, k)
    <2>1. k > 1 /\ k # 1 /\ M # <<>>
        BY <1>1, <1>3, <1>8 DEF Breaks
    <2>2. PICK s \in 1 .. (k - 1) : M[r] = <<W[s][1], W[k - 1][2]>> /\ Group(W, gap, k - 1, s, k - 1)
        BY <1>4, <2>1
    <2>3. r \in DOMAIN M /\ Last(M) = M[r] /\ k - 1 \in DOMAIN W /\ s \in DOMAIN W /\ k - 1 \in 1 .. (k - 1)
          /\ s \in 1 .. k
        BY <1>1, <1>4, <2>1
    <2> DEFINE v == <<W[s][1], W[k][2]>>
    <2>4. W[k - 1][2] < W[k][2] /\ W[k][2] \in Nat /\ W[k - 1][2] \in Nat
          /\ W[s][1] \in DOMAIN said /\ W[k][2] \in DOMAIN said
        BY <1>1, <2>3, WindowNumbers
    <2>5. M[r][1] = W[s][1] /\ M[r][2] = W[k - 1][2]
        BY <2>2
    <2>6. next = [M EXCEPT ![r] = v]
        BY <1>6, <1>8, <2>1, <2>3, <2>4, <2>5 DEF NextWindow
    <2>7. v \in P
        BY <2>4 DEF FramePairs
    <2> HIDE DEF next, P, v
    <2>8. /\ next \in Seq(P) /\ DOMAIN next = 1 .. r /\ Len(next) = r /\ next # <<>>
          /\ next[r] = v /\ \A j \in DOMAIN M : j # r => next[j] = M[j]
        BY <1>2, <2>3, <2>6, <2>7
    <2>9. DOMAIN next = DOMAIN M
        BY <1>2, <2>8
    <2> HIDE DEF r
    <2>10. ASSUME NEW j \in DOMAIN next
          PROVE  \E p, q \in 1 .. k :
                   Group(W, gap, k, p, q) /\ next[j] = <<W[p][1], W[q][2]>> /\ (q = k <=> j = Len(next))
        <3>1. CASE j # r
            <4>1. PICK p \in 1 .. (k - 1), q \in 1 .. (k - 1) :
                    /\ Group(W, gap, k - 1, p, q) /\ M[j] = <<W[p][1], W[q][2]>>
                    /\ (q = k - 1 <=> j = r)
                BY <2>9 DEF GroupsSoFar, r
            <4>2. p \in 1 .. k /\ q \in 1 .. k /\ q # k /\ q # k - 1
                BY <1>1, <3>1, <4>1
            <4>3. Group(W, gap, k, p, q)
                BY <1>1, <1>8, <4>1, <4>2, GroupsGoOn
            <4> QED
                BY <2>8, <2>9, <3>1, <4>1, <4>2, <4>3
        <3>2. CASE j = r
            <4>1. Group(W, gap, k, s, k)
                BY <1>1, <1>8, <2>2, <2>3, GroupsGoOn
            <4> QED
                BY <1>1, <2>3, <2>8, <3>2, <4>1 DEF v
        <3> QED
            BY <3>1, <3>2
    <2>11. ASSUME NEW p \in 1 .. k, NEW q \in 1 .. k, Group(W, gap, k, p, q)
          PROVE  \E j \in DOMAIN next : next[j] = <<W[p][1], W[q][2]>> /\ (q = k <=> j = Len(next))
        <3>1. /\ p \in 1 .. (k - 1)
              /\ \/ q = k /\ Group(W, gap, k - 1, p, k - 1)
                 \/ q \in 1 .. (k - 1) /\ q # k - 1 /\ Group(W, gap, k - 1, p, q)
            BY <1>1, <1>8, <2>11, GroupsGoOn
        <3>2. CASE q = k /\ Group(W, gap, k - 1, p, k - 1)
            <4>1. PICK j \in DOMAIN M : M[j] = <<W[p][1], W[k - 1][2]>> /\ (k - 1 = k - 1 <=> j = r)
                BY <2>3, <3>1, <3>2 DEF GroupsSoFar, r
            <4>2. j = r /\ M[r][1] = W[p][1]
                BY <4>1
            <4> QED
                BY <2>3, <2>5, <2>8, <2>9, <3>2, <4>2 DEF v
        <3>3. CASE q \in 1 .. (k - 1) /\ q # k - 1 /\ Group(W, gap, k - 1, p, q)
            <4>1. PICK j \in DOMAIN M : M[j] = <<W[p][1], W[q][2]>> /\ (q = k - 1 <=> j = r)
                BY <3>1, <3>3 DEF GroupsSoFar, r
            <4> QED
                BY <1>1, <2>8, <2>9, <3>3, <4>1
        <3> QED
            BY <3>1, <3>2, <3>3
    <2> QED
        BY <2>8, <2>10, <2>11 DEF GroupsSoFar, next, P
<1> QED
    BY <1>7, <1>8

\* merge_intervals makes the scenes of its windows.
LEMMA MergedAre ==
    ASSUME NEW said, DOMAIN said \subseteq Nat, NEW i, NEW W, WindowsOk(said, i, W), NEW gap \in Nat
    PROVE  GroupsSoFar(said, W, gap, MergeIntervals(W, gap), Len(W))
<1> DEFINE S == DOMAIN said
           n == Len(W)
<1>1. W \in Seq(S \X S) /\ n \in Nat /\ DOMAIN W = 1 .. n
    <2>1. W \in Seq(FramePairs(said)) /\ FramePairs(said) = S \X S
        BY DEF WindowsOk, FramePairs
    <2> QED
        BY <2>1, WindowNumbers
<1>2. PICK g : WindowsMerged(g, gap, W, n)
    <2> HIDE DEF S
    <2> QED
        BY <1>1, MergeUnfolds
<1> DEFINE Wrong == {k \in Nat : k <= n /\ ~GroupsSoFar(said, W, gap, g[k], k)}
<1> HIDE DEF n
<1>3. GroupsSoFar(said, W, gap, g[0], 0)
    <2>1. g[0] = <<>> /\ <<>> \in Seq(FramePairs(said)) /\ DOMAIN <<>> = {}
        BY <1>2 DEF WindowsMerged
    <2>2. \A l : l \notin 1 .. 0
        OBVIOUS
    <2>3. ~(0 > 0)
        OBVIOUS
    <2> HIDE DEF S
    <2> QED
        BY <2>1, <2>2, <2>3, Zenon DEF GroupsSoFar
<1>4. Wrong = {}
    <2> SUFFICES ASSUME Wrong # {} PROVE FALSE
        OBVIOUS
    <2>1. PICK k \in Wrong : \A j \in Wrong : k <= j
        <3>1. Wrong \in SUBSET Nat
            OBVIOUS
        <3> HIDE DEF Wrong
        <3> QED
            BY <3>1, LeastElement
    <2>2. k \in Nat /\ k <= n /\ ~GroupsSoFar(said, W, gap, g[k], k) /\ k # 0
        BY <1>3
    <2>3. k \in 1 .. n /\ k - 1 \in Nat /\ k - 1 <= n /\ k - 1 \notin Wrong
        <3> HIDE DEF Wrong
        <3> QED
            BY <1>1, <2>1, <2>2
    <2>4. GroupsSoFar(said, W, gap, g[k - 1], k - 1) /\ g[k] = NextWindow(gap, g[k - 1], W[k]) /\ k \in DOMAIN W
        BY <1>1, <1>2, <2>3 DEF WindowsMerged
    <2> QED
        BY <2>2, <2>4, NextWindowKeeps
<1> QED
    BY <1>1, <1>2, <1>4 DEF WindowsMerged, n

\* A frame that counts may follow another that does in a scene.
Near(said, i, gap, u, t) == u < t /\ (SameRun(said, i, u, t) \/ t <= u + gap)
InOneScene(said, i, gap, a, b) ==
    \A t \in Counted(said, i) : a < t /\ t <= b =>
        \E u \in Counted(said, i) : a <= u /\ Near(said, i, gap, u, t)

\* The reference, in terms of these.
LEMMA ReferenceIs ==
    ASSUME NEW said, NEW i, NEW gap, NEW a, NEW b
    PROVE  <<a, b>> \in ReferenceScenes(said, i, gap) <=>
             /\ a \in Counted(said, i) /\ b \in Counted(said, i) /\ a <= b
             /\ InOneScene(said, i, gap, a, b)
             /\ \A t \in Counted(said, i) :
                  /\ t < a => ~InOneScene(said, i, gap, t, a)
                  /\ t > b => ~InOneScene(said, i, gap, b, t)
<1> DEFINE C == Counted(said, i)
           near == {w \in C \X C :
                      w[1] < w[2] /\ (SameRun(said, i, w[1], w[2]) \/ w[2] <= w[1] + gap)}
           OneScene(x, y) == \A t \in C : x < t /\ t <= y => \E u \in C : x <= u /\ <<u, t>> \in near
<1>1. \A u, t \in C : <<u, t>> \in near <=> Near(said, i, gap, u, t)
    BY DEF Near
<1>2. ASSUME NEW x, NEW y PROVE OneScene(x, y) <=> InOneScene(said, i, gap, x, y)
    <2> HIDE DEF near, C
    <2> QED
        BY <1>1 DEF InOneScene, C
<1>3. ReferenceScenes(said, i, gap) =
        {w \in C \X C : /\ w[1] <= w[2] /\ OneScene(w[1], w[2])
                        /\ \A t \in C : /\ t < w[1] => ~OneScene(t, w[1])
                                        /\ t > w[2] => ~OneScene(w[2], t)}
    BY DEF ReferenceScenes
<1> HIDE DEF near, OneScene
<1>4. <<a, b>> \in ReferenceScenes(said, i, gap) <=>
        /\ a \in C /\ b \in C /\ a <= b /\ OneScene(a, b)
        /\ \A t \in C : /\ t < a => ~OneScene(t, a)
                        /\ t > b => ~OneScene(b, t)
    <2> HIDE DEF C
    <2> QED
        BY <1>3
<1> QED
    BY <1>2, <1>4

\* Frames of different windows are of different runs.
LEMMA WindowsApart ==
    ASSUME NEW said, DOMAIN said \subseteq Nat, NEW i \in Nat, NEW W, WindowsOk(said, i, W),
           NEW n \in DOMAIN W, NEW m \in DOMAIN W,
           NEW u \in DOMAIN said, NEW t \in DOMAIN said,
           W[n][1] <= u, u <= W[n][2], W[m][1] <= t, t <= W[m][2], u <= t
    PROVE  /\ n <= m
           /\ n = m <=> SameRun(said, i, u, t)
<1>1. /\ u \in Nat /\ t \in Nat /\ n \in Nat /\ m \in Nat
      /\ W[n][1] \in Nat /\ W[n][2] \in Nat /\ W[m][1] \in Nat /\ W[m][2] \in Nat
      /\ W[n][1] \in DOMAIN said /\ W[n][2] \in DOMAIN said /\ W[m][1] \in DOMAIN said
    BY WindowNumbers
<1>2. ~(m < n)
    <2>1. m < n => W[m][2] < W[n][1]
        BY WindowNumbers
    <2> QED
        BY <1>1, <2>1
<1>3. ASSUME n = m PROVE SameRun(said, i, u, t)
    <2>1. SameRun(said, i, W[n][1], W[n][2])
        BY DEF WindowsOk
    <2>2. W[n][1] <= t /\ t <= W[n][2]
        BY <1>3
    <2>3. SameRun(said, i, W[n][1], t)
        BY <1>1, <2>1, <2>2, SameRunParts
    <2> QED
        BY <1>1, <2>3, SameRunParts
<1>4. ASSUME n < m, SameRun(said, i, u, t) PROVE FALSE
    <2>1. W[n][2] < W[m][1] /\ ~SameRun(said, i, W[n][2], W[m][1])
        BY <1>4 DEF WindowsOk
    <2>2. W[n][2] <= W[m][1] /\ W[n][2] <= t /\ u <= W[n][2]
        BY <1>1, <2>1
    <2>3. SameRun(said, i, W[n][2], t)
        BY <1>1, <1>4, <2>2, SameRunParts
    <2>4. SameRun(said, i, W[n][2], W[m][1])
        BY <1>1, <2>2, <2>3, SameRunParts
    <2> QED
        BY <2>1, <2>4
<1> QED
    BY <1>1, <1>2, <1>3, <1>4

\* Two frames that count are in one scene when no window between them begins one.
LEMMA OneSceneIs ==
    ASSUME NEW said, DOMAIN said \subseteq Nat, NEW i \in Nat, NEW W, WindowsOk(said, i, W), NEW gap \in Nat,
           NEW p \in DOMAIN W, NEW q \in DOMAIN W,
           NEW a \in Counted(said, i), NEW b \in Counted(said, i),
           W[p][1] <= a, a <= W[p][2], W[q][1] <= b, b <= W[q][2], a <= b
    PROVE  InOneScene(said, i, gap, a, b) <=> Joined(W, gap, p, q)
<1> DEFINE C == Counted(said, i)
<1>1. /\ DOMAIN W = 1 .. Len(W) /\ Len(W) \in Nat /\ p \in Nat /\ q \in Nat
      /\ \A n \in DOMAIN W : n \in Nat /\ W[n][1] \in Nat /\ W[n][2] \in Nat /\ W[n][1] <= W[n][2]
      /\ \A n, m \in DOMAIN W : n < m => W[n][2] < W[m][1] /\ W[n][2] < W[m][2]
    BY WindowNumbers
<1>2. C \subseteq DOMAIN said /\ C \subseteq Nat
    BY DEF Counted
<1>3. \A n \in DOMAIN W : W[n][1] \in C /\ W[n][2] \in C
    BY DEF WindowsOk
<1>4. \A t \in C : \E n \in DOMAIN W : W[n][1] <= t /\ t <= W[n][2]
    BY DEF WindowsOk
<1>5. ASSUME NEW u \in C, NEW t \in C, NEW n \in DOMAIN W, NEW m \in DOMAIN W, u <= t,
             W[n][1] <= u, u <= W[n][2], W[m][1] <= t, t <= W[m][2]
      PROVE  n <= m /\ (n = m <=> SameRun(said, i, u, t))
    <2> HIDE DEF C
    <2>1. u \in DOMAIN said /\ t \in DOMAIN said
        BY <1>2
    <2> QED
        BY <1>5, <2>1, WindowsApart
<1> HIDE DEF C
<1>6. p <= q /\ a \in C /\ b \in C /\ a \in Nat /\ b \in Nat
    <2>1. a \in C /\ b \in C
        BY DEF C
    <2> QED
        BY <1>2, <1>5, <2>1
<1>7. ASSUME InOneScene(said, i, gap, a, b), NEW n \in p + 1 .. q PROVE ~Breaks(W, gap, n)
    <2>1. n \in DOMAIN W /\ n - 1 \in DOMAIN W /\ p < n /\ n <= q /\ n # 1 /\ n \in Nat
        BY <1>1
    <2>2. a < W[n][1]
        BY <1>1, <1>6, <2>1
    <2>12. /\ W[n][1] \in Nat /\ W[n][2] \in Nat /\ W[n][1] <= W[n][2]
           /\ W[q][1] \in Nat /\ W[n - 1][2] \in Nat
        BY <1>1, <2>1
    <2>3. W[n][1] <= b
        <3>1. n < q => W[n][2] < W[q][1]
            BY <1>1, <2>1
        <3>2. n = q \/ n < q
            BY <1>1, <2>1
        <3>3. CASE n = q
            BY <3>3
        <3>4. CASE n < q
            BY <1>6, <2>12, <3>1, <3>4
        <3> QED
            BY <3>2, <3>3, <3>4
    <2>4. PICK u \in C : a <= u /\ Near(said, i, gap, u, W[n][1])
        BY <1>3, <1>7, <2>1, <2>2, <2>3 DEF InOneScene, C
    <2>5. PICK m \in DOMAIN W : W[m][1] <= u /\ u <= W[m][2]
        BY <1>4
    <2>6. u < W[n][1] /\ u \in Nat /\ W[n][1] <= W[n][1] /\ W[n][1] <= W[n][2] /\ u <= W[n][1] /\ W[n][1] \in Nat
        BY <1>1, <1>2, <2>1, <2>4 DEF Near
    <2>7. m <= n /\ (m = n <=> SameRun(said, i, u, W[n][1]))
        BY <1>3, <1>5, <2>1, <2>5, <2>6
    <2>8. m # n /\ m < n /\ m \in Nat
        BY <1>1, <2>1, <2>5, <2>6, <2>7
    <2>9. W[n][1] <= u + gap
        BY <2>4, <2>7, <2>8 DEF Near
    <2>10. W[m][2] <= W[n - 1][2]
        <3>1. m = n - 1 \/ m < n - 1
            BY <2>1, <2>8
        <3> QED
            BY <1>1, <2>1, <3>1
    <2>11. W[n][1] <= W[n - 1][2] + gap
        <3>1. W[m][2] \in Nat
            BY <1>1
        <3> QED
            BY <2>5, <2>6, <2>9, <2>10, <2>12, <3>1
    <2>13. ~(W[n][1] > W[n - 1][2] + gap)
        BY <2>11, <2>12
    <2> QED
        BY <2>1, <2>13 DEF Breaks
<1>8. ASSUME Joined(W, gap, p, q), NEW t \in C, a < t, t <= b
      PROVE  \E u \in C : a <= u /\ Near(said, i, gap, u, t)
    <2>1. PICK n \in DOMAIN W : W[n][1] <= t /\ t <= W[n][2]
        BY <1>4
    <2>2. t \in Nat /\ n \in Nat /\ a <= t /\ W[n][1] \in Nat
        BY <1>1, <1>2, <1>6, <1>8
    <2>3. p <= n /\ n <= q /\ (p = n <=> SameRun(said, i, a, t))
        BY <1>5, <1>6, <1>8, <2>1, <2>2
    <2>4. CASE n = p
        <3>1. a <= a /\ Near(said, i, gap, a, t)
            BY <1>6, <1>8, <2>3, <2>4 DEF Near
        <3> QED
            BY <1>6, <3>1
    <2>5. CASE n # p
        <3>1. p < n /\ n \in p + 1 .. q /\ n - 1 \in DOMAIN W /\ n # 1
            BY <1>1, <2>1, <2>2, <2>3, <2>5
        <3>2. a < W[n][1]
            BY <1>1, <1>6, <2>1, <3>1
        <3>3. CASE W[n][1] < t
            <4>1. SameRun(said, i, W[n][1], t)
                <5>1. W[n][1] <= t /\ W[n][1] <= W[n][1] /\ W[n][1] <= W[n][2] /\ W[n][1] \in C
                    BY <1>1, <1>3, <2>1, <2>2
                <5> QED
                    BY <1>5, <2>1, <5>1
            <4>2. a <= W[n][1] /\ Near(said, i, gap, W[n][1], t)
                BY <1>6, <2>2, <3>2, <3>3, <4>1 DEF Near
            <4> QED
                BY <1>3, <2>1, <4>2
        <3>4. CASE W[n][1] = t
            <4>1. W[n][1] <= W[n - 1][2] + gap
                <5>1. ~Breaks(W, gap, n)
                    BY <1>8, <3>1 DEF Joined
                <5>2. ~(W[n][1] > W[n - 1][2] + gap)
                    BY <3>1, <5>1 DEF Breaks
                <5>3. W[n - 1][2] \in Nat
                    BY <1>1, <3>1
                <5> QED
                    BY <2>2, <5>2, <5>3
            <4>2. n - 1 < n /\ W[n - 1][2] < W[n][1]
                BY <1>1, <2>1, <2>2, <3>1
            <4>3. a <= W[n - 1][2]
                <5>1. p = n - 1 \/ p < n - 1
                    BY <1>1, <2>2, <3>1
                <5> QED
                    BY <1>1, <1>6, <3>1, <5>1
            <4>4. Near(said, i, gap, W[n - 1][2], t)
                BY <3>4, <4>1, <4>2 DEF Near
            <4> QED
                BY <1>3, <3>1, <4>3, <4>4
        <3> QED
            BY <2>1, <2>2, <3>3, <3>4
    <2> QED
        BY <2>4, <2>5
<1> QED
    BY <1>7, <1>8 DEF InOneScene, C, Joined

\* A scene of the reference goes from the first frame of a group to the last, and back.
LEMMA GroupsAreScenes ==
    ASSUME NEW said, DOMAIN said \subseteq Nat, NEW i \in Nat, NEW W, WindowsOk(said, i, W), NEW gap \in Nat,
           NEW p \in DOMAIN W, NEW q \in DOMAIN W, Group(W, gap, Len(W), p, q)
    PROVE  <<W[p][1], W[q][2]>> \in ReferenceScenes(said, i, gap)
<1> DEFINE C == Counted(said, i)
<1>1. /\ DOMAIN W = 1 .. Len(W) /\ Len(W) \in Nat /\ p \in Nat /\ q \in Nat
      /\ \A n \in DOMAIN W : n \in Nat /\ W[n][1] \in Nat /\ W[n][2] \in Nat /\ W[n][1] <= W[n][2]
      /\ \A n, m \in DOMAIN W : n < m => W[n][2] < W[m][1] /\ W[n][2] < W[m][2]
    BY WindowNumbers
<1>2. C \subseteq DOMAIN said /\ C \subseteq Nat
    BY DEF Counted
<1>3. \A n \in DOMAIN W : W[n][1] \in C /\ W[n][2] \in C
    BY DEF WindowsOk
<1>4. \A t \in C : \E n \in DOMAIN W : W[n][1] <= t /\ t <= W[n][2]
    BY DEF WindowsOk
<1>5. ASSUME NEW u \in C, NEW t \in C, NEW n \in DOMAIN W, NEW m \in DOMAIN W, u <= t,
             W[n][1] <= u, u <= W[n][2], W[m][1] <= t, t <= W[m][2]
      PROVE  n <= m /\ (InOneScene(said, i, gap, u, t) <=> Joined(W, gap, n, m))
    <2>1. u \in DOMAIN said /\ t \in DOMAIN said
        BY <1>2
    <2> QED
        BY <1>5, <2>1, WindowsApart, OneSceneIs
<1> HIDE DEF C
<1>6. p <= q /\ Breaks(W, gap, p) /\ Joined(W, gap, p, q) /\ (q = Len(W) \/ Breaks(W, gap, q + 1))
    BY DEF Group
<1>7. /\ W[p][1] \in Nat /\ W[p][2] \in Nat /\ W[q][1] \in Nat /\ W[q][2] \in Nat
      /\ W[p][1] <= W[p][2] /\ W[q][1] <= W[q][2]
      /\ W[p][1] \in C /\ W[q][2] \in C
      /\ W[p][1] <= W[p][1] /\ W[q][2] <= W[q][2]
    BY <1>1, <1>3
<1>8. W[p][1] <= W[q][2]
    <2>1. p = q \/ p < q
        BY <1>1, <1>6
    <2>2. p < q => W[p][2] < W[q][2]
        BY <1>1
    <2> QED
        BY <1>7, <2>1, <2>2
<1>9. InOneScene(said, i, gap, W[p][1], W[q][2])
    BY <1>5, <1>6, <1>7, <1>8
<1>10. ASSUME NEW t \in C, t < W[p][1] PROVE ~InOneScene(said, i, gap, t, W[p][1])
    <2>1. PICK m \in DOMAIN W : W[m][1] <= t /\ t <= W[m][2]
        BY <1>4
    <2>2. t \in Nat /\ t <= W[p][1] /\ m \in Nat /\ W[m][1] \in Nat
        BY <1>1, <1>2, <1>7, <1>10
    <2>3. m <= p /\ (InOneScene(said, i, gap, t, W[p][1]) <=> Joined(W, gap, m, p))
        BY <1>5, <1>7, <2>1, <2>2
    <2>4. m # p
        BY <1>7, <1>10, <2>1, <2>2
    <2>5. p \in m + 1 .. p
        BY <1>1, <2>2, <2>3, <2>4
    <2> QED
        BY <1>6, <2>3, <2>5 DEF Joined
<1>11. ASSUME NEW t \in C, t > W[q][2] PROVE ~InOneScene(said, i, gap, W[q][2], t)
    <2>1. PICK m \in DOMAIN W : W[m][1] <= t /\ t <= W[m][2]
        BY <1>4
    <2>2. t \in Nat /\ W[q][2] <= t /\ m \in Nat /\ W[m][2] \in Nat /\ m <= Len(W)
        BY <1>1, <1>2, <1>7, <1>11, <2>1
    <2>3. q <= m /\ (InOneScene(said, i, gap, W[q][2], t) <=> Joined(W, gap, q, m))
        BY <1>5, <1>7, <2>1, <2>2
    <2>4. m # q
        BY <1>7, <1>11, <2>1, <2>2
    <2>5. q + 1 \in q + 1 .. m /\ q # Len(W)
        BY <1>1, <2>2, <2>3, <2>4
    <2> QED
        BY <1>6, <2>3, <2>5 DEF Joined
<1> QED
    BY <1>7, <1>8, <1>9, <1>10, <1>11, ReferenceIs DEF C

\* A scene of the reference begins where one window does and ends where one does, no window
\* between them begins a scene, and the one after it does.
LEMMA ScenesAreGroups ==
    ASSUME NEW said, DOMAIN said \subseteq Nat, NEW i \in Nat, NEW W, WindowsOk(said, i, W), NEW gap \in Nat,
           NEW a, NEW b, <<a, b>> \in ReferenceScenes(said, i, gap)
    PROVE  \E p, q \in DOMAIN W : a = W[p][1] /\ b = W[q][2] /\ Group(W, gap, Len(W), p, q)
<1> DEFINE C == Counted(said, i)
<1>1. /\ DOMAIN W = 1 .. Len(W) /\ Len(W) \in Nat
      /\ \A n \in DOMAIN W : n \in Nat /\ W[n][1] \in Nat /\ W[n][2] \in Nat /\ W[n][1] <= W[n][2]
      /\ \A n, m \in DOMAIN W : n < m => W[n][2] < W[m][1] /\ W[n][2] < W[m][2]
    BY WindowNumbers
<1>2. C \subseteq DOMAIN said /\ C \subseteq Nat
    BY DEF Counted
<1>3. \A n \in DOMAIN W : W[n][1] \in C /\ W[n][2] \in C
    BY DEF WindowsOk
<1>4. \A t \in C : \E n \in DOMAIN W : W[n][1] <= t /\ t <= W[n][2]
    BY DEF WindowsOk
<1>5. ASSUME NEW u \in C, NEW t \in C, NEW n \in DOMAIN W, NEW m \in DOMAIN W, u <= t,
             W[n][1] <= u, u <= W[n][2], W[m][1] <= t, t <= W[m][2]
      PROVE  n <= m /\ (InOneScene(said, i, gap, u, t) <=> Joined(W, gap, n, m))
    <2>1. u \in DOMAIN said /\ t \in DOMAIN said
        BY <1>2
    <2> QED
        BY <1>5, <2>1, WindowsApart, OneSceneIs
<1>6. /\ a \in C /\ b \in C /\ a <= b /\ InOneScene(said, i, gap, a, b)
      /\ \A t \in C : /\ t < a => ~InOneScene(said, i, gap, t, a)
                      /\ t > b => ~InOneScene(said, i, gap, b, t)
    BY ReferenceIs
<1> HIDE DEF C
<1>7. PICK p \in DOMAIN W : W[p][1] <= a /\ a <= W[p][2]
    BY <1>4, <1>6
<1>8. PICK q \in DOMAIN W : W[q][1] <= b /\ b <= W[q][2]
    BY <1>4, <1>6
<1>9. p <= q /\ Joined(W, gap, p, q)
    BY <1>5, <1>6, <1>7, <1>8
<1>10. /\ a \in Nat /\ b \in Nat /\ p \in Nat /\ q \in Nat /\ p >= 1 /\ q <= Len(W)
       /\ W[p][1] \in Nat /\ W[p][2] \in Nat /\ W[q][1] \in Nat /\ W[q][2] \in Nat
       /\ W[p][1] \in C /\ W[q][2] \in C
       /\ W[p][1] <= W[p][1] /\ W[q][2] <= W[q][2]
       /\ W[p][1] <= W[p][2] /\ W[q][1] <= W[q][2]
    BY <1>1, <1>2, <1>3, <1>6
<1>11. Joined(W, gap, p, p) /\ Joined(W, gap, q, q)
    <2>1. \A n : n \notin p + 1 .. p /\ n \notin q + 1 .. q
        BY <1>10
    <2> QED
        BY <2>1 DEF Joined
<1>12. a = W[p][1]
    <2>1. InOneScene(said, i, gap, W[p][1], a)
        BY <1>5, <1>6, <1>7, <1>10, <1>11
    <2>2. ~(W[p][1] < a)
        BY <1>6, <1>10, <2>1
    <2> QED
        BY <1>7, <1>10, <2>2
<1>13. b = W[q][2]
    <2>1. InOneScene(said, i, gap, b, W[q][2])
        BY <1>5, <1>6, <1>8, <1>10, <1>11
    <2>2. ~(W[q][2] > b)
        BY <1>6, <1>10, <2>1
    <2> QED
        BY <1>8, <1>10, <2>2
<1>14. Breaks(W, gap, p)
    <2> SUFFICES ASSUME ~Breaks(W, gap, p) PROVE FALSE
        OBVIOUS
    <2>1. p # 1
        BY DEF Breaks
    <2>2. p - 1 \in DOMAIN W /\ p - 1 < p
        BY <1>1, <1>10, <2>1
    <2>3. Joined(W, gap, p - 1, p)
        <3>1. \A n \in (p - 1) + 1 .. p : n = p
            BY <1>10
        <3> QED
            BY <3>1 DEF Joined
    <2>4. /\ W[p - 1][2] \in Nat /\ W[p - 1][1] <= W[p - 1][2] /\ W[p - 1][2] < a /\ W[p - 1][2] \in C
          /\ W[p - 1][2] <= W[p - 1][2] /\ W[p - 1][2] <= a
        BY <1>1, <1>3, <1>10, <1>12, <2>2
    <2>5. InOneScene(said, i, gap, W[p - 1][2], a)
        BY <1>5, <1>6, <1>7, <2>2, <2>3, <2>4
    <2> QED
        BY <1>6, <2>4, <2>5
<1>15. q = Len(W) \/ Breaks(W, gap, q + 1)
    <2> SUFFICES ASSUME q # Len(W), ~Breaks(W, gap, q + 1) PROVE FALSE
        OBVIOUS
    <2>2. q + 1 \in DOMAIN W /\ q < q + 1
        BY <1>1, <1>10
    <2>3. Joined(W, gap, q, q + 1)
        <3>1. \A n \in q + 1 .. q + 1 : n = q + 1
            BY <1>10
        <3> QED
            BY <3>1 DEF Joined
    <2>4. /\ W[q + 1][1] \in Nat /\ W[q + 1][1] <= W[q + 1][2] /\ W[q + 1][1] > b /\ W[q + 1][1] \in C
          /\ W[q + 1][1] <= W[q + 1][1] /\ b <= W[q + 1][1]
        BY <1>1, <1>3, <1>10, <1>13, <2>2
    <2>5. InOneScene(said, i, gap, b, W[q + 1][1])
        BY <1>5, <1>6, <1>8, <2>2, <2>3, <2>4
    <2> QED
        BY <1>6, <2>4, <2>5
<1> QED
    BY <1>9, <1>12, <1>13, <1>14, <1>15 DEF Group

\* What merge_intervals makes of the windows are the scenes of the reference.
LEMMA MergedIsReference ==
    ASSUME NEW said, DOMAIN said \subseteq Nat, NEW i \in Nat, NEW W, WindowsOk(said, i, W),
           NEW gap \in Nat, NEW M, M = MergeIntervals(W, gap)
    PROVE  /\ M \in Seq(FramePairs(said))
           /\ \A j \in DOMAIN M : M[j][1] <= M[j][2]
           /\ {M[j] : j \in DOMAIN M} = ReferenceScenes(said, i, gap)
<1> DEFINE R == ReferenceScenes(said, i, gap)
<1>1. GroupsSoFar(said, W, gap, M, Len(W))
    BY MergedAre
<1>2. DOMAIN W = 1 .. Len(W)
    BY WindowNumbers
<1>3. M \in Seq(FramePairs(said))
    BY <1>1 DEF GroupsSoFar
<1>7. /\ \A j \in DOMAIN M : \E p, q \in 1 .. Len(W) :
            Group(W, gap, Len(W), p, q) /\ M[j] = <<W[p][1], W[q][2]>>
      /\ \A p, q \in 1 .. Len(W) : Group(W, gap, Len(W), p, q) =>
            \E j \in DOMAIN M : M[j] = <<W[p][1], W[q][2]>>
    BY <1>1, Zenon DEF GroupsSoFar
<1>4. ASSUME NEW j \in DOMAIN M PROVE M[j] \in R /\ M[j][1] <= M[j][2]
    <2>1. PICK p \in 1 .. Len(W), q \in 1 .. Len(W) :
            Group(W, gap, Len(W), p, q) /\ M[j] = <<W[p][1], W[q][2]>>
        BY <1>7
    <2>2. M[j] \in R
        BY <1>2, <2>1, GroupsAreScenes
    <2>3. W[p][1] <= W[q][2]
        BY <2>1, <2>2, ReferenceIs
    <2>4. M[j][1] = W[p][1] /\ M[j][2] = W[q][2]
        BY <2>1
    <2> QED
        BY <2>2, <2>3, <2>4
<1>5. ASSUME NEW w \in R PROVE \E j \in DOMAIN M : w = M[j]
    <2>1. w = <<w[1], w[2]>>
        BY DEF ReferenceScenes
    <2>2. <<w[1], w[2]>> \in R
        BY <2>1
    <2>3. PICK p \in DOMAIN W, q \in DOMAIN W :
            w[1] = W[p][1] /\ w[2] = W[q][2] /\ Group(W, gap, Len(W), p, q)
        BY <2>2, ScenesAreGroups
    <2>4. PICK j \in DOMAIN M : M[j] = <<W[p][1], W[q][2]>>
        BY <1>2, <1>7, <2>3
    <2> QED
        BY <2>1, <2>3, <2>4
<1> HIDE DEF R
<1>6. {M[j] : j \in DOMAIN M} = R
    BY <1>4, <1>5
<1> QED
    BY <1>3, <1>4, <1>6 DEF R

\* The scenes of the reference, and windows of frames.
AreTheScenes(M, said, i, gap) ==
    /\ M \in Seq(FramePairs(said))
    /\ {M[j] : j \in DOMAIN M} = ReferenceScenes(said, i, gap)

\* cluster_scenes gives the scenes of its frames.
LEMMA ClusterIsReference ==
    ASSUME NEW L \in Nat, NEW said, DOMAIN said \in SUBSET (0 .. L),
           NEW i \in Nat \ {0}, NEW gap \in Nat, NEW M, M = ClusterScenes(said, i, gap)
    PROVE  AreTheScenes(M, said, i, gap)
<1> DEFINE W == RealWindows(said, Runs(said, i))
<1>1. DOMAIN said \subseteq Nat
    OBVIOUS
<1>2. RunsOk(said, i, Runs(said, i), DOMAIN said)
    BY RunsAre
<1>3. WindowsOk(said, i, W)
    BY <1>1, <1>2, WindowsAre
<1>4. M = MergeIntervals(W, gap)
    BY DEF ClusterScenes
<1> HIDE DEF W
<1> QED
    BY <1>1, <1>3, <1>4, MergedIsReference DEF AreTheScenes

---------------------------------------------------------------------------
(* The inductive invariant *)

Scanning == {"load", "rewrite", "decode", "classify", "cluster", "clustered", "look"}

Numbers ==
    /\ interval \in Intervals
    /\ from \in Nat
    /\ stamp \in Intervals \cup {None}

\* From the moment the checkpoint is loaded, it is stamped with the attempt's interval; it
\* is empty when it gets its stamp.
Stamped ==
    /\ pc \in Scanning => stamp = interval
    /\ pc = "stamp" => lines = {}

\* Chunks start where they can, so that their frames lie on the grid.
OnTheGrid ==
    pc \in {"rewrite", "decode", "classify", "cluster"} =>
        /\ Outcomes \subseteq Grid(interval) /\ waiting \subseteq Grid(interval)
        /\ Reached(from, interval)

\* What has an outcome, or waits for one, has no long gap up to where the next chunk starts.
NoGap ==
    /\ pc \in {"rewrite", "decode", "cluster"} => Short(Outcomes, from, interval)
    /\ pc = "classify" => Short(Outcomes \cup waiting, from + ChunkSeconds, interval)

IInv == Numbers /\ CheckpointFitsStamp /\ Stamped /\ OnTheGrid /\ NoGap

\* The start of an attempt only chooses its interval.
LEMMA StartKeeps == IInv /\ Start => IInv'
<1> SUFFICES ASSUME IInv, Start PROVE IInv'
    OBVIOUS
<1> USE DEF IInv
<1>1. Numbers'
    BY DEF Start, Numbers, disk
<1>2. CheckpointFitsStamp' /\ Stamped'
    BY DEF Start, CheckpointFitsStamp, Stamped, Scanning, disk
<1> QED
    BY <1>1, <1>2 DEF Start, OnTheGrid, NoGap

LEMMA WipeAndStampKeep == IInv /\ (Wipe \/ Stamp) => IInv'
<1> SUFFICES ASSUME IInv, Wipe \/ Stamp PROVE IInv'
    OBVIOUS
<1> USE DEF IInv
<1>1. Numbers'
    BY DEF Wipe, Stamp, Numbers, frames
<1>2. CheckpointFitsStamp' /\ Stamped'
    BY DEF Wipe, Stamp, CheckpointFitsStamp, Stamped, Scanning, frames
<1> QED
    BY <1>1, <1>2 DEF Wipe, Stamp, OnTheGrid, NoGap

\* The trusted prefix is on the grid and has no long gap up to the place where the scan goes on.
LEMMA LoadKeeps == IInv /\ Load => IInv'
<1> SUFFICES ASSUME IInv, Load PROVE IInv'
    OBVIOUS
<1>1. interval \in Nat \ {0} /\ interval' = interval /\ lines \in SUBSET Grid(interval)
    BY ScanAssumption DEF IInv, Load, Numbers, CheckpointFitsStamp, Stamped, Scanning
<1> DEFINE T == Trusted(lines, interval)
<1>2. T \in SUBSET Grid(interval) /\ scores' = T /\ from' = Covered(T, interval)
      /\ failed' = {} /\ waiting' = {} /\ stamp' = stamp /\ lines' = lines
    BY <1>1 DEF Load, Trusted, disk
<1>3. Covered(T, interval) \in Nat /\ Reached(Covered(T, interval), interval)
    BY <1>1, <1>2, CoveredIsReached
<1>4. Numbers'
    BY <1>1, <1>2, <1>3 DEF IInv, Numbers
<1>5. CheckpointFitsStamp' /\ Stamped'
    BY <1>1, <1>2 DEF IInv, Load, CheckpointFitsStamp, Stamped, Scanning
<1>6. OnTheGrid'
    BY <1>1, <1>2, <1>3 DEF OnTheGrid, Outcomes, Grid
<1>7. NoGap'
    <2>1. Short(T, Covered(T, interval), interval)
        BY <1>1, TrustedIsShort
    <2>2. Outcomes' = T
        BY <1>2 DEF Outcomes
    <2> QED
        BY <1>1, <1>2, <2>1, <2>2 DEF NoGap, Load
<1> QED
    BY <1>4, <1>5, <1>6, <1>7 DEF IInv

LEMMA RewriteKeeps == IInv /\ Rewrite => IInv'
<1> SUFFICES ASSUME IInv, Rewrite PROVE IInv'
    OBVIOUS
<1>1. Numbers'
    BY DEF IInv, Rewrite, Numbers, frames
<1>2. CheckpointFitsStamp' /\ Stamped'
    BY DEF IInv, Rewrite, CheckpointFitsStamp, Stamped, OnTheGrid, Outcomes, Scanning, frames
<1>3. OnTheGrid' /\ NoGap'
    BY DEF IInv, Rewrite, OnTheGrid, NoGap, Outcomes, Grid, frames
<1> QED
    BY <1>1, <1>2, <1>3 DEF IInv

\* A chunk that starts where it can has its frames on the grid.
LEMMA ChunkIsOnGrid ==
    ASSUME NEW i \in Nat \ {0}, NEW s, Reached(s, i)
    PROVE  ChunkFrames(s, i) \subseteq Grid(i)
<1> SUFFICES ASSUME NEW t \in ChunkFrames(s, i) PROVE t \in Grid(i)
    OBVIOUS
<1>1. PICK m \in Nat, k \in Nat : s = m * ChunkSeconds + k * i
    BY DEF Reached
<1>2. PICK n \in Times : t = s + n * i
    BY DEF ChunkFrames
<1>3. n \in Nat /\ ChunkSeconds \in Nat
    BY ScanAssumption DEF Times
<1>4. (k + n) * i = k * i + n * i
    BY <1>3, Distributes
<1>5. m * ChunkSeconds \in Nat /\ k * i \in Nat /\ n * i \in Nat /\ k + n \in Nat
    BY <1>3
<1>6. t = m * ChunkSeconds + (k + n) * i
    BY <1>1, <1>2, <1>4, <1>5
<1>7. t \in Times /\ Reached(t, i)
    BY <1>5, <1>6 DEF ChunkFrames, Reached
<1> QED
    BY <1>7, GridIsReached

LEMMA DecodeKeeps == IInv /\ Decode => IInv'
<1> SUFFICES ASSUME IInv, Decode PROVE IInv'
    OBVIOUS
<1>1. interval \in Nat \ {0} /\ interval' = interval /\ from' = from /\ from \in Nat
      /\ scores' = scores /\ failed' = failed /\ stamp' = stamp /\ lines' = lines
    BY ScanAssumption DEF IInv, Decode, Numbers, disk
<1>2. waiting' = ChunkFrames(from, interval) /\ pc = "decode" /\ pc' = "classify"
    BY DEF Decode
<1>3. Reached(from, interval)
    BY <1>2 DEF IInv, OnTheGrid
<1>4. Numbers' /\ CheckpointFitsStamp' /\ Stamped'
    BY <1>1, <1>2 DEF IInv, Numbers, CheckpointFitsStamp, Stamped, Scanning
<1>5. Grid(interval)' = Grid(interval)
    BY <1>1 DEF Grid
<1>6. OnTheGrid'
    BY <1>1, <1>2, <1>3, <1>5, ChunkIsOnGrid DEF IInv, OnTheGrid, Outcomes
<1>7. NoGap'
    <2>1. Short(Outcomes, from, interval)
        BY <1>2 DEF IInv, NoGap
    <2>2. Outcomes' = Outcomes
        BY <1>1 DEF Outcomes
    <2> QED
        BY <1>1, <1>2, <2>1, <2>2, ChunkIsShort DEF NoGap
<1> QED
    BY <1>4, <1>6, <1>7 DEF IInv

LEMMA EndsKeep == IInv /\ (DecodeFails \/ ScanEnds) => IInv'
<1> SUFFICES ASSUME IInv, DecodeFails \/ ScanEnds PROVE IInv'
    OBVIOUS
<1>1. UNCHANGED <<frames, disk>> /\ pc = "decode" /\ pc' = "cluster"
    BY DEF DecodeFails, ScanEnds
<1>2. Numbers' /\ CheckpointFitsStamp' /\ Stamped'
    BY <1>1 DEF IInv, Numbers, CheckpointFitsStamp, Stamped, Scanning, frames, disk, Grid
<1>3. OnTheGrid' /\ NoGap'
    BY <1>1 DEF IInv, OnTheGrid, NoGap, Outcomes, Grid, frames
<1> QED
    BY <1>2, <1>3 DEF IInv

\* An outcome moves its frame from those waiting to those dealt with.
LEMMA OutcomeKeeps ==
    IInv /\ (\E t \in Times : Classified(t) \/ ClassificationFails(t)) => IInv'
<1> SUFFICES ASSUME IInv, NEW t \in Times, Classified(t) \/ ClassificationFails(t) PROVE IInv'
    OBVIOUS
<1>1. /\ pc = "classify" /\ pc' = pc /\ interval' = interval /\ from' = from /\ stamp' = stamp
      /\ t \in waiting /\ waiting' = waiting \ {t}
      /\ scores \subseteq scores' /\ scores' \subseteq scores \cup {t}
      /\ Outcomes' = Outcomes \cup {t}
      /\ lines' \subseteq lines \cup {t}
    BY DEF Classified, ClassificationFails, UnderWay, Outcomes, disk
<1>2. Grid(interval)' = Grid(interval)
    BY <1>1 DEF Grid
<1>3. t \in Grid(interval)
    BY <1>1 DEF IInv, OnTheGrid
<1>4. Numbers'
    BY <1>1 DEF IInv, Numbers
<1>5. CheckpointFitsStamp' /\ Stamped'
    <2>1. stamp = interval
        BY <1>1 DEF IInv, Stamped, Scanning
    <2>2. lines \subseteq Grid(interval)
        BY <2>1, <1>4, <1>1, ScanAssumption DEF IInv, CheckpointFitsStamp, Numbers
    <2> QED
        BY <1>1, <1>2, <1>3, <2>1, <2>2 DEF CheckpointFitsStamp, Stamped
<1>6. OnTheGrid'
    BY <1>1, <1>2, <1>3 DEF IInv, OnTheGrid
<1>7. NoGap'
    <2>1. (Outcomes \cup waiting)' = Outcomes \cup waiting
        BY <1>1
    <2> QED
        BY <1>1, <2>1 DEF IInv, NoGap
<1> QED
    BY <1>4, <1>5, <1>6, <1>7 DEF IInv

\* The next chunk starts where it can.
LEMMA ChunkDoneKeeps == IInv /\ ChunkDone => IInv'
<1> SUFFICES ASSUME IInv, ChunkDone PROVE IInv'
    OBVIOUS
<1>1. /\ pc = "classify" /\ pc' = "decode" /\ waiting = {} /\ from' = from + ChunkSeconds
      /\ UNCHANGED <<interval, scores, failed, waiting, stamp, lines>>
    BY DEF ChunkDone, disk
<1>2. interval \in Intervals /\ interval \in Nat \ {0} /\ ChunkSeconds \in Nat
    BY ScanAssumption DEF IInv, Numbers
<1>3. Reached(from', interval)
    BY <1>1, <1>2, OneMore DEF IInv, OnTheGrid
<1>4. Outcomes' = Outcomes
    BY <1>1 DEF Outcomes
<1>6. Numbers' /\ CheckpointFitsStamp' /\ Stamped'
    BY <1>1, <1>2 DEF IInv, Numbers, CheckpointFitsStamp, Stamped, Scanning, Grid
<1>7. Grid(interval)' = Grid(interval)
    BY <1>1 DEF Grid
<1>8. OnTheGrid'
    BY <1>1, <1>3, <1>4, <1>7 DEF IInv, OnTheGrid
<1>9. NoGap'
    <2>1. Outcomes \cup waiting = Outcomes
        BY <1>1
    <2> QED
        BY <1>1, <1>4, <2>1 DEF IInv, NoGap
<1> QED
    BY <1>6, <1>8, <1>9 DEF IInv

\* What follows the scan leaves the checkpoint alone, or removes it.
LEMMA CandidatesKeep ==
    IInv /\ (Cluster \/ NextCandidate \/ AllStored \/ (pc = "look" /\ \E seen \in Reports : Look(seen)))
      => IInv'
<1> SUFFICES ASSUME IInv,
                    Cluster \/ NextCandidate \/ AllStored
                      \/ (pc = "look" /\ \E seen \in Reports : Look(seen))
             PROVE  IInv'
    OBVIOUS
<1>1. /\ interval' = interval /\ pc \in Scanning
      /\ from' \in {from, 0}
      /\ \/ stamp' = stamp /\ lines' = lines /\ pc' \in {"clustered", "look"}
         \/ stamp' = None /\ lines' = {} /\ pc' = "done"
    <2>1. CASE Cluster
        BY <2>1 DEF Cluster, Scanning, disk
    <2>2. CASE NextCandidate
        BY <2>2 DEF NextCandidate, Scanning, disk, frames
    <2>3. CASE AllStored
        BY <2>3 DEF AllStored, Scanning, frames
    <2>4. CASE pc = "look" /\ \E seen \in Reports : Look(seen)
        <3>1. PICK seen \in Reports : Look(seen)
            BY <2>4
        <3>2. UNCHANGED <<frames, disk>> /\ pc' \in {pc, "clustered"} /\ pc = "look"
            BY <3>1 DEF Look
        <3> QED
            BY <3>2 DEF Scanning, disk, frames
    <2> QED
        BY <2>1, <2>2, <2>3, <2>4
<1>2. Numbers'
    BY <1>1 DEF IInv, Numbers
<1>3. CheckpointFitsStamp' /\ Stamped'
    BY <1>1 DEF IInv, CheckpointFitsStamp, Stamped, Scanning, Grid
<1>4. OnTheGrid' /\ NoGap'
    BY <1>1 DEF OnTheGrid, NoGap
<1> QED
    BY <1>2, <1>3, <1>4 DEF IInv

\* However a write is cut short, what is on disk is part of what was to be written.
LEMMA CrashKeeps == IInv /\ Crash => IInv'
<1> SUFFICES ASSUME IInv, Crash PROVE IInv'
    OBVIOUS
<1>1. /\ interval' = interval /\ from' = 0 /\ pc' = "down" /\ stamp' \in {stamp, None}
      /\ lines' \subseteq lines \/ (pc = "rewrite" /\ lines' \subseteq scores)
    BY DEF Crash
<1>2. Numbers'
    BY <1>1 DEF IInv, Numbers
<1>3. CheckpointFitsStamp'
    BY <1>1 DEF IInv, CheckpointFitsStamp, Stamped, OnTheGrid, Outcomes, Scanning, Grid
<1>4. Stamped' /\ OnTheGrid' /\ NoGap'
    BY <1>1 DEF Stamped, OnTheGrid, NoGap, Scanning
<1> QED
    BY <1>2, <1>3, <1>4 DEF IInv

LEMMA InitGivesInv == Init => IInv
BY ScanAssumption DEF Init, IInv, Numbers, CheckpointFitsStamp, Stamped, OnTheGrid, NoGap, Scanning

LEMMA NextKeepsInv == IInv /\ [Next]_vars => IInv'
<1> SUFFICES ASSUME IInv, [Next]_vars PROVE IInv'
    OBVIOUS
<1>1. CASE Scan
    BY <1>1, StartKeeps, WipeAndStampKeep, LoadKeeps, RewriteKeeps, DecodeKeeps, EndsKeep,
       OutcomeKeeps, ChunkDoneKeeps, CandidatesKeep DEF Scan
<1>2. CASE Crash
    BY <1>2, CrashKeeps
<1>3. CASE UNCHANGED vars
    BY <1>3 DEF IInv, Numbers, CheckpointFitsStamp, Stamped, OnTheGrid, NoGap, Outcomes, Grid,
                vars, disk, frames
<1> QED
    BY <1>1, <1>2, <1>3 DEF Next

---------------------------------------------------------------------------
(* The candidates, and the second look at each *)

ScanTypes ==
    /\ pc \in Steps /\ interval \in Intervals /\ stamp \in Intervals \cup {None}
    /\ lines \subseteq Times /\ torn \in BOOLEAN
    /\ scores \subseteq Times /\ failed \subseteq Times /\ waiting \subseteq Times
    /\ from \in Nat /\ crashes \in 0 .. MaxCrashes

LookTypes ==
    /\ DOMAIN level \subseteq Times /\ \A t \in DOMAIN level : level[t] \in Levels
    /\ todo \in Seq(Windows) /\ dense \subseteq Times
    /\ bound \in Windows /\ pad \in VerifyPad .. VerifyMaxPad /\ whole \in BOOLEAN

\* There is a candidate to look at, and the scores of its scan are no longer needed.
Candidate == pc = "look" => todo # <<>> /\ level = <<>>

LInv == ScanTypes /\ LookTypes /\ Candidate /\ ClusteringIsExact

\* What happens before the frames are clustered.
FrameStep ==
    \/ Start \/ Wipe \/ Stamp \/ Load \/ Rewrite
    \/ Decode \/ DecodeFails \/ ScanEnds \/ ChunkDone
    \/ \E t \in Times : Classified(t) \/ ClassificationFails(t)

\* Nothing is looked at before the frames are clustered.
LEMMA FrameStepLeaves ==
    FrameStep => UNCHANGED <<looks, refined, crashes>> /\ pc' \in Steps \ {"clustered", "look"}
<1> SUFFICES ASSUME FrameStep PROVE UNCHANGED <<looks, refined, crashes>> /\ pc' \in Steps \ {"clustered", "look"}
    OBVIOUS
<1>1. CASE Start
    BY <1>1 DEF Start, Steps
<1>2. CASE Wipe
    BY <1>2 DEF Wipe, Steps
<1>3. CASE Stamp
    BY <1>3 DEF Stamp, Steps
<1>4. CASE Load
    BY <1>4 DEF Load, Steps
<1>5. CASE Rewrite
    BY <1>5 DEF Rewrite, Steps
<1>6. CASE Decode
    BY <1>6 DEF Decode, Steps
<1>7. CASE DecodeFails \/ ScanEnds
    BY <1>7 DEF DecodeFails, ScanEnds, Steps
<1>8. CASE ChunkDone
    BY <1>8 DEF ChunkDone, Steps
<1>9. CASE \E t \in Times : Classified(t) \/ ClassificationFails(t)
    BY <1>9 DEF Classified, ClassificationFails, Steps
<1> QED
    BY <1>1, <1>2, <1>3, <1>4, <1>5, <1>6, <1>7, <1>8, <1>9 DEF FrameStep

\* Frames are those of the video.
LEMMA FrameStepTypes == IInv' /\ ScanTypes /\ FrameStep => ScanTypes'
<1> SUFFICES ASSUME IInv', ScanTypes, FrameStep PROVE ScanTypes'
    OBVIOUS
<1>1. /\ pc' \in Steps /\ crashes' = crashes /\ interval' \in Intervals
      /\ stamp' \in Intervals \cup {None} /\ from' \in Nat
    BY FrameStepLeaves DEF IInv, Numbers
<1>2. /\ lines' \subseteq Times /\ torn' \in BOOLEAN
      /\ scores' \subseteq Times /\ failed' \subseteq Times /\ waiting' \subseteq Times
    <2>1. CASE Start
        BY <2>1 DEF Start, ScanTypes, disk
    <2>2. CASE Wipe \/ Stamp \/ Rewrite
        BY <2>2 DEF Wipe, Stamp, Rewrite, ScanTypes, disk, frames
    <2>3. CASE Load
        BY <2>3 DEF Load, ScanTypes, disk, Trusted
    <2>4. CASE Decode
        <3>1. ChunkFrames(from, interval) \subseteq Times
            BY Zenon DEF ChunkFrames
        <3> QED
            BY <2>4, <3>1 DEF Decode, ScanTypes, disk
    <2>5. CASE DecodeFails \/ ScanEnds \/ ChunkDone
        BY <2>5 DEF DecodeFails, ScanEnds, ChunkDone, ScanTypes, disk, frames
    <2>6. CASE \E t \in Times : Classified(t) \/ ClassificationFails(t)
        BY <2>6 DEF Classified, ClassificationFails, ScanTypes, disk
    <2> QED
        BY <2>1, <2>2, <2>3, <2>4, <2>5, <2>6 DEF FrameStep
<1> QED
    BY <1>1, <1>2 DEF ScanTypes

\* The frames that are clustered lie on the grid, so that the candidates are the scenes of
\* the reference.
LEMMA ClusterKeeps == IInv /\ LInv /\ Cluster => LookTypes' /\ Candidate' /\ ClusteringIsExact'
<1> SUFFICES ASSUME IInv, LInv, Cluster PROVE LookTypes' /\ Candidate' /\ ClusteringIsExact'
    OBVIOUS
<1>1. PICK said \in [scores -> Levels] :
         level' = said /\ todo' = ClusterScenes(said, interval, MergeGap)
    BY DEF Cluster
<1>2. /\ pc = "cluster" /\ pc' = "clustered" /\ interval' = interval
      /\ dense' = dense /\ bound' = bound /\ pad' = pad /\ whole' = whole
    BY DEF Cluster
<1>3. DOMAIN said = scores /\ scores \subseteq Grid(interval) /\ interval \in Nat \ {0}
    BY <1>2, ScanAssumption DEF IInv, OnTheGrid, Outcomes, Numbers
<1>4. DOMAIN said \in SUBSET (0 .. Duration) /\ DOMAIN said \subseteq Nat /\ Duration \in Nat
    BY <1>3, GridIsTimes, ScanAssumption
<1>5. DOMAIN said \subseteq Times
    BY <1>3 DEF LInv, ScanTypes
<1>6. /\ todo' \in Seq(FramePairs(said))
      /\ {todo'[n] : n \in DOMAIN todo'} = ReferenceScenes(said, interval, MergeGap)
    <2>1. MergeGap \in Nat
        BY ScanAssumption
    <2>2. \A M : M = ClusterScenes(said, interval, MergeGap)
                   => AreTheScenes(M, said, interval, MergeGap)
        BY <1>3, <1>4, <2>1, ClusterIsReference
    <2>3. AreTheScenes(todo', said, interval, MergeGap)
        BY <1>1, <2>2
    <2> QED
        BY <2>3 DEF AreTheScenes
<1>7. todo' \in Seq(Windows)
    <2>1. FramePairs(said) \subseteq Windows
        BY <1>5 DEF FramePairs, Windows
    <2> HIDE DEF Windows
    <2> QED
        BY <1>6, <2>1
<1>8. LookTypes'
    BY <1>1, <1>2, <1>5, <1>7 DEF LInv, LookTypes, Times, Windows
<1>9. ClusteringIsExact'
    BY <1>1, <1>2, <1>6 DEF ClusteringIsExact
<1> QED
    BY <1>2, <1>8, <1>9 DEF Candidate

\* The first and the last of some frames.
LEMMA HullOf ==
    ASSUME NEW S \in SUBSET Times, S # {}
    PROVE  /\ RefineSceneBoundary(S)[1] \in S /\ RefineSceneBoundary(S)[2] \in S
           /\ RefineSceneBoundary(S) \in Windows
           /\ \A u \in S : RefineSceneBoundary(S)[1] <= u /\ u <= RefineSceneBoundary(S)[2]
<1>1. S \in SUBSET (0 .. Duration) /\ S \in SUBSET Nat /\ Duration \in Nat
    BY ScanAssumption DEF Times
<1>2. Latest(S) \in S /\ \A u \in S : u <= Latest(S)
    BY <1>1, GreatestElement
<1>3. Earliest(S) \in S /\ \A u \in S : Earliest(S) <= u
    <2>1. \E m \in S : \A u \in S : m <= u
        BY <1>1, LeastElement
    <2> QED
        BY <2>1 DEF Earliest
<1> DEFINE h == RefineSceneBoundary(S)
<1>4. h = <<Earliest(S), Latest(S)>>
    BY DEF RefineSceneBoundary
<1>5. h[1] = Earliest(S) /\ h[2] = Latest(S)
    BY <1>4
<1>6. h \in Windows
    <2>1. Earliest(S) \in Times /\ Latest(S) \in Times
        BY <1>2, <1>3
    <2> HIDE DEF h
    <2> QED
        BY <1>4, <2>1 DEF Windows
<1> QED
    BY <1>2, <1>3, <1>5, <1>6

\* The next window is wider, and no wider than the widest.
LEMMA NextPadGrows ==
    ASSUME NEW p \in VerifyPad .. VerifyMaxPad
    PROVE  NextPad(p, VerifyMaxPad) \in VerifyPad .. VerifyMaxPad
BY ScanAssumption DEF NextPad

\* One round of the second look leaves a boundary in the video, and the other candidates.
LEMMA LookKeeps ==
    ASSUME LInv, NEW seen, Look(seen)
    PROVE  LookTypes' /\ Candidate' /\ ClusteringIsExact'
<1>1. /\ pc = "look" /\ todo # <<>> /\ level = <<>> /\ level' = level /\ dense' = dense
      /\ todo \in Seq(Windows) /\ dense \subseteq Times /\ bound \in Windows
      /\ pad \in VerifyPad .. VerifyMaxPad /\ seen \in Reports
    BY DEF Look, LInv, Candidate, LookTypes
<1>2. seen \subseteq Times
    BY <1>1 DEF Reports
<1>3. bound' \in Windows
    <2>1. bound' = IF seen = {} THEN bound ELSE RefineSceneBoundary(seen)
        BY DEF Look
    <2> QED
        BY <1>1, <1>2, <2>1, HullOf
<1>4. \/ todo' = Tail(todo) /\ pc' = "clustered" /\ pad' = pad
      \/ todo' = todo /\ pc' = pc /\ pad' = NextPad(pad, VerifyMaxPad)
    BY DEF Look
<1>5. pad' \in VerifyPad .. VerifyMaxPad
    BY <1>1, <1>4, NextPadGrows
<1>6. todo' \in Seq(Windows)
    <2> HIDE DEF Windows
    <2> QED
        BY <1>1, <1>4
<1>7. whole' \in BOOLEAN
    BY DEF Look
<1>8. LookTypes'
    <2>1. DOMAIN level' \subseteq Times /\ \A t \in DOMAIN level' : level'[t] \in Levels
        BY <1>1 DEF LInv, LookTypes
    <2> QED
        BY <1>1, <1>3, <1>5, <1>6, <1>7, <2>1 DEF LookTypes, Windows, Times
<1> QED
    BY <1>1, <1>4, <1>8 DEF Candidate, ClusteringIsExact

\* What follows leaves the frames alone, or forgets them.
LEMMA LaterTypes ==
    LInv /\ IInv' /\ (Cluster \/ NextCandidate \/ AllStored \/ (pc = "look" /\ \E seen \in Reports : Look(seen)))
      => ScanTypes'
<1> SUFFICES ASSUME LInv, IInv',
                    Cluster \/ NextCandidate \/ AllStored \/ \E seen \in Reports : Look(seen)
             PROVE  ScanTypes'
    OBVIOUS
<1>1. interval' \in Intervals /\ stamp' \in Intervals \cup {None} /\ from' \in Nat
    BY DEF IInv, Numbers
<1>2. /\ pc' \in Steps /\ crashes' = crashes
      /\ lines' \in {lines, {}} /\ torn' \in {torn, FALSE}
      /\ scores' \in {scores, {}} /\ failed' \in {failed, {}} /\ waiting' = waiting
    <2>1. CASE Cluster
        BY <2>1 DEF Cluster, disk, Steps
    <2>2. CASE NextCandidate
        BY <2>2 DEF NextCandidate, disk, frames, Steps
    <2>3. CASE AllStored
        BY <2>3 DEF AllStored, frames, Steps
    <2>4. CASE \E seen \in Reports : Look(seen)
        <3>1. PICK seen \in Reports : Look(seen)
            BY <2>4
        <3>2. UNCHANGED <<frames, disk>> /\ pc' \in {pc, "clustered"} /\ pc = "look" /\ crashes' = crashes
            BY <3>1 DEF Look
        <3> QED
            BY <3>2 DEF Steps, disk, frames
    <2> QED
        BY <2>1, <2>2, <2>3, <2>4
<1> QED
    BY <1>1, <1>2 DEF LInv, ScanTypes

\* The next candidate is one of the windows; the scores are forgotten.
LEMMA NextCandidateKeeps ==
    LInv /\ (NextCandidate \/ AllStored) => LookTypes' /\ Candidate' /\ ClusteringIsExact'
<1> SUFFICES ASSUME LInv, NextCandidate \/ AllStored PROVE LookTypes' /\ Candidate' /\ ClusteringIsExact'
    OBVIOUS
<1>1. todo \in Seq(Windows) /\ dense \subseteq Times /\ bound \in Windows /\ pad \in VerifyPad .. VerifyMaxPad
      /\ whole \in BOOLEAN
    BY DEF LInv, LookTypes
<1>2. level' = <<>> /\ todo' = todo /\ pc' \in {"look", "done"} /\ (pc' = "look" => todo # <<>>)
    BY DEF NextCandidate, AllStored
<1>3. dense' \subseteq Times /\ bound' \in Windows /\ pad' \in VerifyPad .. VerifyMaxPad /\ whole' \in BOOLEAN
    <2>1. CASE NextCandidate
        <3>1. Head(todo) \in Windows
            <4>1. todo # <<>>
                BY <2>1 DEF NextCandidate
            <4> HIDE DEF Windows
            <4> QED
                BY <1>1, <4>1
        <3>2. VerifyPad \in VerifyPad .. VerifyMaxPad
            BY ScanAssumption
        <3> QED
            BY <1>1, <2>1, <3>1, <3>2 DEF NextCandidate
    <2>2. CASE AllStored
        BY <1>1, <2>2 DEF AllStored
    <2> QED
        BY <2>1, <2>2
<1>4. LookTypes'
    <2>1. DOMAIN level' = {}
        BY <1>2
    <2>2. DOMAIN level' \subseteq Times /\ \A t \in DOMAIN level' : level'[t] \in Levels
        BY <2>1
    <2> QED
        BY <1>1, <1>2, <1>3, <2>2 DEF LookTypes, Windows, Times
<1> QED
    BY <1>2, <1>4 DEF Candidate, ClusteringIsExact

\* A crash forgets all but what is on disk.
LEMMA CrashTypes == LInv /\ IInv /\ IInv' /\ Crash => LInv'
<1> SUFFICES ASSUME LInv, IInv, IInv', Crash PROVE LInv'
    OBVIOUS
<1>1. /\ pc' = "down" /\ crashes' = crashes + 1 /\ crashes < MaxCrashes
      /\ scores' = {} /\ failed' = {} /\ waiting' = {}
      /\ level' = <<>> /\ todo' = <<>> /\ dense' = {} /\ bound' = <<0, 0>> /\ pad' = VerifyPad /\ whole' = TRUE
    BY DEF Crash, NoLooks
<1>2. lines' \subseteq lines \/ lines' \subseteq scores
    BY DEF Crash
<1>3. torn' \in BOOLEAN
    BY DEF Crash, LInv, ScanTypes
<1>4. ScanTypes'
    BY <1>1, <1>2, <1>3, ScanAssumption DEF LInv, ScanTypes, Steps, IInv, Numbers
<1>5. LookTypes'
    <2>1. 0 \in Times /\ VerifyPad \in VerifyPad .. VerifyMaxPad
        BY ScanAssumption DEF Times
    <2>2. <<0, 0>> \in Windows
        BY <2>1 DEF Windows
    <2>3. <<>> \in Seq(Windows)
        OBVIOUS
    <2>4. DOMAIN <<>> = {}
        OBVIOUS
    <2> QED
        BY <1>1, <2>1, <2>2, <2>3, <2>4, Zenon DEF LookTypes, Windows, Times
<1> QED
    BY <1>1, <1>4, <1>5 DEF LInv, Candidate, ClusteringIsExact

\* A wider window holds a narrower one.
LEMMA WindowGrows ==
    ASSUME NEW c \in Windows, NEW p \in VerifyPad .. VerifyMaxPad
    PROVE  Window(c, VerifyPad) \subseteq Window(c, p)
<1>1. c[1] \in Nat /\ c[2] \in Nat /\ p \in Nat /\ VerifyPad \in Nat /\ VerifyPad <= p
    BY ScanAssumption DEF Windows, Times
<1>2. CASE c[1] > p
    BY <1>1, <1>2 DEF Window, Minus
<1>3. CASE ~(c[1] > p) /\ c[1] > VerifyPad
    BY <1>1, <1>3 DEF Window, Minus
<1>4. CASE ~(c[1] > p) /\ ~(c[1] > VerifyPad)
    BY <1>1, <1>4 DEF Window, Minus
<1> QED
    BY <1>1, <1>2, <1>3, <1>4

\* A boundary that the search does not end at is the end of a row of hits: the frame beyond it
\* was in the window, and is no hit.
LEMMA FoundIsWhole ==
    ASSUME NEW D \in SUBSET Times, NEW c \in Windows, NEW p \in VerifyPad .. VerifyMaxPad,
           NEW S, S = D \cap Window(c, p), S # {},
           NEW h, h = RefineSceneBoundary(S),
           p >= VerifyMaxPad \/ ~TouchesWindowEdge(h, c, p),
           NEW t \in D \cap Window(c, VerifyMaxPad)
    PROVE  /\ t > h[2] => \E u \in h[2] .. t : u \notin D
           /\ t < h[1] => \E u \in t .. h[1] : u \notin D
<1>1. /\ c[1] \in Nat /\ c[2] \in Nat /\ p \in Nat /\ VerifyMaxPad \in Nat /\ p <= VerifyMaxPad
      /\ \A u \in D : u \in Nat
      /\ t \in Nat
    BY ScanAssumption DEF Windows, Times
<1>2. h[1] \in S /\ h[2] \in S /\ h[1] \in Nat /\ h[2] \in Nat /\ \A u \in S : h[1] <= u /\ u <= h[2]
    BY <1>1, HullOf
<1>3. CASE p >= VerifyMaxPad
    <2>1. p = VerifyMaxPad
        BY <1>1, <1>3
    <2>2. h[1] <= t /\ t <= h[2]
        BY <1>2, <2>1
    <2> QED
        BY <1>1, <1>2, <2>2
<1>4. CASE ~TouchesWindowEdge(h, c, p)
    <2> DEFINE first == Minus(c[1], p)
               last == first + (c[2] - c[1]) + 2 * p - 1
    <2>1. /\ first \in Nat /\ last \in Int /\ c[2] + p - 1 <= last
          /\ \A u \in Nat : first <= u /\ u <= last => u \in Window(c, p)
          /\ \A u \in Window(c, p) : u \in Int /\ first <= u /\ u <= last
        BY <1>1 DEF Window, Minus
    <2>2. /\ ~(2 * (h[1] - first) <= 3)
          /\ ~(2 * (c[2] + p) <= 3 + 2 * h[2])
        BY <1>4 DEF TouchesWindowEdge
    <2>3. /\ first <= h[1] /\ h[1] <= last /\ first <= h[2] /\ h[2] <= last
        BY <1>2, <2>1
    <2> HIDE DEF first, last
    <2>4. ASSUME t > h[2] PROVE \E u \in h[2] .. t : u \notin D
        <3> DEFINE u == h[2] + 1
        <3>1. u \in h[2] .. t /\ u \in Nat /\ first <= u /\ u <= last /\ ~(u <= h[2])
            BY <1>1, <1>2, <2>1, <2>2, <2>3, <2>4
        <3> HIDE DEF u
        <3>2. u \in Window(c, p) /\ u \notin S
            BY <1>2, <2>1, <3>1
        <3> QED
            BY <3>1, <3>2
    <2>5. ASSUME t < h[1] PROVE \E u \in t .. h[1] : u \notin D
        <3> DEFINE u == h[1] - 1
        <3>1. u \in t .. h[1] /\ u \in Nat /\ first <= u /\ u <= last /\ ~(h[1] <= u)
            BY <1>1, <1>2, <2>1, <2>2, <2>3, <2>5
        <3> HIDE DEF u
        <3>2. u \in Window(c, p) /\ u \notin S
            BY <1>2, <2>1, <3>1
        <3> QED
            BY <3>1, <3>2
    <2> QED
        BY <2>4, <2>5
<1> QED
    BY <1>3, <1>4

\* What SceneIsWhole says of one scene.
IsWhole(s) ==
    s.whole /\ s.dense \cap Window(s.candidate, VerifyPad) # {} =>
        Beyond(s) \cap Window(s.candidate, VerifyMaxPad) = {}

\* Only a round of the second look stores a scene, and it stores it whole.
LEMMA WholeKeeps == LInv /\ SceneIsWhole /\ [Next]_vars => SceneIsWhole'
<1> SUFFICES ASSUME LInv, SceneIsWhole, [Next]_vars PROVE SceneIsWhole'
    OBVIOUS
<1>1. CASE refined' \subseteq refined
    BY <1>1 DEF SceneIsWhole
<1>2. ASSUME NEW seen \in Reports, Look(seen) PROVE SceneIsWhole'
    <2> DEFINE c == Head(todo)
               there == dense \cap Window(c, pad)
               final == IF seen = {} THEN bound ELSE RefineSceneBoundary(seen)
               s == [candidate |-> c, found |-> final, at |-> Stretched(final, MinDuration),
                     whole |-> whole', dense |-> dense]
               stop == \/ seen = {} \/ pad >= VerifyMaxPad
                       \/ ~TouchesWindowEdge(RefineSceneBoundary(seen), c, pad)
    <2>1. /\ whole' = (whole /\ seen = there)
          /\ (stop /\ refined' = refined \cup {s}) \/ refined' = refined
        BY <1>2 DEF Look
    <2>2. c \in Windows /\ dense \in SUBSET Times /\ pad \in VerifyPad .. VerifyMaxPad
        <3>1. todo # <<>> /\ todo \in Seq(Windows)
            BY <1>2 DEF Look, LInv, Candidate, LookTypes
        <3>2. c \in Windows
            <4> HIDE DEF Windows
            <4> QED
                BY <3>1
        <3> QED
            BY <3>2 DEF LInv, LookTypes
    <2> HIDE DEF c
    <2>3. ASSUME stop PROVE IsWhole(s)
        <3> SUFFICES ASSUME whole', dense \cap Window(c, VerifyPad) # {},
                            NEW t \in Beyond(s) \cap Window(c, VerifyMaxPad)
                     PROVE  FALSE
            BY DEF IsWhole
        <3>1. seen = there
            BY <2>1
        <3>2. seen # {}
            BY <2>2, <3>1, WindowGrows
        <3>3. final = RefineSceneBoundary(seen)
            BY <3>2
        <3>4. s.found = final /\ s.dense = dense
            OBVIOUS
        <3> HIDE DEF s, final, there
        <3>5. /\ t \in dense
              /\ \/ t > final[2] /\ \A u \in final[2] .. t : u \in dense
                 \/ t < final[1] /\ \A u \in t .. final[1] : u \in dense
            BY <3>4 DEF Beyond
        <3>6. seen = dense \cap Window(c, pad)
            BY <3>1 DEF there
        <3>7. pad >= VerifyMaxPad \/ ~TouchesWindowEdge(final, c, pad)
            BY <2>3, <3>2, <3>3
        <3> QED
            BY <2>2, <3>2, <3>3, <3>5, <3>6, <3>7, FoundIsWhole
    <2>4. \A r \in refined : IsWhole(r)
        BY DEF SceneIsWhole, IsWhole
    <2>5. \A r \in refined' : IsWhole(r)
        <3> HIDE DEF s, stop
        <3> QED
            BY <2>1, <2>3, <2>4
    <2> QED
        BY <2>5 DEF SceneIsWhole, IsWhole, Beyond
<1>3. CASE Scan
    <2>1. CASE FrameStep
        BY <1>1, <2>1, FrameStepLeaves
    <2>2. CASE Cluster \/ NextCandidate \/ AllStored
        BY <1>1, <2>2 DEF Cluster, NextCandidate, AllStored
    <2>3. CASE \E seen \in Reports : Look(seen)
        BY <1>2, <2>3
    <2> QED
        BY <1>3, <2>1, <2>2, <2>3 DEF Scan, FrameStep
<1>4. CASE Crash
    BY <1>1, <1>4 DEF Crash
<1>5. CASE UNCHANGED vars
    BY <1>1, <1>5 DEF vars
<1> QED
    BY <1>3, <1>4, <1>5 DEF Next

\* These facts hold at the start and after every step.
LEMMA LookInvariants ==
    /\ Init => LInv /\ SceneIsWhole
    /\ IInv /\ IInv' /\ LInv /\ [Next]_vars => LInv'
<1>1. ASSUME Init PROVE LInv /\ SceneIsWhole
    <2>1. ScanTypes
        <3>1. 0 \in 0 .. MaxCrashes /\ 0 \in Nat
            BY ScanAssumption
        <3>2. /\ pc \in Steps /\ interval \in Intervals /\ stamp \in Intervals \cup {None}
              /\ lines \subseteq Times /\ torn \in BOOLEAN
              /\ scores \subseteq Times /\ failed \subseteq Times /\ waiting \subseteq Times
              /\ from = 0 /\ crashes = 0
            BY <1>1, Zenon DEF Init, Steps
        <3> QED
            BY <3>1, <3>2 DEF ScanTypes
    <2>2. LookTypes
        <3>1. 0 \in Times /\ VerifyPad \in VerifyPad .. VerifyMaxPad
            BY ScanAssumption DEF Times
        <3>2. <<0, 0>> \in Windows
            BY <3>1 DEF Windows
        <3>3. <<>> \in Seq(Windows)
            OBVIOUS
        <3>4. DOMAIN <<>> = {}
            OBVIOUS
        <3> QED
            BY <1>1, <3>1, <3>2, <3>3, <3>4, Zenon DEF Init, LookTypes, Times, Windows
    <2> QED
        BY <1>1, <2>1, <2>2 DEF Init, LInv, Candidate, ClusteringIsExact, SceneIsWhole
<1>2. ASSUME IInv, IInv', LInv, [Next]_vars PROVE LInv'
    <2>1. CASE FrameStep
        <3>1. LookTypes' /\ Candidate' /\ ClusteringIsExact'
            BY <1>2, <2>1, FrameStepLeaves
               DEF LInv, LookTypes, Candidate, ClusteringIsExact, looks, Windows, Times
        <3> QED
            BY <1>2, <2>1, <3>1, FrameStepTypes DEF LInv
    <2>2. CASE Cluster
        BY <1>2, <2>2, ClusterKeeps, LaterTypes DEF LInv
    <2>3. CASE NextCandidate \/ AllStored
        BY <1>2, <2>3, NextCandidateKeeps, LaterTypes DEF LInv
    <2>4. CASE pc = "look" /\ \E seen \in Reports : Look(seen)
        BY <1>2, <2>4, LookKeeps, LaterTypes DEF LInv
    <2>5. CASE Crash
        BY <1>2, <2>5, CrashTypes
    <2>6. CASE UNCHANGED vars
        BY <1>2, <2>6 DEF vars, disk, frames, looks, LInv, ScanTypes, LookTypes, Candidate, ClusteringIsExact,
                          Windows, Times
    <2> QED
        BY <1>2, <2>1, <2>2, <2>3, <2>4, <2>5, <2>6 DEF Next, Scan, FrameStep
<1> QED
    BY <1>1, <1>2

---------------------------------------------------------------------------
(* Theorems *)

THEOREM InvHolds == Spec => []IInv
BY InitGivesInv, NextKeepsInv, PTL DEF Spec

\* A checkpoint was taken at the interval it is stamped with, wherever attempts are cut
\* off and however the setting changes between them (_scan_fingerprint, classifier.py).
THEOREM CheckpointIsUsable == Spec => []CheckpointFitsStamp
<1>1. IInv => CheckpointFitsStamp
    BY DEF IInv
<1> QED
    BY <1>1, InvHolds, PTL

\* Whatever the interval and however the attempts of a scan were cut off, the frames it
\* ends with have no gap of more than one and a half intervals (_resumable_prefix,
\* classifier.py).
THEOREM NoLongGap == Spec => []GapsAreShort
<1>1. IInv => GapsAreShort
    BY DEF IInv, NoGap, Short, Follows, ReachesTo, GapsAreShort
<1> QED
    BY <1>1, InvHolds, PTL

\* Frames of a row are a whole number of intervals apart.
LEMMA GridIsRow ==
    ASSUME NEW i \in Nat \ {0}, Divides(i), NEW t \in Grid(i)
    PROVE  \E k \in Nat : t = k * i
<1>1. ChunkSeconds \in Nat
    BY ScanAssumption
<1>2. PICK c \in 1 .. ChunkSeconds : ChunkSeconds = c * i
    BY DEF Divides
<1>3. PICK m \in Nat, n \in Nat : t = m * ChunkSeconds + n * i
    BY GridIsTimes, GridIsReached DEF Reached
<1>4. m * (c * i) = (m * c) * i
    BY <1>1, Associates
<1>5. m * c \in Nat
    BY <1>1
<1>6. (m * c + n) * i = (m * c) * i + n * i
    BY <1>5, Distributes
<1> QED
    BY <1>2, <1>3, <1>4, <1>5, <1>6

\* So a row with a frame missing in its middle has a gap of two intervals.
LEMMA RowHasNoHole ==
    ASSUME NEW i \in Nat \ {0}, Divides(i), NEW S \in SUBSET Grid(i), NEW s \in Nat, Short(S, s, i),
           NEW g \in Row(i), g # 0, g < s
    PROVE  g \in S
<1>1. /\ S \subseteq Nat /\ g \in Nat /\ g \in Times
    BY GridIsTimes, ScanAssumption DEF Row, Times
<1>2. PICK k \in Nat : g = k * i
    BY ScanAssumption DEF Row, Times
<1>3. \A v \in S \cup {0} : v \in Nat /\ \E m \in Nat : v = m * i
    <2>1. 0 = 0 * i
        OBVIOUS
    <2> QED
        BY <1>1, <2>1, GridIsRow
<1>4. SUFFICES ASSUME g \notin S PROVE FALSE
    OBVIOUS
<1>5. PICK v \in S \cup {0} : g < v + i
    BY <1>1 DEF Short, ReachesTo
<1>6. g < v
    <2>1. SUFFICES ASSUME v < g PROVE FALSE
        BY <1>1, <1>3, <1>4, <1>5
    <2>2. v + i <= g
        BY <1>2, <1>3, <2>1, MultiplesApart
    <2> QED
        BY <1>1, <1>3, <1>5, <2>2
<1> DEFINE after == {u \in S : g < u}
<1>7. after \in SUBSET Nat /\ v \in after
    <2>1. v # 0
        BY <1>1, <1>6
    <2> QED
        BY <1>1, <1>5, <1>6, <2>1
<1>8. PICK u \in after : \A w \in after : u <= w
    BY <1>7, LeastElement
<1>9. u \in S /\ u \in Nat /\ g < u /\ u # 0
    BY <1>1, <1>8
<1>10. PICK w \in S \cup {0} : w < u /\ 2 * (u - w) <= 3 * i
    BY <1>9 DEF Short, Follows
<1>11. w \in Nat /\ w < g
    BY <1>1, <1>3, <1>4, <1>8, <1>9, <1>10
<1>12. w + i <= g
    BY <1>2, <1>3, <1>10, <1>11, MultiplesApart
<1>13. g + i <= u
    <2>1. PICK b \in Nat : u = b * i
        BY <1>3, <1>9
    <2> QED
        BY <1>2, <1>9, <2>1, MultiplesApart
<1> QED
    BY <1>1, <1>9, <1>10, <1>11, <1>12, <1>13

\* At an interval that divides the chunk, however the attempts of a scan were cut off and
\* in whatever order the frames were scored, the scan that ends skips no frame but the
\* first without a failure of it (_resumable_prefix, classifier.py).
THEOREM ResumeSkipsNothingElse == Spec => []OnlyFirstSkipped
<1>1. IInv => OnlyFirstSkipped
    <2> SUFFICES ASSUME IInv, pc = "cluster", Divides(interval), NEW g \in Row(interval), g # 0
                 PROVE  g \in Seen
        BY DEF OnlyFirstSkipped
    <2>1. interval \in Nat \ {0} /\ from \in Nat /\ g \in Times /\ g \in Nat
        BY ScanAssumption DEF IInv, Numbers, Row, Times
    <2>2. Outcomes \in SUBSET Grid(interval) /\ Short(Outcomes, from, interval)
        BY DEF IInv, OnTheGrid, NoGap
    <2>3. g < from => g \in Outcomes
        BY <2>1, <2>2, RowHasNoHole
    <2> QED
        BY <2>1, <2>3 DEF Seen
<1> QED
    BY <1>1, InvHolds, PTL

\* Every variable of a scan has its type, the candidates and the windows of the second look
\* included.
THEOREM TypeCorrect == Spec => []TypeOK
<1>1. LInv => TypeOK
    BY DEF LInv, ScanTypes, LookTypes, TypeOK
<1>2. IInv /\ LInv /\ [Next]_vars => LInv'
    BY NextKeepsInv, LookInvariants
<1>3. Init => LInv
    BY LookInvariants
<1> QED
    BY <1>1, <1>2, <1>3, InvHolds, PTL DEF Spec

\* Whatever frames have a score and whatever the scores are, the candidates are the scenes
\* of the reference: the one pass of cluster_scenes over the frames and that of
\* merge_intervals over the windows lose no scene, make up none, and neither split nor join
\* one (scene_cluster.py, intervals.py).
THEOREM CandidatesAreTheScenes == Spec => []ClusteringIsExact
<1>1. LInv => ClusteringIsExact
    BY DEF LInv
<1>2. IInv /\ LInv /\ [Next]_vars => LInv'
    BY NextKeepsInv, LookInvariants
<1>3. Init => LInv
    BY LookInvariants
<1> QED
    BY <1>1, <1>2, <1>3, InvHolds, PTL DEF Spec

\* A scene that was looked at completely is stored whole, however often its window was
\* widened (_refine_candidate_boundary, pipeline.py).
THEOREM ScenesAreWhole == Spec => []SceneIsWhole
<1>1. IInv /\ LInv /\ [Next]_vars => LInv'
    BY NextKeepsInv, LookInvariants
<1>2. Init => LInv /\ SceneIsWhole
    BY LookInvariants
<1>3. LInv /\ SceneIsWhole /\ [Next]_vars => SceneIsWhole'
    BY WholeKeeps
<1> QED
    BY <1>1, <1>2, <1>3, InvHolds, PTL DEF Spec
=============================================================================
