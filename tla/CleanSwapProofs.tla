-------------------------- MODULE CleanSwapProofs --------------------------
(* Theorems about CleanSwap, for any number of runs, imports, audio tracks  *)
(* and restarts.                                                            *)
EXTENDS CleanSwap, TLAPS, FiniteSetTheorems, SequenceTheorems, WellFoundedInduction

---------------------------------------------------------------------------
(* The invariant of the runs *)

\* A run knows a path the title has had and drops tracks it has counted.
DropFits == \A r \in Runs : run[r].path \in 1..path /\ run[r].drop \subseteq 1..run[r].tracks

\* The row of a run that is under way says so.
StepFits ==
    \A r \in Runs : /\ run[r].at = "new" => state[r] = "queued"
                    /\ run[r].at \notin {"new", "over"} => state[r] = "processing"

\* Nothing runs in a dead process.
DownIsQuiet ==
    process = "down" => \A r \in Runs : run[r].at \in {"new", "over"} /\ swap[r] \notin InFlight

HeavyHoldsLock == \A r \in Runs : run[r].at \in Heavy => lock = r

\* The shielded task starts in staging, has succeeded when the run goes on, and
\* outlives the run only when that was cancelled.
SwapFits ==
    \A r \in Runs :
        /\ run[r].at \in {"new", "staging", "verifying"} \cup Early => swap[r] = "none"
        /\ run[r].at \in {"tidying", "saving"} \/ state[r] = "done" => swap[r] = "swapped"
        /\ swap[r] \in InFlight => run[r].at = "swapping" \/ state[r] = "cancelled"

\* A temp file ends in the clean track, and one that was verified is whole; the
\* sweep of another run may have removed it.
TempFits ==
    \A r \in Runs :
        /\ temp[r] = NoFile \/ Clean \in TrackSet(temp[r])
        /\ run[r].at = "building" => temp[r] # NoFile
        /\ run[r].at \in {"staging", "swapping"} \/ swap[r] \in {"copying", "unlinking", "replacing"} =>
               temp[r] = NoFile \/ temp[r].whole

RunInv == TypeOK /\ DropFits /\ StepFits /\ DownIsQuiet /\ HeavyHoldsLock /\ SwapFits /\ TempFits

---------------------------------------------------------------------------
(* The invariant of a title that has had one file *)

FirstLen == Len(Originals[1])
Later    == {i \in Nat : i > FirstLen}

\* A file made of the first one: its tracks, then clean ones.
Good(f) ==
    f = NoFile \/ /\ Len(f.tracks) >= FirstLen
                  /\ \A i \in 1..Len(f.tracks) : f.tracks[i] = IF i <= FirstLen THEN Originals[1][i] ELSE Clean

AllGood   == Good(video[1]) /\ \A r \in Runs : Good(temp[r]) /\ Good(backup[r])
Planned   == {"planned", "building", "verifying", "staging", "swapping", "tidying", "saving"}
DropsLater ==
    /\ known \subseteq Later
    /\ \A r \in Runs : /\ run[r].known \subseteq Later /\ run[r].drop \subseteq Later
                       /\ run[r].at \in Planned => run[r].tracks >= FirstLen

\* With the title tag, each has one clean track at most, right after the first
\* file's, and a run drops that one.
Short(f) == Len(f.tracks) <= FirstLen + 1
AllShort ==
    /\ Short(video[1])
    /\ \A r \in Runs :
         /\ Short(backup[r])
         /\ run[r].at \in {"staging", "swapping"} \/ swap[r] \in {"copying", "unlinking", "replacing"} =>
                Short(temp[r])
DropsOne ==
    /\ known \subseteq {FirstLen + 1}
    /\ \A r \in Runs :
         /\ run[r].known \subseteq {FirstLen + 1}
         /\ run[r].at \in Planned =>
                \/ run[r].tracks = FirstLen /\ run[r].drop = {}
                \/ run[r].tracks = FirstLen + 1 /\ run[r].drop = {FirstLen + 1}

OneFile    == AllGood /\ DropsLater /\ (TagsStick => AllShort /\ DropsOne)
OneFileInv == path = 1 => OneFile

---------------------------------------------------------------------------
(* The invariant of a video that was swapped in *)

Beside(r, s) == r # s /\ run[r].path = run[s].path /\ swap[s] \in {"unlinking", "replacing", "restoring"}
CleanIfWhole(f) == f.whole => Clean \in TrackSet(f)

\* It is clean, and so is the backup another swap might put back in its place,
\* unless the two overlap.
SwappedIn ==
    \A r \in Runs :
        swap[r] = "swapped" =>
            /\ CleanIfWhole(video[run[r].path])
            /\ \A s \in Runs : Beside(r, s) => CleanIfWhole(backup[s]) \/ Overlap(r, s) \/ Overlap(s, r)
SwapInv == SwapsCollide \/ SwappedIn

---------------------------------------------------------------------------
(* The invariant of the original's whereabouts *)

\* The video is whole or away, unless a cancelled run's swap was undone.
WholeOrAway(r) ==
    video[1] = NoFile \/ video[1].whole \/ \E s \in Runs \ {r} : Undone(s) /\ state[s] = "cancelled"
SourceIsWhole ==
    \A r \in Runs : run[r].at \in {"building", "verifying", "staging"} \/ swap[r] = "copying" => WholeOrAway(r)
BackupIsWhole ==
    \A r \in Runs : swap[r] \in {"unlinking", "replacing", "restoring"} => backup[r].whole
OneIsWhole == video[1].whole \/ \E r \in Runs : backup[r].whole /\ swap[r] # "swapped"
OriginalInv == path = 1 => SwapsCollide \/ (SourceIsWhole /\ BackupIsWhole /\ OneIsWhole)

---------------------------------------------------------------------------
(* Lemmas about the operators of the model *)

\* A set of numbers that is not empty has a least one: induction in the form
\* of a least counterexample.
LEMMA LeastNumber ==
    ASSUME NEW T \in SUBSET Nat, T # {}
    PROVE  \E x \in T : \A y \in T : x <= y
<1> DEFINE R == OpToRel(<, Nat)
<1>1. IsWellFoundedOn(R, Nat)
    BY NatLessThanWellFounded, Zenon
<1>2. PICK x \in T : \A y \in T : <<y, x>> \notin R
    <2> HIDE DEF R
    <2> QED
        BY <1>1, WFMin, Zenon
<1>3. ASSUME NEW y \in T PROVE x <= y
    <2>1. <<y, x>> \in Nat \X Nat
        OBVIOUS
    <2>2. ~(y < x)
        BY <1>2, <2>1 DEF OpToRel
    <2> QED
        BY <2>2
<1> QED
    BY <1>3

Below(S, i) == Cardinality({x \in S : x < i})

\* Every rank in a set of numbers up to some L is that of a member.
LEMMA RankExists ==
    ASSUME NEW L \in Nat, NEW S \in SUBSET (1..L), NEW k \in 1..Cardinality(S)
    PROVE  \E i \in S : Below(S, i) = k - 1
<1>1. IsFiniteSet(S) /\ Cardinality(S) \in Nat /\ \A x \in S : x \in Nat /\ 0 < x /\ x < L + 1
    <2>1. IsFiniteSet(1..L)
        BY FS_Interval
    <2>2. IsFiniteSet(S)
        BY <2>1, FS_Subset
    <2> QED
        BY <2>2, FS_CardinalityType
<1>2. ASSUME NEW j \in Nat PROVE Below(S, j) \in Nat /\ IsFiniteSet({x \in S : x < j})
    <2>1. IsFiniteSet({x \in S : x < j})
        BY <1>1, FS_Subset
    <2> QED
        BY <2>1, FS_CardinalityType DEF Below
<1> DEFINE T == {j \in Nat : k <= Below(S, j)}
<1>3. k \in Nat /\ 1 <= k /\ L + 1 \in T
    <2>1. {x \in S : x < L + 1} = S
        BY <1>1
    <2>2. Below(S, L + 1) = Cardinality(S)
        BY <2>1 DEF Below
    <2> QED
        BY <2>2, <1>1
<1>4. PICK j \in T : \A y \in T : j <= y
    <2>1. T \in SUBSET Nat /\ T # {}
        BY <1>3
    <2> HIDE DEF T
    <2> QED
        BY <2>1, LeastNumber
<1>5. j \in Nat /\ k <= Below(S, j)
    OBVIOUS
<1>6. j # 0
    <2>1. \A x \in S : ~(x < 0)
        BY <1>1
    <2>2. {x \in S : x < 0} = {}
        BY <2>1, Zenon
    <2>3. Below(S, 0) = 0
        BY <2>2, FS_EmptySet DEF Below
    <2> QED
        BY <2>3, <1>3, <1>5
<1>7. j - 1 \in Nat /\ Below(S, j - 1) \in Nat /\ Below(S, j - 1) <= k - 1
    <2>1. j - 1 \in Nat /\ j - 1 \notin T
        BY <1>4, <1>5, <1>6
    <2>2. Below(S, j - 1) \in Nat /\ ~(k <= Below(S, j - 1))
        BY <2>1, <1>2
    <2> QED
        BY <2>1, <2>2, <1>3
<1>8. j - 1 \in S
    <2>1. SUFFICES ASSUME j - 1 \notin S PROVE FALSE
        OBVIOUS
    <2>2. \A x \in S : x < j <=> x < j - 1
        BY <2>1, <1>1, <1>5
    <2>3. {x \in S : x < j} = {x \in S : x < j - 1}
        BY <2>2, Zenon
    <2>4. Below(S, j) = Below(S, j - 1)
        BY <2>3 DEF Below
    <2> QED
        BY <2>4, <1>3, <1>5, <1>7
<1>9. Below(S, j) = Below(S, j - 1) + 1
    <2>1. \A x \in S : x < j <=> x < j - 1 \/ x = j - 1
        BY <1>1, <1>5
    <2>2. {x \in S : x < j} = {x \in S : x < j - 1} \cup {j - 1}
        BY <2>1, <1>8, Zenon
    <2>3. j - 1 \notin {x \in S : x < j - 1}
        BY <1>7
    <2>4. IsFiniteSet({x \in S : x < j - 1})
        BY <1>2, <1>7
    <2> QED
        BY <2>2, <2>3, <2>4, FS_AddElement DEF Below
<1> QED
    BY <1>3, <1>5, <1>7, <1>8, <1>9

Survivors(t, drop) == {i \in DOMAIN t : i \notin drop}

\* The tracks of s are the surviving ones of t, in their order.
Ranked(s, t, drop) ==
    \A k \in 1..Cardinality(Survivors(t, drop)) :
        \E i \in Survivors(t, drop) : Below(Survivors(t, drop), i) = k - 1 /\ s[k] = t[i]

\* What is kept of a file's tracks: as many as are not dropped, each a track
\* of the file.
LEMMA KeptTracks ==
    ASSUME NEW S, NEW t \in Seq(S), NEW drop
    PROVE  /\ Cardinality(Survivors(t, drop)) \in Nat
           /\ Kept(t, drop) \in Seq(S)
           /\ Len(Kept(t, drop)) = Cardinality(Survivors(t, drop))
           /\ Ranked(Kept(t, drop), t, drop)
<1> DEFINE keep == {i \in DOMAIN t : i \notin drop}
           m == Cardinality(keep)
           nth(k) == CHOOSE i \in keep : Below(keep, i) = k - 1
           f == [k \in 1..m |-> t[nth(k)]]
<1>1. Len(t) \in Nat /\ DOMAIN t = 1..Len(t) /\ keep \in SUBSET (1..Len(t))
    OBVIOUS
<1>2. m \in Nat
    <2>1. IsFiniteSet(1..Len(t))
        BY <1>1, FS_Interval
    <2>2. IsFiniteSet(keep)
        BY <1>1, <2>1, FS_Subset
    <2> QED
        BY <2>2, FS_CardinalityType
<1>3. Kept(t, drop) = f
    BY DEF Kept, Below
<1>4. \A k \in 1..m : nth(k) \in keep /\ Below(keep, nth(k)) = k - 1
    <2> SUFFICES ASSUME NEW k \in 1..m PROVE nth(k) \in keep /\ Below(keep, nth(k)) = k - 1
        OBVIOUS
    <2>1. \E i \in keep : Below(keep, i) = k - 1
        BY <1>1, RankExists
    <2> HIDE DEF keep
    <2> QED
        BY <2>1
<1> HIDE DEF nth
<1>5. f \in [1..m -> S]
    BY <1>1, <1>4
<1>6. f \in Seq(S) /\ Len(f) = m
    <2> HIDE DEF m, f
    <2> QED
        BY <1>2, <1>5
<1>7. \A k \in 1..m : nth(k) \in keep /\ Below(keep, nth(k)) = k - 1 /\ f[k] = t[nth(k)]
    BY <1>4
<1> HIDE DEF f, m, keep
<1> QED
    BY <1>2, <1>3, <1>6, <1>7 DEF m, keep, Survivors, Ranked

\* The file ffmpeg writes ends in the clean track.
LEMMA RemuxedTracks ==
    ASSUME NEW t \in Seq(Track), NEW drop
    PROVE  /\ Cardinality(Survivors(t, drop)) \in Nat
           /\ Remuxed(t, drop) \in Seq(Track)
           /\ Len(Remuxed(t, drop)) = Cardinality(Survivors(t, drop)) + 1
           /\ Remuxed(t, drop)[Cardinality(Survivors(t, drop)) + 1] = Clean
           /\ Ranked(Remuxed(t, drop), t, drop)
<1> DEFINE keep == Survivors(t, drop)
           m == Cardinality(keep)
           p == Kept(t, drop)
<1>1. /\ m \in Nat
      /\ p \in Seq(Track) /\ Len(p) = m
      /\ \A k \in 1..m : \E i \in keep : Below(keep, i) = k - 1 /\ p[k] = t[i]
    <2>1. /\ Cardinality(Survivors(t, drop)) \in Nat
          /\ Kept(t, drop) \in Seq(Track)
          /\ Len(Kept(t, drop)) = Cardinality(Survivors(t, drop))
          /\ Ranked(Kept(t, drop), t, drop)
        BY KeptTracks
    <2> QED
        BY <2>1 DEF Ranked
<1>2. Clean \in Track
    BY DEF Track
<1>3. Remuxed(t, drop) = Append(p, Clean)
    BY DEF Remuxed
<1> HIDE DEF p, m, keep
<1>4. /\ Append(p, Clean) \in Seq(Track) /\ Len(Append(p, Clean)) = m + 1
      /\ Append(p, Clean)[m + 1] = Clean
      /\ \A k \in 1..m : Append(p, Clean)[k] = p[k]
    BY <1>1, <1>2
<1>5. ASSUME NEW k \in 1..m
      PROVE  \E i \in keep : Below(keep, i) = k - 1 /\ Append(p, Clean)[k] = t[i]
    <2>1. PICK i \in keep : Below(keep, i) = k - 1 /\ p[k] = t[i]
        BY <1>1
    <2>2. Append(p, Clean)[k] = p[k]
        BY <1>4
    <2> QED
        BY <2>1, <2>2, Zenon
<1> QED
    BY <1>1, <1>3, <1>4, <1>5 DEF m, keep, Ranked

\* The first file has tracks, and no clean one.
LEMMA FirstFile ==
    /\ FirstLen \in Nat \ {0} /\ DOMAIN Originals[1] = 1..FirstLen
    /\ Originals[1] \in Seq(Track)
    /\ \A i \in 1..FirstLen : Originals[1][i] # Clean
<1>1. /\ Originals[1] \in Seq(OriginalSet(1)) /\ Originals[1] # <<>> /\ Clean \notin OriginalSet(1)
      /\ OriginalSet(1) \subseteq Track
    BY CleanSwapAssumption DEF Track
<1>2. FirstLen \in Nat /\ DOMAIN Originals[1] = 1..FirstLen
    BY <1>1 DEF FirstLen
<1>3. FirstLen # 0
    BY <1>1 DEF FirstLen
<1>4. Originals[1] \in Seq(Track)
    <2>1. \A i \in 1..FirstLen : Originals[1][i] \in Track
        BY <1>1, <1>2 DEF FirstLen
    <2> QED
        BY <1>1, <2>1 DEF FirstLen
<1>5. ASSUME NEW i \in 1..FirstLen PROVE Originals[1][i] # Clean
    BY <1>1, <1>2 DEF OriginalSet
<1> QED
    BY <1>2, <1>3, <1>4, <1>5

\* The paths are counted from one.
LEMMA PathsAreNumbers == \A p \in Paths : p \in Nat /\ 1 <= p
<1>1. Cardinality(Paths) \in Nat
    BY CleanSwapAssumption, FS_CardinalityType
<1> QED
    BY <1>1, CleanSwapAssumption

\* A file made of the first one is one again after a run that drops none of
\* the first file's tracks.
LEMMA RemuxedIsGood ==
    ASSUME NEW t \in Seq(Track), NEW drop \in SUBSET Later, FirstLen <= Len(t),
           \A i \in 1..Len(t) : t[i] = IF i <= FirstLen THEN Originals[1][i] ELSE Clean
    PROVE  /\ FirstLen <= Len(Remuxed(t, drop))
           /\ \A k \in 1..Len(Remuxed(t, drop)) :
                  Remuxed(t, drop)[k] = IF k <= FirstLen THEN Originals[1][k] ELSE Clean
<1> DEFINE keep == Survivors(t, drop)
           m == Cardinality(keep)
           u == Remuxed(t, drop)
<1>1. /\ m \in Nat /\ Len(u) = m + 1 /\ u[m + 1] = Clean
      /\ \A k \in 1..m : \E i \in keep : Below(keep, i) = k - 1 /\ u[k] = t[i]
    <2>1. /\ m \in Nat /\ Len(u) = m + 1 /\ u[m + 1] = Clean
          /\ Ranked(u, t, drop)
        BY RemuxedTracks
    <2> QED
        BY <2>1 DEF Ranked
<1>2. FirstLen \in Nat /\ Len(t) \in Nat /\ DOMAIN t = 1..Len(t)
    BY FirstFile
<1>3. keep \in SUBSET Nat /\ \A i \in keep : 1 <= i /\ i <= Len(t)
    BY <1>2 DEF Survivors
<1>4. 1..FirstLen \subseteq keep
    BY <1>2 DEF Later, Survivors
<1>5. IsFiniteSet(keep)
    <2>1. IsFiniteSet(1..Len(t))
        BY <1>2, FS_Interval
    <2> QED
        BY <1>2, <2>1, FS_Subset DEF Survivors
<1> HIDE DEF keep, u
<1>6. FirstLen <= m
    <2>1. Cardinality(1..FirstLen) = FirstLen
        BY <1>2, FS_Interval
    <2>2. Cardinality(1..FirstLen) <= Cardinality(keep)
        BY <1>4, <1>5, FS_Subset
    <2> QED
        BY <2>1, <2>2
<1>7. ASSUME NEW i \in keep, i <= FirstLen PROVE Below(keep, i) = i - 1
    <2>1. i \in Nat /\ \A x \in keep : x \in Nat /\ 1 <= x
        BY <1>3
    <2>2. \A x \in 1..i - 1 : x \in keep /\ x < i
        BY <1>2, <1>4, <1>7, <2>1
    <2>3. \A x \in keep : x < i => x \in 1..i - 1
        BY <2>1
    <2>4. {x \in keep : x < i} = 1..i - 1
        BY <2>2, <2>3, Zenon
    <2>5. Cardinality(1..i - 1) = i - 1
        BY <1>3, FS_Interval
    <2> QED
        BY <2>4, <2>5 DEF Below
<1>8. ASSUME NEW i \in keep, FirstLen < i PROVE Below(keep, i) >= FirstLen /\ Below(keep, i) \in Nat
    <2>1. 1..FirstLen \subseteq {x \in keep : x < i}
        BY <1>2, <1>3, <1>4, <1>8
    <2>2. IsFiniteSet({x \in keep : x < i})
        BY <1>5, FS_Subset
    <2>3. Cardinality(1..FirstLen) = FirstLen
        BY <1>2, FS_Interval
    <2>4. Cardinality({x \in keep : x < i}) \in Nat
        BY <2>2, FS_CardinalityType
    <2> QED
        BY <2>1, <2>2, <2>3, <2>4, <1>2, FS_Subset DEF Below
<1>9. ASSUME NEW k \in 1..Len(u) PROVE u[k] = IF k <= FirstLen THEN Originals[1][k] ELSE Clean
    <2>1. CASE k = m + 1
        BY <1>1, <1>2, <1>6, <2>1
    <2>2. CASE k # m + 1
        <3>1. k \in 1..m
            BY <1>1, <2>2
        <3>2. PICK i \in keep : Below(keep, i) = k - 1 /\ u[k] = t[i]
            BY <1>1, <3>1
        <3>3. i \in Nat /\ i \in 1..Len(t)
            BY <1>2, <1>3
        <3>4. CASE i <= FirstLen
            <4>1. i = k
                BY <1>7, <3>1, <3>2, <3>3, <3>4
            <4> QED
                BY <3>2, <3>3, <3>4, <4>1
        <3>5. CASE FirstLen < i
            <4>1. FirstLen < k
                BY <1>2, <1>8, <3>1, <3>2, <3>5
            <4>2. t[i] = Clean
                BY <1>2, <3>3, <3>5
            <4> QED
                BY <1>2, <3>1, <3>2, <4>1, <4>2
        <3> QED
            BY <1>2, <3>3, <3>4, <3>5
    <2> QED
        BY <2>1, <2>2
<1>10. FirstLen <= Len(u)
    BY <1>1, <1>2, <1>6
<1> QED
    BY <1>9, <1>10 DEF u

\* How many numbers lie between two others.
LEMMA FewDropped ==
    ASSUME NEW a \in Nat, NEW b \in Nat, a <= b, NEW drop, \A i \in drop : i \in Nat /\ a < i /\ i <= b
    PROVE  Cardinality(drop) \in Nat /\ Cardinality(drop) <= b - a
<1>1. drop \subseteq a + 1..b
    OBVIOUS
<1>2. IsFiniteSet(a + 1..b) /\ Cardinality(a + 1..b) = b - a
    <2>1. a + 1 \in Int /\ b \in Int
        OBVIOUS
    <2>2. /\ IsFiniteSet(a + 1..b)
          /\ Cardinality(a + 1..b) = IF a + 1 > b THEN 0 ELSE b - (a + 1) + 1
        BY <2>1, FS_Interval, Zenon
    <2> QED
        BY <2>2
<1>3. IsFiniteSet(drop) /\ Cardinality(drop) <= b - a
    BY <1>1, <1>2, FS_Subset
<1> QED
    BY <1>3, FS_CardinalityType

---------------------------------------------------------------------------
(* What the steps write *)

Memory == [at: Steps, path: Paths, known: SUBSET (Nat \ {0}), drop: SUBSET (Nat \ {0}), tracks: Nat, keep: BOOLEAN]

\* All a run remembers but where it is.
SameMemory(a, b) ==
    a.path = b.path /\ a.known = b.known /\ a.drop = b.drop /\ a.tracks = b.tracks /\ a.keep = b.keep

\* One run moves on and remembers what it did.
LEMMA Moving ==
    ASSUME run \in [Runs -> Memory], NEW r \in Runs, NEW to \in Steps, Goes(r, to)
    PROVE  /\ run' \in [Runs -> Memory]
           /\ run'[r].at = to
           /\ \A s \in Runs : SameMemory(run'[s], run[s])
           /\ \A s \in Runs \ {r} : run'[s].at = run[s].at
<1> DEFINE new == [run[r] EXCEPT !.at = to]
<1>1. /\ new \in Memory /\ new.at = to /\ SameMemory(new, run[r])
    BY DEF Memory, SameMemory
<1>2. run' = [run EXCEPT ![r] = new]
    BY DEF Goes
<1> HIDE DEF new
<1> QED
    BY <1>1, <1>2 DEF SameMemory

LEMMA Beginning ==
    ASSUME TypeOK, NEW r \in Runs, Begin(r)
    PROVE  /\ run' \in [Runs -> Memory]
           /\ run'[r].at = "waiting" /\ run'[r].path = path /\ run'[r].known = known
           /\ run'[r].drop = run[r].drop /\ run'[r].tracks = run[r].tracks
           /\ \A s \in Runs \ {r} : run'[s] = run[s]
<1> DEFINE new == [[[run[r] EXCEPT !.at = "waiting"] EXCEPT !.path = path] EXCEPT !.known = known]
<1>1. run \in [Runs -> Memory] /\ path \in Paths /\ known \in SUBSET (Nat \ {0})
    BY DEF TypeOK, Memory
<1>2. run' = [run EXCEPT ![r] = new]
    BY <1>1 DEF Begin, Memory
<1>3. /\ new \in Memory /\ new.at = "waiting" /\ new.path = path /\ new.known = known
      /\ new.drop = run[r].drop /\ new.tracks = run[r].tracks
    BY <1>1 DEF Memory, Steps
<1> HIDE DEF new
<1> QED
    BY <1>1, <1>2, <1>3

\* A process that dies takes every run that has begun with it.
LEMMA Dying ==
    ASSUME TypeOK, Gone
    PROVE  /\ run' \in [Runs -> Memory]
           /\ \A s \in Runs : /\ SameMemory(run'[s], run[s])
                              /\ run'[s].at = IF run[s].at = "new" THEN "new" ELSE "over"
<1>1. run \in [Runs -> Memory]
    BY DEF TypeOK, Memory
<1>2. ASSUME NEW s \in Runs
      PROVE  /\ run'[s] \in Memory /\ SameMemory(run'[s], run[s])
             /\ run'[s].at = IF run[s].at = "new" THEN "new" ELSE "over"
    <2> DEFINE new == [run[s] EXCEPT !.at = "over"]
    <2>1. new \in Memory /\ new.at = "over" /\ SameMemory(new, run[s])
        BY <1>1 DEF Memory, Steps, SameMemory
    <2>2. run'[s] = IF run[s].at = "new" THEN run[s] ELSE new
        BY DEF Gone
    <2> HIDE DEF new
    <2> QED
        BY <1>1, <2>1, <2>2 DEF SameMemory
<1>3. run' \in [Runs -> Memory]
    BY <1>2 DEF Gone
<1> QED
    BY <1>2, <1>3

\* The files a step may write.
LEMMA Written ==
    /\ NoFile \in File /\ NoFile.tracks = <<>> /\ NoFile.whole = FALSE
    /\ \A t \in Seq(Track) : Fresh(t) \in File /\ Fresh(t).tracks = t /\ Fresh(t).whole = TRUE /\ Fresh(t) # NoFile
    /\ \A f \in File : Partial(f) \in File /\ Partial(f).tracks = f.tracks /\ Partial(f).whole = FALSE
<1>1. <<>> \in Seq(Track)
    OBVIOUS
<1> QED
    BY <1>1 DEF NoFile, File, Fresh, Partial

\* What a run drops is there, when it counts the tracks of the file.
LEMMA StaleFits ==
    ASSUME NEW t \in Seq(Track), NEW indices \in SUBSET (Nat \ {0})
    PROVE  Stale(t, indices) \subseteq 1..Len(t)
BY DEF Stale, Tagged

LEMMA Probing ==
    ASSUME TypeOK, NEW r \in Runs, Probe(r)
    PROVE
           /\ run' \in [Runs -> Memory]
           /\ run'[r].at = "planned" /\ run'[r].path = run[r].path /\ run'[r].known = run[r].known
           /\ video[run[r].path].tracks \in Seq(Track)
           /\ run'[r].drop = Stale(video[run[r].path].tracks, run[r].known)
           /\ run'[r].tracks = Len(video[run[r].path].tracks)
           /\ \A s \in Runs \ {r} : run'[s] = run[s]
           /\ temp' \in [Runs -> File]
           /\ \A s \in Runs : temp'[s] = temp[s] \/ (temp'[s] = NoFile /\ run[s].at # "building")
<1> DEFINE t == video[run[r].path].tracks
<1>1. /\ run \in [Runs -> Memory] /\ run[r].path \in Paths /\ run[r].known \in SUBSET (Nat \ {0})
      /\ video[run[r].path] \in File /\ temp \in [Runs -> File]
    BY DEF TypeOK, Memory
<1>2. t \in Seq(Track) /\ Len(t) \in Nat
    BY <1>1 DEF File
<1>3. Stale(t, run[r].known) \in SUBSET (Nat \ {0})
    BY <1>1, <1>2, StaleFits
<1>4. PICK keep \in BackupSettings :
         run' = [run EXCEPT ![r] = [@ EXCEPT !.at = "planned", !.drop = Stale(t, run[r].known),
                                             !.tracks = Len(t), !.keep = keep]]
    BY DEF Probe
<1>5. keep \in BOOLEAN
    BY CleanSwapAssumption
<1> HIDE DEF t
<1> DEFINE d == Stale(t, run[r].known)
           new == [[[[run[r] EXCEPT !.at = "planned"] EXCEPT !.drop = d] EXCEPT !.tracks = Len(t)] EXCEPT !.keep = keep]
<1> HIDE DEF d
<1>6. run' = [run EXCEPT ![r] = new]
    BY <1>1, <1>4 DEF Memory, d
<1>7. /\ new \in Memory /\ new.at = "planned" /\ new.path = run[r].path /\ new.known = run[r].known
      /\ new.drop = d /\ new.tracks = Len(t)
    BY <1>1, <1>2, <1>3, <1>5 DEF Memory, Steps, d
<1> HIDE DEF new
<1>8. PICK swept \in SUBSET {s \in Runs : run[s].path = run[r].path /\ run[s].at # "building"} :
          temp' = [s \in Runs |-> IF s \in swept THEN NoFile ELSE temp[s]]
    BY DEF Probe, Sweep
<1>9. /\ temp' \in [Runs -> File]
      /\ \A s \in Runs : temp'[s] = temp[s] \/ (temp'[s] = NoFile /\ run[s].at # "building")
    BY <1>1, <1>8, Written
<1> QED
    BY <1>1, <1>2, <1>6, <1>7, <1>9 DEF t, d

---------------------------------------------------------------------------
(* The invariant of the runs is one *)

RunParts == DropFits /\ StepFits /\ DownIsQuiet /\ HeavyHoldsLock /\ SwapFits /\ TempFits

LEMMA InitRuns == Init => RunInv
<1> SUFFICES ASSUME Init PROVE RunInv
    OBVIOUS
<1>1. /\ NoRun \in Memory /\ NoRun.at = "new" /\ NoRun.path = 1 /\ NoRun.drop = {}
      /\ NoRun.known = {} /\ NoRun.tracks = 0
    BY CleanSwapAssumption DEF NoRun, Memory, Steps
<1>2. Fresh(Originals[1]) \in File
    BY FirstFile, Written
<1>3. TypeOK
    BY <1>1, <1>2, Written, CleanSwapAssumption DEF Init, TypeOK, Memory, States, Swaps
<1>4. DropFits /\ StepFits /\ DownIsQuiet /\ HeavyHoldsLock /\ SwapFits /\ TempFits
    BY <1>1 DEF Init, DropFits, StepFits, DownIsQuiet, HeavyHoldsLock, SwapFits, TempFits, Heavy, Early, InFlight
<1> QED
    BY <1>3, <1>4 DEF RunInv

LEMMA BeginKeepsRuns ==
    ASSUME RunInv, NEW r \in Runs, Begin(r)
    PROVE  RunInv'
<1>1. TypeOK /\ RunParts
    BY DEF RunInv, RunParts
<1>2. /\ run' \in [Runs -> Memory]
      /\ run'[r].at = "waiting" /\ run'[r].path = path /\ run'[r].known = known
      /\ run'[r].drop = run[r].drop /\ run'[r].tracks = run[r].tracks
      /\ \A s \in Runs \ {r} : run'[s] = run[s]
    BY <1>1, Beginning
<1>3. /\ process = "up" /\ run[r].at = "new" /\ state' = [state EXCEPT ![r] = "processing"]
      /\ UNCHANGED <<files, title, swap, lock, asked, process, lives>>
    BY DEF Begin
<1>4. /\ path \in Nat /\ path >= 1 /\ state \in [Runs -> States]
    BY <1>1, PathsAreNumbers DEF TypeOK
<1>5. TypeOK'
    BY <1>1, <1>2, <1>3 DEF TypeOK, Memory, files, title, States
<1>6. RunParts'
    BY <1>1, <1>2, <1>3, <1>4 DEF RunParts, DropFits, StepFits, DownIsQuiet, HeavyHoldsLock, SwapFits, TempFits,
        Heavy, Early, InFlight, files, title
<1> QED
    BY <1>5, <1>6 DEF RunInv, RunParts

LEMMA ProbeKeepsRuns ==
    ASSUME RunInv, NEW r \in Runs, Probe(r)
    PROVE  RunInv'
<1>1. TypeOK /\ RunParts
    BY DEF RunInv, RunParts
<1> DEFINE t == video[run[r].path].tracks
<1>2. /\ run' \in [Runs -> Memory]
      /\ run'[r].at = "planned" /\ run'[r].path = run[r].path /\ run'[r].known = run[r].known
      /\ t \in Seq(Track) /\ run'[r].drop = Stale(t, run[r].known) /\ run'[r].tracks = Len(t)
      /\ \A s \in Runs \ {r} : run'[s] = run[s]
      /\ temp' \in [Runs -> File]
      /\ \A s \in Runs : temp'[s] = temp[s] \/ (temp'[s] = NoFile /\ run[s].at # "building")
    BY <1>1, Probing
<1>3. run[r].known \in SUBSET (Nat \ {0})
    BY <1>1 DEF TypeOK
<1>4. Stale(t, run[r].known) \subseteq 1..Len(t)
    BY <1>2, <1>3, StaleFits
<1> HIDE DEF t
<1>5. run[r].at = "probing" /\ UNCHANGED <<video, backup, title, state, swap, lock, asked, process, lives>>
    BY DEF Probe
<1>6. TypeOK'
    BY <1>1, <1>2, <1>5 DEF TypeOK, Memory, title
<1>7. DropFits' /\ StepFits' /\ DownIsQuiet' /\ HeavyHoldsLock' /\ SwapFits'
    BY <1>1, <1>2, <1>4, <1>5 DEF RunParts, DropFits, StepFits, DownIsQuiet, HeavyHoldsLock, SwapFits,
        Heavy, Steps, Early, InFlight, title
<1>8. TempFits'
    BY <1>1, <1>2, <1>5 DEF RunParts, TempFits
<1> QED
    BY <1>6, <1>7, <1>8 DEF RunInv

\* A step within a run, which writes no file but its temp file and its backup.
LEMMA MovingKeepsRuns ==
    ASSUME RunInv, NEW r \in Runs, NEW to \in Steps \ {"new", "waiting", "planned", "over"}, Goes(r, to),
           run[r].at \notin {"new", "over"}, UNCHANGED <<video, title, state, asked, process, lives>>,
           temp' \in [Runs -> File], backup' \in [Runs -> File],
           swap' = swap \/ (to = "swapping" /\ swap' = [swap EXCEPT ![r] = "copying"]),
           to \in {"staging", "verifying"} \cup Early => swap[r] = "none",
           to \in {"tidying", "saving"} => swap[r] = "swapped",
           lock' \in Runs \cup {Free},
           to \in Heavy => lock' = r,
           \A s \in Runs \ {r} : lock = s => lock' = s,
           \A s \in Runs \ {r} : temp'[s] = temp[s],
           temp'[r] = NoFile \/ Clean \in TrackSet(temp'[r]),
           to = "building" => temp'[r] # NoFile,
           to \in {"staging", "swapping"} => temp'[r] = NoFile \/ temp'[r].whole,
           run[r].at \in {"planned", "building"} \/ temp' = temp
    PROVE  RunInv'
<1>1. TypeOK /\ RunParts
    BY DEF RunInv, RunParts
<1>2. /\ run' \in [Runs -> Memory]
      /\ run'[r].at = to
      /\ \A s \in Runs : SameMemory(run'[s], run[s])
      /\ \A s \in Runs \ {r} : run'[s].at = run[s].at
    <2>1. run \in [Runs -> Memory]
        BY <1>1 DEF TypeOK, Memory
    <2> QED
        BY <2>1, Moving
<1>3. TypeOK'
    BY <1>1, <1>2 DEF TypeOK, Memory, title, Swaps
<1>4. DropFits' /\ StepFits' /\ DownIsQuiet'
    <2>1. swap'[r] \in InFlight => process # "down"
        BY <1>1 DEF RunParts, DownIsQuiet
    <2>2. process # "down"
        BY <1>1 DEF RunParts, DownIsQuiet
    <2> QED
        BY <1>1, <1>2, <2>2 DEF RunParts, DropFits, StepFits, DownIsQuiet, SameMemory, title
<1>5. HeavyHoldsLock'
    BY <1>1, <1>2 DEF RunParts, HeavyHoldsLock
<1>6. SwapFits'
    <2>1. /\ swap \in [Runs -> Swaps] /\ \A s \in Runs \ {r} : swap'[s] = swap[s]
          /\ swap'[r] = swap[r] \/ (to = "swapping" /\ swap'[r] = "copying")
        BY <1>1 DEF TypeOK
    <2>2. swap[r] \in InFlight => run[r].at = "swapping"
        BY <1>1 DEF RunParts, SwapFits, StepFits
    <2>3. state[r] = "processing"
        BY <1>1 DEF RunParts, StepFits
    <2>4. swap'[r] \in InFlight => to = "swapping"
        BY <1>1, <2>1, <2>2 DEF InFlight, Early, Steps
    <2> QED
        BY <1>1, <1>2, <2>1, <2>3, <2>4 DEF RunParts, SwapFits, Steps, Early, InFlight
<1>7. TempFits'
    <2>1. /\ swap \in [Runs -> Swaps] /\ \A s \in Runs \ {r} : swap'[s] = swap[s]
          /\ swap'[r] = swap[r] \/ (to = "swapping" /\ swap'[r] = "copying")
        BY <1>1 DEF TypeOK
    <2>2. run[r].at \in {"planned", "building"} => swap[r] = "none"
        BY <1>1 DEF RunParts, SwapFits, Early
    <2>3. temp'[r] = temp[r] \/ swap[r] = "none"
        BY <2>2
    <2> QED
        BY <1>1, <1>2, <2>1, <2>3 DEF RunParts, TempFits
<1> QED
    BY <1>3, <1>4, <1>5, <1>6, <1>7 DEF RunInv

\* The shielded task goes a step further, or fails.
LEMMA SwapStepKeepsRuns ==
    ASSUME RunInv, NEW r \in Runs, NEW to \in Swaps \ {"none", "copying"},
           swap[r] \in InFlight, swap' = [swap EXCEPT ![r] = to],
           UNCHANGED <<title, state, run, lock, asked, process, lives>>,
           video' \in [Paths -> File], backup' \in [Runs -> File],
           temp' = temp \/ temp' = [temp EXCEPT ![r] = NoFile],
           to = "unlinking" => swap[r] = "copying",
           to = "replacing" => swap[r] = "unlinking"
    PROVE  RunInv'
<1>1. TypeOK /\ RunParts
    BY DEF RunInv, RunParts
<1>2. /\ swap \in [Runs -> Swaps] /\ swap'[r] = to /\ \A s \in Runs \ {r} : swap'[s] = swap[s]
      /\ temp \in [Runs -> File] /\ \A s \in Runs \ {r} : temp'[s] = temp[s]
      /\ temp'[r] = temp[r] \/ temp'[r] = NoFile
    BY <1>1 DEF TypeOK
<1>3. TypeOK'
    <2>1. temp' \in [Runs -> File]
        BY <1>2, Written
    <2> QED
        BY <1>1, <1>2, <2>1 DEF TypeOK, title
<1>4. DropFits' /\ StepFits' /\ HeavyHoldsLock'
    BY <1>1 DEF RunParts, DropFits, StepFits, HeavyHoldsLock, title
<1>5. DownIsQuiet'
    BY <1>1 DEF RunParts, DownIsQuiet
<1>6. run[r].at = "swapping" \/ state[r] = "cancelled"
    BY <1>1 DEF RunParts, SwapFits
<1>7. SwapFits'
    <2>1. run[r].at = "swapping" \/ run[r].at = "over"
        <3>1. run \in [Runs -> Memory]
            BY <1>1 DEF TypeOK, Memory
        <3> QED
            BY <1>1, <1>6, <3>1 DEF RunParts, StepFits, Memory, Steps
    <2>2. state[r] # "done"
        BY <1>1, <1>6, <2>1 DEF RunParts, StepFits
    <2> QED
        BY <1>1, <1>2, <1>6, <2>1, <2>2 DEF RunParts, SwapFits, Early, InFlight
<1>8. TempFits'
    <2>1. swap[r] = "copying" \/ swap[r] = "unlinking" \/ to \notin {"copying", "unlinking", "replacing"}
        OBVIOUS
    <2>2. run[r].at # "building"
        BY <1>1, <1>6 DEF RunParts, StepFits
    <2> QED
        BY <1>1, <1>2, <2>1, <2>2 DEF RunParts, TempFits
<1> QED
    BY <1>3, <1>4, <1>5, <1>7, <1>8 DEF RunInv, RunParts

\* A run is over.
LEMMA EndingKeepsRuns ==
    ASSUME RunInv, NEW r \in Runs, NEW outcome \in {"done", "failed", "cancelled"},
           run[r].at \notin {"new", "over"}, Ends(r, outcome),
           UNCHANGED <<video, backup, path, swap, process, lives>>,
           temp' = temp \/ temp' = [temp EXCEPT ![r] = NoFile],
           known' \in SUBSET (Nat \ {0}),
           outcome = "done" => run[r].at = "saving",
           outcome = "failed" => swap[r] \notin InFlight
    PROVE  RunInv'
<1>1. TypeOK /\ RunParts
    BY DEF RunInv, RunParts
<1>2. /\ run' \in [Runs -> Memory]
      /\ run'[r].at = "over"
      /\ \A s \in Runs : SameMemory(run'[s], run[s])
      /\ \A s \in Runs \ {r} : run'[s].at = run[s].at
    <2>1. run \in [Runs -> Memory] /\ "over" \in Steps
        BY <1>1 DEF TypeOK, Memory, Steps
    <2> QED
        BY <2>1, Moving DEF Ends
<1>3. /\ state \in [Runs -> States] /\ state' = [state EXCEPT ![r] = outcome]
      /\ lock' = (IF lock = r THEN Free ELSE lock) /\ asked' = asked \ {r}
    BY <1>1 DEF TypeOK, Ends, LeaveLock
<1>4. /\ temp \in [Runs -> File] /\ temp' \in [Runs -> File]
      /\ \A s \in Runs \ {r} : temp'[s] = temp[s]
      /\ temp'[r] = temp[r] \/ temp'[r] = NoFile
    <2>1. temp \in [Runs -> File]
        BY <1>1 DEF TypeOK
    <2>2. CASE temp' = temp
        BY <2>1, <2>2
    <2>3. CASE temp' = [temp EXCEPT ![r] = NoFile]
        BY <2>1, <2>3, Written
    <2> QED
        BY <2>2, <2>3
<1>5. TypeOK'
    BY <1>1, <1>2, <1>3, <1>4 DEF TypeOK, Memory, States
<1>6. DropFits' /\ StepFits' /\ DownIsQuiet'
    BY <1>1, <1>2, <1>3 DEF RunParts, DropFits, StepFits, DownIsQuiet, SameMemory
<1>7. HeavyHoldsLock'
    BY <1>1, <1>2, <1>3 DEF RunParts, HeavyHoldsLock, Heavy
<1>8. SwapFits'
    <2>1. outcome = "done" => swap[r] = "swapped"
        BY <1>1 DEF RunParts, SwapFits
    <2>2. swap[r] \in InFlight => outcome = "cancelled"
        BY <2>1 DEF InFlight
    <2> QED
        BY <1>1, <1>2, <1>3, <2>1, <2>2 DEF RunParts, SwapFits, Early
<1>9. TempFits'
    BY <1>1, <1>2, <1>4 DEF RunParts, TempFits
<1> QED
    BY <1>5, <1>6, <1>7, <1>8, <1>9 DEF RunInv

LEMMA GoneKeepsRuns ==
    ASSUME RunInv, Gone
    PROVE  RunInv'
<1>1. TypeOK /\ RunParts
    BY DEF RunInv, RunParts
<1>2. /\ run' \in [Runs -> Memory]
      /\ \A s \in Runs : /\ SameMemory(run'[s], run[s])
                         /\ run'[s].at = IF run[s].at = "new" THEN "new" ELSE "over"
    BY <1>1, Dying
<1>3. /\ swap \in [Runs -> Swaps] /\ swap' \in [Runs -> Swaps]
      /\ \A s \in Runs : /\ swap[s] \notin InFlight => swap'[s] = swap[s]
                         /\ swap[s] \in InFlight => swap'[s] \in {"cut", "failed"}
    BY <1>1 DEF TypeOK, Gone, CutShort, Swaps, InFlight
<1>4. process' = "down" /\ lock' = Free /\ asked' = {} /\ UNCHANGED <<files, title, state, lives>>
    BY DEF Gone
<1>5. TypeOK'
    BY <1>1, <1>2, <1>3, <1>4 DEF TypeOK, Memory, files, title
<1>6. DropFits' /\ StepFits' /\ DownIsQuiet' /\ HeavyHoldsLock'
    BY <1>1, <1>2, <1>3, <1>4 DEF RunParts, DropFits, StepFits, DownIsQuiet, HeavyHoldsLock, SameMemory,
        Heavy, InFlight, title
<1>7. SwapFits'
    <2>1. ASSUME NEW s \in Runs, state[s] = "done" PROVE swap[s] = "swapped"
        BY <1>1, <2>1 DEF RunParts, SwapFits
    <2> QED
        BY <1>1, <1>2, <1>3, <1>4, <2>1 DEF RunParts, SwapFits, InFlight, Early
<1>8. TempFits'
    BY <1>1, <1>2, <1>3, <1>4 DEF RunParts, TempFits, InFlight, files
<1> QED
    BY <1>5, <1>6, <1>7, <1>8 DEF RunInv

LEMMA StartKeepsRuns ==
    ASSUME RunInv, Start
    PROVE  RunInv'
<1>1. TypeOK /\ RunParts
    BY DEF RunInv, RunParts
<1>2. /\ process = "down" /\ process' = "up" /\ lives < MaxLives /\ lives' = lives + 1
      /\ UNCHANGED <<video, backup, title, run, swap, lock, asked>>
    BY DEF Start
<1>3. /\ temp' \in [Runs -> File] /\ \A s \in Runs : temp'[s] = temp[s] \/ temp'[s] = NoFile
      /\ state' \in [Runs -> States]
      /\ \A s \in Runs : state'[s] = IF state[s] = "processing" THEN "queued" ELSE state[s]
    BY <1>1, Written DEF TypeOK, Start, States
<1>4. \A s \in Runs : run[s].at \in {"new", "over"}
    BY <1>1, <1>2 DEF RunParts, DownIsQuiet
<1>5. TypeOK'
    BY <1>1, <1>2, <1>3, CleanSwapAssumption DEF TypeOK, title
<1>6. DropFits' /\ StepFits' /\ DownIsQuiet' /\ HeavyHoldsLock'
    BY <1>1, <1>2, <1>3, <1>4 DEF RunParts, DropFits, StepFits, DownIsQuiet, HeavyHoldsLock, Heavy, title
<1>7. SwapFits'
    BY <1>1, <1>2, <1>3, <1>4 DEF RunParts, SwapFits, DownIsQuiet
<1>8. TempFits'
    BY <1>1, <1>2, <1>3, <1>4 DEF RunParts, TempFits
<1> QED
    BY <1>5, <1>6, <1>7, <1>8 DEF RunInv

LEMMA ImportKeepsRuns ==
    ASSUME RunInv, NEW clears \in BOOLEAN, Import(clears)
    PROVE  RunInv'
<1>1. TypeOK /\ RunParts
    BY DEF RunInv, RunParts
<1>2. /\ path + 1 \in Paths /\ path' = path + 1 /\ known' \in {{}, known}
      /\ UNCHANGED <<temp, backup, state, run, swap, lock, asked, process, lives>>
    BY DEF Import
<1>3. video' \in [Paths -> File]
    <2>1. Fresh(Originals[path + 1]) \in File
        <3>1. /\ Originals[path + 1] \in Seq(OriginalSet(path + 1))
              /\ OriginalSet(path + 1) \subseteq Track
            BY <1>2, CleanSwapAssumption DEF Track
        <3>2. Originals[path + 1] \in Seq(Track)
            <4>1. \A i \in 1..Len(Originals[path + 1]) : Originals[path + 1][i] \in Track
                BY <3>1
            <4> QED
                BY <3>1, <4>1
        <3> QED
            BY <3>2, Written
    <2> QED
        BY <1>1, <2>1, Written DEF Import, TypeOK
<1>4. TypeOK'
    BY <1>1, <1>2, <1>3 DEF TypeOK
<1>5. DropFits'
    BY <1>1, <1>2, PathsAreNumbers DEF RunParts, DropFits, TypeOK
<1>6. StepFits' /\ DownIsQuiet' /\ HeavyHoldsLock' /\ SwapFits' /\ TempFits'
    BY <1>1, <1>2 DEF RunParts, StepFits, DownIsQuiet, HeavyHoldsLock, SwapFits, TempFits
<1> QED
    BY <1>4, <1>5, <1>6 DEF RunInv

\* What a run writes to the Title row is the index of a track.
LEMMA RecordsAnIndex ==
    ASSUME TypeOK, RunParts, NEW r \in Runs, Record(r)
    PROVE  /\ known' \in SUBSET (Nat \ {0}) /\ known' \in {known, NewIndex(r)}
           /\ Cardinality(run[r].drop) \in Nat /\ Cardinality(run[r].drop) <= run[r].tracks
<1>1. /\ known \in SUBSET (Nat \ {0}) /\ run[r].tracks \in Nat
      /\ run[r].drop \subseteq 1..run[r].tracks
    BY DEF TypeOK, RunParts, DropFits
<1>2. Cardinality(run[r].drop) \in Nat /\ Cardinality(run[r].drop) <= run[r].tracks
    <2>1. PICK b \in Nat : b = run[r].tracks
        BY <1>1
    <2>2. \A i \in run[r].drop : i \in Nat /\ 0 < i /\ i <= b
        BY <1>1, <2>1
    <2>3. Cardinality(run[r].drop) \in Nat /\ Cardinality(run[r].drop) <= b - 0
        BY <2>1, <2>2, FewDropped
    <2> QED
        BY <2>1, <2>3
<1>3. NewIndex(r) \in SUBSET (Nat \ {0})
    BY <1>1, <1>2 DEF NewIndex
<1> QED
    BY <1>1, <1>2, <1>3 DEF Record

LEMMA RunStepKeepsRuns ==
    ASSUME RunInv, NEW r \in Runs, Advance(r)
    PROVE  RunInv'
<1>1. TypeOK /\ RunParts
    BY DEF RunInv, RunParts
<1>2. /\ temp \in [Runs -> File] /\ backup \in [Runs -> File] /\ lock \in Runs \cup {Free}
      /\ run \in [Runs -> Memory] /\ swap \in [Runs -> Swaps] /\ Free \notin Runs
    BY <1>1, CleanSwapAssumption DEF TypeOK, Memory
<1>3. /\ run[r].at \in Heavy => lock = r
      /\ run[r].at \in {"new", "staging", "verifying"} \cup Early => swap[r] = "none"
      /\ run[r].at \in {"tidying", "saving"} => swap[r] = "swapped"
      /\ temp[r] = NoFile \/ Clean \in TrackSet(temp[r])
      /\ run[r].at = "building" => temp[r] # NoFile
      /\ run[r].at \in {"staging", "swapping"} => temp[r] = NoFile \/ temp[r].whole
    BY <1>1 DEF RunParts, HeavyHoldsLock, SwapFits, TempFits
<1>4. CASE Acquire(r)
    <2>1. /\ Goes(r, "probing") /\ run[r].at = "waiting" /\ lock = Free /\ lock' = r
          /\ UNCHANGED <<files, title, state, swap, asked, process, lives>>
        BY <1>4 DEF Acquire, Step
    <2> QED
        BY <1>2, <1>3, <2>1, MovingKeepsRuns DEF Steps, Early, Heavy, files, title
<1>5. CASE Build(r)
    <2> DEFINE f == Partial(Fresh(Remuxed(video[run[r].path].tracks, run[r].drop)))
    <2>1. /\ Goes(r, "building") /\ run[r].at = "planned"
          /\ temp' = [temp EXCEPT ![r] = f]
          /\ UNCHANGED <<video, backup, title, state, swap, lock, asked, process, lives>>
        BY <1>5 DEF Build, Step
    <2>2. video[run[r].path].tracks \in Seq(Track)
        BY <1>1 DEF TypeOK, File
    <2>3. f \in File /\ Clean \in TrackSet(f)
        <3> DEFINE u == Remuxed(video[run[r].path].tracks, run[r].drop)
        <3>1. u \in Seq(Track) /\ Len(u) \in Nat \ {0} /\ u[Len(u)] = Clean
            BY <2>2, RemuxedTracks
        <3>2. f \in File /\ f.tracks = u
            BY <3>1, Written
        <3> HIDE DEF f, u
        <3> QED
            BY <3>1, <3>2 DEF TrackSet
    <2>4. f # NoFile
        BY <2>3, Written DEF TrackSet
    <2> HIDE DEF f
    <2>5. temp' \in [Runs -> File] /\ temp'[r] = f /\ \A s \in Runs \ {r} : temp'[s] = temp[s]
        BY <1>2, <2>1, <2>3
    <2> QED
        BY <1>2, <1>3, <2>1, <2>3, <2>4, <2>5, MovingKeepsRuns DEF Steps, Early, Heavy
<1>6. CASE Built(r)
    <2> DEFINE f == [temp[r] EXCEPT !.whole = TRUE]
    <2>1. /\ Goes(r, "verifying") /\ run[r].at = "building"
          /\ temp' = [temp EXCEPT ![r] = f]
          /\ UNCHANGED <<video, backup, title, state, swap, lock, asked, process, lives>>
        BY <1>2, <1>6 DEF Built, Step
    <2>2. f \in File /\ f.tracks = temp[r].tracks
        BY <1>2 DEF File
    <2>3. Clean \in TrackSet(f)
        BY <1>3, <2>1, <2>2 DEF TrackSet
    <2> HIDE DEF f
    <2>4. temp' \in [Runs -> File] /\ temp'[r] = f /\ \A s \in Runs \ {r} : temp'[s] = temp[s]
        BY <1>2, <2>1, <2>2
    <2> QED
        BY <1>2, <1>3, <2>1, <2>3, <2>4, MovingKeepsRuns DEF Steps, Early, Heavy
<1>7. CASE Verify(r)
    <2>1. /\ Goes(r, "staging") /\ run[r].at = "verifying" /\ temp[r].whole
          /\ UNCHANGED <<files, title, state, swap, lock, asked, process, lives>>
        BY <1>7 DEF Verify, Verified, Step
    <2> QED
        BY <1>2, <1>3, <2>1, MovingKeepsRuns DEF Steps, Early, Heavy, files
<1>8. CASE BeginSwap(r)
    <2>1. /\ Goes(r, "swapping") /\ run[r].at = "staging" /\ swap' = [swap EXCEPT ![r] = "copying"]
          /\ UNCHANGED <<files, title, state, lock, asked, process, lives>>
        BY <1>8 DEF BeginSwap, Step
    <2> QED
        BY <1>2, <1>3, <2>1, MovingKeepsRuns DEF Steps, Early, Heavy, files
<1>9. CASE Swapped(r)
    <2>1. /\ Goes(r, "tidying") /\ run[r].at = "swapping" /\ swap[r] = "swapped"
          /\ UNCHANGED <<files, title, state, swap, lock, asked, process, lives>>
        BY <1>9 DEF Swapped, Step
    <2> QED
        BY <1>2, <1>3, <2>1, MovingKeepsRuns DEF Steps, Early, Heavy, files
<1>10. CASE Tidy(r)
    <2>1. /\ Goes(r, "saving") /\ run[r].at = "tidying"
          /\ backup' = (IF run[r].keep THEN backup ELSE [backup EXCEPT ![r] = NoFile])
          /\ lock' = (IF lock = r THEN Free ELSE lock)
          /\ UNCHANGED <<video, temp, title, state, swap, asked, process, lives>>
        BY <1>10 DEF Tidy, Step, LeaveLock
    <2>2. backup' \in [Runs -> File]
        BY <1>2, <2>1, Written
    <2> QED
        BY <1>2, <1>3, <2>1, <2>2, MovingKeepsRuns DEF Steps, Early, Heavy
<1>11. CASE Save(r)
    <2>1. /\ run[r].at = "saving" /\ Ends(r, "done") /\ Record(r)
          /\ UNCHANGED <<files, path, swap, process, lives>>
        BY <1>11 DEF Save
    <2>2. known' \in SUBSET (Nat \ {0})
        BY <1>1, <2>1, RecordsAnIndex
    <2> QED
        BY <2>1, <2>2, EndingKeepsRuns DEF files
<1>12. CASE Fail(r)
    <2>1. /\ Ends(r, "failed") /\ UNCHANGED <<video, backup, title, swap, process, lives>>
          /\ run[r].at \notin {"new", "over"}
          /\ temp' = temp \/ temp' = [temp EXCEPT ![r] = NoFile]
          /\ swap[r] = "none" \/ swap[r] = "failed"
        BY <1>3, <1>12 DEF Fail, Early
    <2>2. known' \in SUBSET (Nat \ {0})
        BY <1>1, <2>1 DEF TypeOK, title
    <2> QED
        BY <2>1, <2>2, EndingKeepsRuns DEF title, InFlight
<1>13. CASE Begin(r)
    BY <1>13, BeginKeepsRuns
<1>14. CASE Probe(r)
    BY <1>14, ProbeKeepsRuns
<1> QED
    BY <1>4, <1>5, <1>6, <1>7, <1>8, <1>9, <1>10, <1>11, <1>12, <1>13, <1>14 DEF Advance

LEMMA SwapMoveKeepsRuns ==
    ASSUME RunInv, NEW r \in Runs, SwapSucceeds(r) \/ SwapFails(r) \/ CloseLoop(r)
    PROVE  RunInv'
<1>1. TypeOK
    BY DEF RunInv
<1>2. /\ video \in [Paths -> File] /\ backup \in [Runs -> File] /\ temp \in [Runs -> File]
      /\ swap \in [Runs -> Swaps] /\ run[r].path \in Paths /\ video[run[r].path] \in File /\ backup[r] \in File
    BY <1>1 DEF TypeOK
<1>3. CASE CopyAside(r)
    <2>1. /\ swap[r] = "copying" /\ swap' = [swap EXCEPT ![r] = "unlinking"]
          /\ backup' \in [Runs -> File] /\ UNCHANGED <<video, temp, title, state, run, lock, asked, process, lives>>
        BY <1>2, <1>3 DEF CopyAside
    <2> QED
        BY <1>2, <2>1, SwapStepKeepsRuns DEF Swaps, InFlight
<1>4. CASE UnlinkSource(r)
    <2>1. /\ swap[r] = "unlinking" /\ swap' = [swap EXCEPT ![r] = "replacing"]
          /\ video' \in [Paths -> File] /\ UNCHANGED <<temp, backup, title, state, run, lock, asked, process, lives>>
        BY <1>2, <1>4, Written DEF UnlinkSource
    <2> QED
        BY <1>2, <2>1, SwapStepKeepsRuns DEF Swaps, InFlight
<1>5. CASE Replace(r)
    <2>1. /\ swap[r] = "replacing" /\ swap' = [swap EXCEPT ![r] = "swapped"]
          /\ video' \in [Paths -> File] /\ temp' = [temp EXCEPT ![r] = NoFile]
          /\ UNCHANGED <<backup, title, state, run, lock, asked, process, lives>>
        BY <1>2, <1>5 DEF Replace
    <2> QED
        BY <1>2, <2>1, SwapStepKeepsRuns DEF Swaps, InFlight
<1>6. CASE Restore(r)
    <2>1. /\ swap[r] = "restoring" /\ swap' = [swap EXCEPT ![r] = "failed"]
          /\ video' \in [Paths -> File] /\ temp' = [temp EXCEPT ![r] = NoFile]
          /\ backup' \in [Runs -> File] /\ UNCHANGED <<title, state, run, lock, asked, process, lives>>
        BY <1>2, <1>6, Written DEF Restore
    <2> QED
        BY <1>2, <2>1, SwapStepKeepsRuns DEF Swaps, InFlight
<1>7. CASE MoveFails(r)
    <2>1. /\ swap[r] \in {"copying", "unlinking"} /\ swap' = [swap EXCEPT ![r] = "failed"]
          /\ UNCHANGED <<video, temp, title, state, run, lock, asked, process, lives>>
          /\ backup' = backup \/ backup' = [backup EXCEPT ![r] = Partial(video[run[r].path])]
        BY <1>7 DEF MoveFails
    <2>2. backup' \in [Runs -> File]
        <3>1. Partial(video[run[r].path]) \in File
            BY <1>2, Written
        <3> QED
            BY <1>2, <2>1, <3>1
    <2> QED
        BY <1>2, <2>1, <2>2, SwapStepKeepsRuns DEF Swaps, InFlight
<1>8. CASE ReplaceFails(r)
    <2>1. /\ swap[r] = "replacing" /\ swap' = [swap EXCEPT ![r] = "restoring"]
          /\ video' = [video EXCEPT ![run[r].path] = Partial(backup[r])]
          /\ UNCHANGED <<temp, backup, title, state, run, lock, asked, process, lives>>
        BY <1>8 DEF ReplaceFails
    <2>2. video' \in [Paths -> File]
        BY <1>2, <2>1, Written
    <2> QED
        BY <1>2, <2>1, <2>2, SwapStepKeepsRuns DEF Swaps, InFlight
<1>9. CASE RestoreFails(r)
    <2>1. /\ swap[r] = "restoring" /\ swap' = [swap EXCEPT ![r] = "failed"]
          /\ UNCHANGED <<files, title, state, run, lock, asked, process, lives>>
        BY <1>9 DEF RestoreFails
    <2> QED
        BY <1>2, <2>1, SwapStepKeepsRuns DEF Swaps, InFlight, files
<1>10. CASE CloseLoop(r)
    <2>1. /\ swap[r] \in InFlight
          /\ swap' = [swap EXCEPT ![r] = CutShort(r)] /\ CutShort(r) \in {"cut", "failed"}
          /\ UNCHANGED <<temp, title, state, run, lock, asked, process, lives>>
        BY <1>10 DEF CloseLoop, LastMove, CutShort, InFlight
    <2>2. video' \in [Paths -> File] /\ backup' \in [Runs -> File]
        BY <1>2, <1>10, Written DEF CloseLoop, LastMove
    <2> HIDE DEF CutShort
    <2> QED
        BY <1>2, <2>1, <2>2, SwapStepKeepsRuns DEF Swaps
<1> QED
    BY <1>3, <1>4, <1>5, <1>6, <1>7, <1>8, <1>9, <1>10 DEF SwapSucceeds, SwapFails

LEMMA CancelKeepsRuns ==
    ASSUME RunInv, NEW r \in Runs, Cancel(r)
    PROVE  RunInv'
<1>1. TypeOK /\ RunParts
    BY DEF RunInv, RunParts
<1>2. /\ run[r].at \notin {"new", "over"} /\ UNCHANGED <<video, backup, path, swap, process, lives>>
      /\ \/ /\ temp' = [temp EXCEPT ![r] = NoFile] \/ temp' = temp
            /\ known' = known /\ Ends(r, "cancelled")
         \/ run[r].at = "saving" /\ Record(r) /\ Ends(r, "done") /\ temp' = temp
    BY DEF Cancel, Cancelled
<1>3. known' \in SUBSET (Nat \ {0})
    <2>1. known \in SUBSET (Nat \ {0})
        BY <1>1 DEF TypeOK
    <2>2. Record(r) => known' \in SUBSET (Nat \ {0})
        BY <1>1, RecordsAnIndex
    <2> QED
        BY <1>2, <2>1, <2>2
<1> QED
    BY <1>2, <1>3, EndingKeepsRuns

LEMMA NextKeepsRuns == RunInv /\ [Next]_vars => RunInv'
<1> SUFFICES ASSUME RunInv, [Next]_vars PROVE RunInv'
    OBVIOUS
<1>1. TypeOK /\ RunParts
    BY DEF RunInv, RunParts
<1>2. ASSUME NEW r \in Runs, Advance(r) PROVE RunInv'
    BY <1>2, RunStepKeepsRuns
<1>3. ASSUME NEW r \in Runs, SwapSucceeds(r) \/ SwapFails(r) \/ CloseLoop(r) PROVE RunInv'
    BY <1>3, SwapMoveKeepsRuns
<1>4. ASSUME NEW r \in Runs, Cancel(r) PROVE RunInv'
    BY <1>4, CancelKeepsRuns
<1>5. ASSUME (\E r \in Runs : AskCancel(r)) \/ Stop PROVE RunInv'
    <2>1. /\ UNCHANGED <<files, title, state, run, swap, lock, lives>> /\ asked' \subseteq Runs
          /\ process' \in {"up", "stopping"}
        BY <1>1, <1>5 DEF AskCancel, Stop, TypeOK
    <2> QED
        BY <1>1, <2>1 DEF RunInv, TypeOK, RunParts, DropFits, StepFits, DownIsQuiet, HeavyHoldsLock, SwapFits, TempFits,
            files, title
<1>6. CASE Exit \/ Crash
    BY <1>6, GoneKeepsRuns DEF Exit, Crash
<1>7. CASE Start
    BY <1>7, StartKeepsRuns
<1>8. ASSUME NEW clears \in BOOLEAN, Import(clears) PROVE RunInv'
    BY <1>8, ImportKeepsRuns
<1>9. CASE UNCHANGED vars
    BY <1>1, <1>9 DEF RunInv, TypeOK, RunParts, DropFits, StepFits, DownIsQuiet, HeavyHoldsLock, SwapFits, TempFits,
        vars, files, title
<1> QED
    BY <1>2, <1>3, <1>4, <1>5, <1>6, <1>7, <1>8, <1>9 DEF Next

\* The files, the rows, what the runs remember and the lock stay what they are
\* meant to be: what a run drops are tracks it counted, the index it records is
\* one of a track, and ffmpeg writes a file of tracks whatever it drops.
THEOREM TypeCorrect == Spec => []TypeOK
<1>1. RunInv => TypeOK
    BY DEF RunInv
<1> QED
    BY <1>1, InitRuns, NextKeepsRuns, PTL DEF Spec

---------------------------------------------------------------------------
(* The invariant of a title that has had one file *)

Based(t) ==
    /\ t \in Seq(Track) /\ FirstLen <= Len(t)
    /\ \A i \in 1..Len(t) : t[i] = IF i <= FirstLen THEN Originals[1][i] ELSE Clean

LEMMA GoodFiles ==
    /\ Good(NoFile)
    /\ \A f \in File : Good(f) => Good(Partial(f))
    /\ \A f \in File : Good(f) /\ f # NoFile => Based(f.tracks)
    /\ \A f \in File : Based(f.tracks) => Good(f)
    /\ Based(Originals[1]) /\ Good(Fresh(Originals[1]))
<1>1. ASSUME NEW f \in File, Good(f) PROVE Good(Partial(f))
    <2>1. CASE f = NoFile
        <3>1. \A g, h \in File : g.tracks = h.tracks /\ g.whole = h.whole => g = h
            BY DEF File
        <3>2. Partial(NoFile) = NoFile
            <4>1. NoFile \in File /\ NoFile.whole = FALSE
                BY Written
            <4>2. /\ Partial(NoFile) \in File /\ Partial(NoFile).tracks = NoFile.tracks
                  /\ Partial(NoFile).whole = FALSE
                BY <4>1, Written
            <4> QED
                BY <3>1, <4>1, <4>2, Zenon
        <3> QED
            BY <2>1, <3>2 DEF Good
    <2>2. CASE f # NoFile
        BY <1>1, <2>2, Written DEF Good
    <2> QED
        BY <2>1, <2>2
<1>2. ASSUME NEW f \in File, Good(f), f # NoFile PROVE Based(f.tracks)
    BY <1>2 DEF Good, Based, File
<1>3. ASSUME NEW f \in File, Based(f.tracks) PROVE Good(f)
    BY <1>3 DEF Good, Based
<1>4. Based(Originals[1])
    BY FirstFile DEF Based, FirstLen
<1>5. Good(Fresh(Originals[1]))
    BY <1>3, <1>4, Written DEF Based
<1> QED
    BY <1>1, <1>2, <1>3, <1>4, <1>5 DEF Good

\* The tracks a run would drop of such a file come after the first file's.
LEMMA StaleIsLater ==
    ASSUME NEW t, Based(t), NEW indices \in SUBSET Later
    PROVE  Stale(t, indices) \in SUBSET Later
<1>1. /\ FirstLen \in Nat /\ \A i \in 1..FirstLen : Originals[1][i] # Clean
      /\ Len(t) \in Nat /\ DOMAIN t = 1..Len(t)
    BY FirstFile DEF Based
<1>2. \A i \in 1..Len(t) : t[i] = Clean => i \in Later
    BY <1>1 DEF Based, Later
<1>3. Tagged(t) \in SUBSET Later
    BY <1>1, <1>2 DEF Tagged
<1> QED
    BY <1>3 DEF Stale

\* With one clean track at most, it drops that one.
LEMMA StaleIsOne ==
    ASSUME NEW t, Based(t), NEW indices \in SUBSET {FirstLen + 1}, TagsStick, Len(t) <= FirstLen + 1
    PROVE  \/ Len(t) = FirstLen /\ Stale(t, indices) = {}
           \/ Len(t) = FirstLen + 1 /\ Stale(t, indices) = {FirstLen + 1}
<1>1. /\ FirstLen \in Nat /\ \A i \in 1..FirstLen : Originals[1][i] # Clean
      /\ Len(t) \in Nat /\ DOMAIN t = 1..Len(t) /\ FirstLen <= Len(t)
    BY FirstFile DEF Based
<1>2. CASE Len(t) = FirstLen
    <2>1. indices \cap DOMAIN t = {}
        BY <1>1, <1>2
    <2>2. Tagged(t) = {}
        BY <1>1, <1>2 DEF Tagged, Based
    <2> QED
        BY <1>2, <2>1, <2>2 DEF Stale
<1>3. CASE Len(t) = FirstLen + 1
    <2>1. indices \cap DOMAIN t \in {{}, {FirstLen + 1}}
        BY <1>1, <1>3
    <2>2. \A i \in 1..Len(t) : t[i] = Clean <=> i = FirstLen + 1
        BY <1>1, <1>3 DEF Based
    <2>3. Tagged(t) = {FirstLen + 1}
        BY <1>1, <1>3, <2>2 DEF Tagged
    <2> QED
        BY <1>3, <2>1, <2>3 DEF Stale
<1>4. Len(t) = FirstLen \/ Len(t) = FirstLen + 1
    <2>1. PICK n \in Nat : n = FirstLen
        BY <1>1
    <2>2. PICK m \in Nat : m = Len(t)
        BY <1>1
    <2>3. n <= m /\ m <= n + 1
        BY <1>1, <2>1, <2>2
    <2> QED
        BY <2>1, <2>2, <2>3
<1> QED
    BY <1>2, <1>3, <1>4

LEMMA InitFile == Init => OneFileInv
<1> SUFFICES ASSUME Init PROVE OneFileInv
    OBVIOUS
<1>1. 1 \in Paths /\ video[1] = Fresh(Originals[1]) /\ video[1].tracks = Originals[1]
    BY CleanSwapAssumption, FirstFile, Written DEF Init
<1>2. AllGood
    BY <1>1, GoodFiles DEF Init, AllGood
<1>3. DropsLater /\ DropsOne
    BY DEF Init, DropsLater, DropsOne, Planned, NoRun
<1>4. AllShort
    <2>1. Len(video[1].tracks) = FirstLen
        BY <1>1 DEF FirstLen
    <2>2. Len(NoFile.tracks) = 0
        BY Written
    <2> QED
        BY <2>1, <2>2, FirstFile DEF Init, AllShort, Short
<1> QED
    BY <1>2, <1>3, <1>4 DEF OneFileInv, OneFile

\* A step that lets every run remember what it did.
LEMMA MemoryKeepsDrops ==
    ASSUME OneFile, known' = known,
           \A s \in Runs : SameMemory(run'[s], run[s]) /\ (run'[s].at \in Planned => run[s].at \in Planned)
    PROVE  DropsLater' /\ (TagsStick => DropsOne')
BY DEF OneFile, DropsLater, DropsOne, SameMemory

\* A step that leaves the files of others and of the swaps alone.
LEMMA SameFilesKeepsGood ==
    ASSUME OneFile, UNCHANGED <<video, backup>>,
           \A s \in Runs : temp'[s] = temp[s] \/ temp'[s] = NoFile,
           \A s \in Runs : /\ run'[s].at \in {"staging", "swapping"} => run[s].at \in {"staging", "swapping"}
                           /\ swap'[s] \in {"copying", "unlinking", "replacing"} =>
                                \/ swap[s] \in {"copying", "unlinking", "replacing"}
                                \/ run[s].at \in {"staging", "swapping"}
    PROVE  AllGood' /\ (TagsStick => AllShort')
<1>1. Short(NoFile)
    BY Written, FirstFile DEF Short
<1>2. AllGood'
    BY GoodFiles DEF OneFile, AllGood
<1>3. TagsStick => AllShort'
    BY <1>1 DEF OneFile, AllShort
<1> QED
    BY <1>2, <1>3

\* A run that is over, whether or not it recorded an index.
LEMMA EndingKeepsFile ==
    ASSUME RunInv, OneFile, NEW r \in Runs, NEW outcome, Ends(r, outcome),
           UNCHANGED <<video, backup, known, swap>>,
           temp' = temp \/ temp' = [temp EXCEPT ![r] = NoFile]
    PROVE  OneFile'
<1>1. run \in [Runs -> Memory] /\ temp \in [Runs -> File]
    BY DEF RunInv, TypeOK, Memory
<1>2. /\ run'[r].at = "over" /\ \A s \in Runs : SameMemory(run'[s], run[s])
      /\ \A s \in Runs \ {r} : run'[s].at = run[s].at
    BY <1>1, Moving DEF Ends, Steps
<1>3. \A s \in Runs : temp'[s] = temp[s] \/ temp'[s] = NoFile
    BY <1>1
<1>4. AllGood' /\ (TagsStick => AllShort')
    BY <1>2, <1>3, SameFilesKeepsGood
<1>5. DropsLater' /\ (TagsStick => DropsOne')
    BY <1>2, MemoryKeepsDrops DEF Planned
<1> QED
    BY <1>4, <1>5 DEF OneFile

LEMMA SavingKeepsFile ==
    ASSUME RunInv, OneFile, NEW r \in Runs, NEW outcome, run[r].at = "saving", Ends(r, outcome), Record(r),
           UNCHANGED <<video, temp, backup, swap>>
    PROVE  OneFile'
<1>1. /\ TypeOK /\ RunParts /\ run \in [Runs -> Memory]
      /\ run[r].tracks \in Nat /\ run[r].drop \subseteq 1..run[r].tracks
    BY DEF RunInv, RunParts, DropFits, TypeOK, Memory
<1>2. /\ run'[r].at = "over" /\ \A s \in Runs : SameMemory(run'[s], run[s])
      /\ \A s \in Runs \ {r} : run'[s].at = run[s].at
    BY <1>1, Moving DEF Ends, Steps
<1>3. known' = known \/ known' = NewIndex(r)
    BY DEF Record
<1>4. NewIndex(r) \in SUBSET Later
    <2>1. run[r].drop \subseteq Later /\ run[r].tracks >= FirstLen /\ FirstLen \in Nat
        BY FirstFile DEF OneFile, DropsLater, Planned
    <2>2. \A i \in run[r].drop : i \in Nat /\ FirstLen < i /\ i <= run[r].tracks
        BY <1>1, <2>1 DEF Later
    <2>3. Cardinality(run[r].drop) \in Nat /\ Cardinality(run[r].drop) <= run[r].tracks - FirstLen
        BY <1>1, <2>1, <2>2, FewDropped
    <2> QED
        BY <1>1, <2>1, <2>3 DEF NewIndex, Later
<1>5. TagsStick => NewIndex(r) = {FirstLen + 1}
    <2>1. SUFFICES ASSUME TagsStick PROVE NewIndex(r) = {FirstLen + 1}
        OBVIOUS
    <2>2. \/ run[r].tracks = FirstLen /\ run[r].drop = {}
          \/ run[r].tracks = FirstLen + 1 /\ run[r].drop = {FirstLen + 1}
        BY <2>1 DEF OneFile, DropsOne, Planned
    <2>3. Cardinality({}) = 0 /\ Cardinality({FirstLen + 1}) = 1
        BY FS_EmptySet, FS_Singleton
    <2>4. PICK n \in Nat : n = FirstLen
        BY FirstFile
    <2>5. \/ run[r].tracks = n /\ Cardinality(run[r].drop) = 0
          \/ run[r].tracks = n + 1 /\ Cardinality(run[r].drop) = 1
        BY <2>2, <2>3, <2>4, Zenon
    <2>6. run[r].tracks - Cardinality(run[r].drop) + 1 = n + 1
        BY <2>4, <2>5
    <2> QED
        BY <2>4, <2>6 DEF NewIndex
<1>6. AllGood' /\ (TagsStick => AllShort')
    BY <1>2, SameFilesKeepsGood
<1>7. DropsLater'
    BY <1>2, <1>3, <1>4 DEF OneFile, DropsLater, SameMemory, Planned
<1>8. TagsStick => DropsOne'
    BY <1>2, <1>3, <1>5 DEF OneFile, DropsOne, SameMemory, Planned
<1> QED
    BY <1>6, <1>7, <1>8 DEF OneFile

LEMMA RunStepKeepsFile ==
    ASSUME RunInv, OneFile, path = 1, NEW r \in Runs, Advance(r)
    PROVE  OneFile'
<1>1. TypeOK /\ RunParts
    BY DEF RunInv, RunParts
<1>2. /\ run \in [Runs -> Memory] /\ \A s \in Runs : run[s].path = 1
      /\ 1 \in Paths /\ video[1] \in File /\ temp \in [Runs -> File] /\ backup \in [Runs -> File]
    <2>1. \A s \in Runs : run[s].path \in 1..1
        BY <1>1 DEF RunParts, DropFits
    <2> QED
        BY <1>1, <2>1, CleanSwapAssumption DEF TypeOK, Memory
<1>3. /\ \A to \in Steps : Goes(r, to) =>
             /\ run'[r].at = to /\ \A s \in Runs : SameMemory(run'[s], run[s])
             /\ \A s \in Runs \ {r} : run'[s].at = run[s].at
    BY <1>2, Moving
<1>4. CASE Begin(r)
    <2>1. /\ run'[r].at = "waiting" /\ run'[r].known = known /\ run'[r].drop = run[r].drop
          /\ \A s \in Runs \ {r} : run'[s] = run[s]
        BY <1>1, <1>4, Beginning
    <2>2. UNCHANGED <<files, title, swap>>
        BY <1>4 DEF Begin
    <2>3. AllGood' /\ (TagsStick => AllShort')
        <3> HIDE DEF Planned
        <3> QED
            BY <2>1, <2>2, SameFilesKeepsGood DEF files
    <2>4. DropsLater' /\ (TagsStick => DropsOne')
        BY <2>1, <2>2 DEF OneFile, DropsLater, DropsOne, Planned, title
    <2> QED
        BY <2>3, <2>4 DEF OneFile
<1>5. CASE Acquire(r) \/ Swapped(r)
    <2>1. /\ \/ Goes(r, "probing") /\ run[r].at = "waiting"
             \/ Goes(r, "tidying") /\ run[r].at = "swapping"
          /\ UNCHANGED <<files, title, swap>>
        BY <1>5 DEF Acquire, Swapped, Step
    <2>2. AllGood' /\ (TagsStick => AllShort')
        BY <1>3, <2>1, SameFilesKeepsGood DEF files, Steps
    <2>3. DropsLater' /\ (TagsStick => DropsOne')
        BY <1>3, <2>1, MemoryKeepsDrops DEF Planned, title, Steps
    <2> QED
        BY <2>2, <2>3 DEF OneFile
<1>6. CASE Probe(r)
    <2> DEFINE t == video[run[r].path].tracks
    <2>1. /\ run'[r].at = "planned" /\ run'[r].known = run[r].known
          /\ t \in Seq(Track) /\ run'[r].drop = Stale(t, run[r].known) /\ run'[r].tracks = Len(t)
          /\ \A s \in Runs \ {r} : run'[s] = run[s]
          /\ \A s \in Runs : temp'[s] = temp[s] \/ temp'[s] = NoFile
        BY <1>1, <1>6, Probing
    <2>2. video[1] # NoFile /\ UNCHANGED <<video, backup, title, swap>>
        BY <1>2, <1>6 DEF Probe, Exists
    <2>3. Based(t)
        BY <1>2, <2>2, GoodFiles DEF OneFile, AllGood
    <2>4. run[r].known \in SUBSET Later /\ known \in SUBSET Later
        BY DEF OneFile, DropsLater
    <2>5. Stale(t, run[r].known) \in SUBSET Later /\ Len(t) >= FirstLen
        BY <2>3, <2>4, StaleIsLater DEF Based
    <2>6. AllGood' /\ (TagsStick => AllShort')
        BY <2>1, <2>2, SameFilesKeepsGood
    <2>7. ASSUME TagsStick
          PROVE  \/ Len(t) = FirstLen /\ Stale(t, run[r].known) = {}
                 \/ Len(t) = FirstLen + 1 /\ Stale(t, run[r].known) = {FirstLen + 1}
        <3>1. run[r].known \in SUBSET {FirstLen + 1} /\ Len(t) <= FirstLen + 1
            BY <1>2, <2>7 DEF OneFile, DropsOne, AllShort, Short
        <3> HIDE DEF t
        <3> QED
            BY <2>3, <2>7, <3>1, StaleIsOne
    <2> HIDE DEF t
    <2>8. DropsLater'
        BY <2>1, <2>2, <2>5 DEF OneFile, DropsLater, title
    <2>9. TagsStick => DropsOne'
        BY <2>1, <2>2, <2>7 DEF OneFile, DropsOne, title
    <2> QED
        BY <2>6, <2>8, <2>9 DEF OneFile
<1>7. CASE Build(r)
    <2> DEFINE t == video[run[r].path].tracks
               u == Remuxed(t, run[r].drop)
               f == Partial(Fresh(u))
    <2>1. /\ Goes(r, "building") /\ run[r].at = "planned" /\ video[1].whole
          /\ temp' = [temp EXCEPT ![r] = f]
          /\ UNCHANGED <<video, backup, title, state, swap>>
        BY <1>2, <1>7 DEF Build, Step
    <2>2. Based(t)
        BY <1>2, <2>1, Written, GoodFiles DEF OneFile, AllGood
    <2>3. run[r].drop \in SUBSET Later
        BY DEF OneFile, DropsLater
    <2>4. u \in Seq(Track) /\ Based(u)
        <3>1. t \in Seq(Track)
            BY <2>2 DEF Based
        <3>2. u \in Seq(Track)
            BY <3>1, RemuxedTracks
        <3>3. FirstLen <= Len(u) /\ \A k \in 1..Len(u) : u[k] = IF k <= FirstLen THEN Originals[1][k] ELSE Clean
            <4> HIDE DEF t
            <4> QED
                BY <2>2, <2>3, <3>1, RemuxedIsGood DEF Based
        <3> HIDE DEF u
        <3> QED
            BY <3>2, <3>3 DEF Based
    <2>5. f \in File /\ Good(f)
        <3> HIDE DEF u
        <3>1. f \in File /\ f.tracks = u
            BY <2>4, Written
        <3> QED
            BY <2>4, <3>1, GoodFiles
    <2> HIDE DEF f, u, t
    <2>6. temp'[r] = f /\ \A s \in Runs \ {r} : temp'[s] = temp[s]
        BY <1>2, <2>1
    <2>7. swap[r] = "none"
        BY <1>1, <2>1 DEF RunParts, SwapFits, Early
    <2>8. run'[r].at = "building" /\ \A s \in Runs \ {r} : run'[s].at = run[s].at
        BY <1>3, <2>1 DEF Steps
    <2>9. AllGood' /\ (TagsStick => AllShort')
        BY <2>1, <2>5, <2>6, <2>7, <2>8 DEF OneFile, AllGood, AllShort
    <2>10. DropsLater' /\ (TagsStick => DropsOne')
        BY <1>3, <2>1, MemoryKeepsDrops DEF Planned, title, Steps
    <2> QED
        BY <2>9, <2>10 DEF OneFile
<1>8. CASE Built(r)
    <2> DEFINE f == [temp[r] EXCEPT !.whole = TRUE]
    <2>1. /\ Goes(r, "verifying") /\ run[r].at = "building"
          /\ temp' = [temp EXCEPT ![r] = f]
          /\ UNCHANGED <<video, backup, title, swap>>
        BY <1>2, <1>8 DEF Built, Step
    <2>2. f \in File /\ f.tracks = temp[r].tracks
        BY <1>2 DEF File
    <2>3. Good(f)
        <3>1. temp[r] # NoFile
            BY <1>1, <2>1 DEF RunParts, TempFits
        <3> QED
            BY <1>2, <2>2, <3>1, GoodFiles DEF OneFile, AllGood
    <2> HIDE DEF f
    <2>4. temp'[r] = f /\ \A s \in Runs \ {r} : temp'[s] = temp[s]
        BY <1>2, <2>1
    <2>5. swap[r] = "none"
        BY <1>1, <2>1 DEF RunParts, SwapFits, Early
    <2>6. run'[r].at = "verifying" /\ \A s \in Runs \ {r} : run'[s].at = run[s].at
        BY <1>3, <2>1 DEF Steps
    <2>7. AllGood' /\ (TagsStick => AllShort')
        BY <2>1, <2>3, <2>4, <2>5, <2>6 DEF OneFile, AllGood, AllShort
    <2>8. DropsLater' /\ (TagsStick => DropsOne')
        BY <1>3, <2>1, MemoryKeepsDrops DEF Planned, title, Steps
    <2> QED
        BY <2>7, <2>8 DEF OneFile
<1>9. CASE Verify(r)
    <2>1. /\ Goes(r, "staging") /\ run[r].at = "verifying" /\ Verified(r)
          /\ UNCHANGED <<files, title, swap>>
        BY <1>9 DEF Verify, Step
    <2>2. run'[r].at = "staging" /\ \A s \in Runs \ {r} : run'[s].at = run[s].at
        BY <1>3, <2>1 DEF Steps
    <2>3. ASSUME TagsStick PROVE Short(temp[r])
        <3>1. \/ run[r].tracks = FirstLen /\ run[r].drop = {}
              \/ run[r].tracks = FirstLen + 1 /\ run[r].drop = {FirstLen + 1}
            BY <2>1, <2>3 DEF OneFile, DropsOne, Planned
        <3>2. Len(temp[r].tracks) = run[r].tracks + 1 - Cardinality(run[r].drop)
            BY <2>1 DEF Verified
        <3>3. Cardinality({}) = 0 /\ Cardinality({FirstLen + 1}) = 1
            BY FS_EmptySet, FS_Singleton
        <3>4. PICK n \in Nat : n = FirstLen
            BY FirstFile
        <3>5. \/ run[r].tracks = n /\ Cardinality(run[r].drop) = 0
              \/ run[r].tracks = n + 1 /\ Cardinality(run[r].drop) = 1
            BY <3>1, <3>3, <3>4, Zenon
        <3>6. Len(temp[r].tracks) = n + 1
            BY <3>2, <3>4, <3>5
        <3> QED
            BY <3>4, <3>6 DEF Short
    <2>4. AllGood' /\ (TagsStick => AllShort')
        BY <2>1, <2>2, <2>3 DEF OneFile, AllGood, AllShort, files
    <2>5. DropsLater' /\ (TagsStick => DropsOne')
        BY <1>3, <2>1, MemoryKeepsDrops DEF Planned, title, Steps
    <2> QED
        BY <2>4, <2>5 DEF OneFile
<1>10. CASE BeginSwap(r)
    <2>1. /\ Goes(r, "swapping") /\ run[r].at = "staging" /\ swap' = [swap EXCEPT ![r] = "copying"]
          /\ UNCHANGED <<files, title>>
        BY <1>10 DEF BeginSwap, Step
    <2>2. \A s \in Runs \ {r} : swap'[s] = swap[s]
        BY <1>1, <2>1 DEF TypeOK
    <2>3. AllGood' /\ (TagsStick => AllShort')
        BY <1>3, <2>1, <2>2, SameFilesKeepsGood DEF files, Steps
    <2>4. DropsLater' /\ (TagsStick => DropsOne')
        BY <1>3, <2>1, MemoryKeepsDrops DEF Planned, title, Steps
    <2> QED
        BY <2>3, <2>4 DEF OneFile
<1>11. CASE Tidy(r)
    <2>1. /\ Goes(r, "saving") /\ run[r].at = "tidying" /\ UNCHANGED <<video, temp, title, swap>>
          /\ backup' = (IF run[r].keep THEN backup ELSE [backup EXCEPT ![r] = NoFile])
        BY <1>11 DEF Tidy, Step
    <2>2. \A s \in Runs : backup'[s] = backup[s] \/ backup'[s] = NoFile
        BY <1>2, <2>1
    <2>3. Short(NoFile)
        BY Written, FirstFile DEF Short
    <2>4. run'[r].at = "saving" /\ \A s \in Runs \ {r} : run'[s].at = run[s].at
        BY <1>3, <2>1 DEF Steps
    <2>5. AllGood' /\ (TagsStick => AllShort')
        BY <2>1, <2>2, <2>3, <2>4, GoodFiles DEF OneFile, AllGood, AllShort
    <2>6. DropsLater' /\ (TagsStick => DropsOne')
        BY <1>3, <2>1, MemoryKeepsDrops DEF Planned, title, Steps
    <2> QED
        BY <2>5, <2>6 DEF OneFile
<1>12. CASE Save(r)
    <2>1. run[r].at = "saving" /\ Ends(r, "done") /\ Record(r) /\ UNCHANGED <<files, swap>>
        BY <1>12 DEF Save
    <2> QED
        BY <1>1, <2>1, SavingKeepsFile DEF files
<1>13. CASE Fail(r)
    <2>1. /\ Ends(r, "failed") /\ UNCHANGED <<video, backup, known, swap>>
          /\ temp' = temp \/ temp' = [temp EXCEPT ![r] = NoFile]
        BY <1>13 DEF Fail, title
    <2> QED
        BY <1>1, <2>1, EndingKeepsFile
<1> QED
    BY <1>4, <1>5, <1>6, <1>7, <1>8, <1>9, <1>10, <1>11, <1>12, <1>13 DEF Advance

\* A step of a shielded task writes a file it read, or a part of it.
LEMMA SwapMoveKeepsFile ==
    ASSUME RunInv, OneFile, path = 1, NEW r \in Runs, SwapSucceeds(r) \/ SwapFails(r) \/ CloseLoop(r)
    PROVE  OneFile'
<1>1. /\ run \in [Runs -> Memory] /\ run[r].path = 1 /\ swap \in [Runs -> Swaps]
      /\ 1 \in Paths /\ video \in [Paths -> File] /\ temp \in [Runs -> File] /\ backup \in [Runs -> File]
    <2>1. run[r].path \in 1..1
        BY DEF RunInv, DropFits
    <2> QED
        BY <2>1, CleanSwapAssumption DEF RunInv, TypeOK, Memory
<1> DEFINE Fits(f) == Good(f) /\ (TagsStick => Short(f))
<1>2. /\ Fits(NoFile) /\ Fits(video[1]) /\ \A s \in Runs : Fits(backup[s])
      /\ \A f \in File : Fits(f) => Fits(Partial(f))
    <2>1. Short(NoFile)
        BY Written, FirstFile DEF Short
    <2> QED
        BY <2>1, GoodFiles, Written DEF OneFile, AllGood, AllShort, Short
<1>3. swap[r] = "replacing" => Fits(temp[r])
    BY DEF OneFile, AllGood, AllShort
<1>4. UNCHANGED <<title, run>>
    BY DEF SwapSucceeds, SwapFails, CloseLoop, CopyAside, UnlinkSource, Replace, Restore, MoveFails, ReplaceFails,
        RestoreFails, files
<1>5. /\ \A s \in Runs : temp'[s] = temp[s] \/ temp'[s] = NoFile
      /\ \A s \in Runs : swap'[s] \in {"copying", "unlinking", "replacing"} =>
                             swap[s] \in {"copying", "unlinking", "replacing"}
    BY <1>1 DEF SwapSucceeds, SwapFails, CloseLoop, CopyAside, UnlinkSource, Replace, Restore, MoveFails, ReplaceFails,
        RestoreFails, CutShort, InFlight, Swaps, files
<1>6. /\ video'[1] \in {video[1], NoFile, backup[r], Partial(backup[r])} \/ (swap[r] = "replacing" /\ video'[1] = temp[r])
      /\ \A s \in Runs : backup'[s] \in {backup[s], NoFile, video[1], Partial(video[1])}
    <2> HIDE DEF Fits
    <2>1. CASE SwapSucceeds(r)
        BY <1>1, <2>1 DEF SwapSucceeds, CopyAside, UnlinkSource, Replace, Restore
    <2>2. CASE SwapFails(r)
        BY <1>1, <2>2 DEF SwapFails, MoveFails, ReplaceFails, RestoreFails, files
    <2>3. CASE CloseLoop(r)
        BY <1>1, <2>3 DEF CloseLoop, LastMove
    <2> QED
        BY <2>1, <2>2, <2>3
<1>7. Fits(video'[1]) /\ \A s \in Runs : Fits(backup'[s])
    <2> HIDE DEF Fits
    <2> QED
        BY <1>1, <1>2, <1>3, <1>6
<1>8. AllGood'
    BY <1>2, <1>5, <1>7 DEF OneFile, AllGood
<1>9. TagsStick => AllShort'
    BY <1>2, <1>4, <1>5, <1>7 DEF OneFile, AllShort
<1>10. DropsLater' /\ (TagsStick => DropsOne')
    BY <1>4 DEF OneFile, DropsLater, DropsOne, title
<1> QED
    BY <1>8, <1>9, <1>10 DEF OneFile

LEMMA NextKeepsFile == RunInv /\ OneFileInv /\ [Next]_vars => OneFileInv'
<1> SUFFICES ASSUME RunInv, OneFileInv, [Next]_vars, path' = 1 PROVE OneFile'
    BY DEF OneFileInv
<1>1. TypeOK /\ RunParts /\ run \in [Runs -> Memory] /\ path \in Nat /\ 1 <= path
    BY PathsAreNumbers DEF RunInv, RunParts, TypeOK, Memory
<1>2. path = 1 /\ \A clears \in BOOLEAN : ~Import(clears)
    <2>1. \A clears \in BOOLEAN : ~Import(clears)
        BY <1>1 DEF Import
    <2>2. Next \/ UNCHANGED vars
        OBVIOUS
    <2>3. path' = path
        BY <2>1, <2>2 DEF Next, Advance, Begin, Acquire, Probe, Build, Built, Verify, BeginSwap, Swapped, Tidy, Save, Fail,
            AskCancel, Cancel, Cancelled, SwapSucceeds, SwapFails, CopyAside, UnlinkSource, Replace, Restore,
            MoveFails, ReplaceFails, RestoreFails, CloseLoop, Stop, Exit, Crash, Gone, Start, vars, files, title
    <2> QED
        BY <2>1, <2>3
<1>3. OneFile
    BY <1>2 DEF OneFileInv
<1>4. ASSUME NEW r \in Runs, Advance(r) PROVE OneFile'
    BY <1>2, <1>3, <1>4, RunStepKeepsFile
<1>5. ASSUME NEW r \in Runs, SwapSucceeds(r) \/ SwapFails(r) \/ CloseLoop(r) PROVE OneFile'
    BY <1>2, <1>3, <1>5, SwapMoveKeepsFile
<1>6. ASSUME NEW r \in Runs, Cancel(r) PROVE OneFile'
    <2>1. /\ UNCHANGED <<video, backup, path, swap, process, lives>>
          /\ \/ /\ temp' = [temp EXCEPT ![r] = NoFile] \/ temp' = temp
                /\ known' = known /\ Ends(r, "cancelled")
             \/ run[r].at = "saving" /\ Record(r) /\ Ends(r, "done") /\ temp' = temp
        BY <1>6 DEF Cancel, Cancelled
    <2>2. CASE known' = known /\ Ends(r, "cancelled") /\ (temp' = [temp EXCEPT ![r] = NoFile] \/ temp' = temp)
        BY <1>3, <2>1, <2>2, EndingKeepsFile
    <2>3. CASE run[r].at = "saving" /\ Record(r) /\ Ends(r, "done") /\ temp' = temp
        BY <1>3, <2>1, <2>3, SavingKeepsFile
    <2> QED
        BY <2>1, <2>2, <2>3
<1>7. ASSUME (\E r \in Runs : AskCancel(r)) \/ Stop \/ UNCHANGED vars PROVE OneFile'
    <2>1. UNCHANGED <<files, title, run, swap>>
        BY <1>7 DEF AskCancel, Stop, vars, files, title
    <2> QED
        BY <1>3, <2>1 DEF OneFile, AllGood, AllShort, DropsLater, DropsOne, files, title
<1>8. CASE Exit \/ Crash
    <2>1. Gone
        BY <1>8 DEF Exit, Crash
    <2>2. \A s \in Runs : /\ SameMemory(run'[s], run[s])
                          /\ run'[s].at = IF run[s].at = "new" THEN "new" ELSE "over"
        BY <1>1, <2>1, Dying
    <2>3. /\ UNCHANGED <<files, title>>
          /\ \A s \in Runs : swap'[s] \notin {"copying", "unlinking", "replacing"}
        BY <2>1 DEF Gone, CutShort, InFlight
    <2>4. AllGood' /\ (TagsStick => AllShort')
        BY <1>3, <2>2, <2>3, SameFilesKeepsGood DEF files
    <2>5. DropsLater' /\ (TagsStick => DropsOne')
        BY <1>3, <2>2, <2>3, MemoryKeepsDrops DEF Planned, title
    <2> QED
        BY <2>4, <2>5 DEF OneFile
<1>9. CASE Start
    <2>1. /\ UNCHANGED <<video, backup, title, run, swap>>
          /\ \A s \in Runs : temp'[s] = temp[s] \/ temp'[s] = NoFile
        BY <1>9 DEF Start
    <2>2. AllGood' /\ (TagsStick => AllShort')
        BY <1>3, <2>1, SameFilesKeepsGood
    <2>3. DropsLater' /\ (TagsStick => DropsOne')
        BY <1>3, <2>1 DEF OneFile, DropsLater, DropsOne, title
    <2> QED
        BY <2>2, <2>3 DEF OneFile
<1> QED
    BY <1>2, <1>4, <1>5, <1>6, <1>7, <1>8, <1>9 DEF Next

\* A whole file made of the first one has all its tracks.
LEMMA GoodHasOriginals ==
    ASSUME NEW f \in File, Good(f), f.whole
    PROVE  OriginalSet(1) \subseteq TrackSet(f)
<1>1. Based(f.tracks)
    BY GoodFiles, Written
<1>2. /\ FirstLen \in Nat /\ DOMAIN Originals[1] = 1..FirstLen
      /\ Len(f.tracks) \in Nat /\ DOMAIN f.tracks = 1..Len(f.tracks) /\ FirstLen <= Len(f.tracks)
    BY <1>1, FirstFile DEF Based
<1>3. ASSUME NEW i \in 1..FirstLen PROVE i \in DOMAIN f.tracks /\ f.tracks[i] = Originals[1][i]
    BY <1>1, <1>2 DEF Based
<1> QED
    BY <1>2, <1>3, Zenon DEF OriginalSet, TrackSet

\* Reprocessing never drops an original track of the title's first file: what a
\* run drops by its recorded indices or by the title tag comes after them, however
\* stale the indices are and whatever runs overlapped, failed or were killed.
THEOREM OriginalsStay == Spec => []KeepsOriginals
<1>1. RunInv /\ OneFileInv => KeepsOriginals
    <2> SUFFICES ASSUME RunInv, OneFileInv, path = 1, video[1].whole PROVE OriginalSet(1) \subseteq TrackSet(video[1])
        BY DEF KeepsOriginals
    <2>1. video[1] \in File /\ Good(video[1])
        BY CleanSwapAssumption DEF RunInv, TypeOK, OneFileInv, OneFile, AllGood
    <2> QED
        BY <2>1, GoodHasOriginals
<1> QED
    BY <1>1, InitRuns, NextKeepsRuns, InitFile, NextKeepsFile, PTL DEF Spec

\* It stacks no second clean track on the first one either, if the container
\* keeps the title tag (the premise of the property): a plan made before another
\* run swapped its file in does not pass the verification.
THEOREM OneCleanTrack == Spec => []NoStackedTracks
<1>1. RunInv /\ OneFileInv => NoStackedTracks
    <2> SUFFICES ASSUME RunInv, OneFileInv, TagsStick, path = 1 PROVE Count(video[1]) <= 1
        BY DEF NoStackedTracks
    <2>1. video[1] \in File /\ Good(video[1]) /\ Short(video[1])
        BY CleanSwapAssumption DEF RunInv, TypeOK, OneFileInv, OneFile, AllGood, AllShort
    <2> DEFINE C == {i \in DOMAIN video[1].tracks : video[1].tracks[i] = Clean}
    <2>2. C \subseteq {FirstLen + 1}
        <3>1. CASE video[1] = NoFile
            BY <3>1, Written
        <3>2. CASE video[1] # NoFile
            <4>1. Based(video[1].tracks)
                BY <2>1, <3>2, GoodFiles
            <4>2. PICK n \in Nat : n = FirstLen /\ \A i \in 1..n : Originals[1][i] # Clean
                BY FirstFile
            <4>3. PICK m \in Nat : m = Len(video[1].tracks) /\ DOMAIN video[1].tracks = 1..m
                BY <4>1 DEF Based
            <4>4. m <= n + 1
                BY <2>1, <4>2, <4>3 DEF Short
            <4> QED
                BY <4>1, <4>2, <4>3, <4>4 DEF Based
        <3> QED
            BY <3>1, <3>2
    <2>3. IsFiniteSet({FirstLen + 1}) /\ Cardinality({FirstLen + 1}) = 1
        BY FS_Singleton
    <2>4. Cardinality(C) <= 1
        BY <2>2, <2>3, FS_Subset
    <2> QED
        BY <2>4 DEF Count
<1> QED
    BY <1>1, InitRuns, NextKeepsRuns, InitFile, NextKeepsFile, PTL DEF Spec

---------------------------------------------------------------------------
(* What becomes of swaps *)

\* A cancelled run stays cancelled, a swap that has begun has begun, and one
\* that was undone stays undone.
Stays(s) ==
    /\ state[s] = "cancelled" => state'[s] = "cancelled"
    /\ swap[s] # "none" => swap'[s] # "none"
    /\ Undone(s) => Undone(s)'

\* A step that moves no video and touches no backup a swap may need.
QuietFor(s) ==
    /\ backup'[s] = backup[s] \/ (swap[s] = "swapped" /\ backup'[s] = NoFile)
    /\ swap'[s] \in {"swapped", "unlinking", "replacing", "restoring"} => swap'[s] = swap[s]
    /\ swap'[s] = "copying" => swap[s] = "copying" \/ run[s].at = "staging"
    /\ swap[s] # "none" => run'[s].path = run[s].path
    /\ run'[s].at \in {"building", "verifying", "staging"} =>
           run[s].at \in {"building", "verifying", "staging"} \/ video[run[s].path].whole
Quiet == video' = video /\ \A s \in Runs : QuietFor(s)

LEMMA EndingIsQuiet ==
    ASSUME RunInv, NEW r \in Runs, NEW outcome, Ends(r, outcome), run[r].at \notin {"new", "over"},
           UNCHANGED <<video, backup, swap>>
    PROVE  Quiet /\ \A s \in Runs : Stays(s)
<1>1. run \in [Runs -> Memory] /\ state \in [Runs -> States] /\ state[r] = "processing"
    BY DEF RunInv, TypeOK, StepFits, Memory
<1>2. /\ run'[r].at = "over" /\ \A s \in Runs : SameMemory(run'[s], run[s])
      /\ \A s \in Runs \ {r} : run'[s].at = run[s].at
    BY <1>1, Moving DEF Ends, Steps
<1>3. \A s \in Runs \ {r} : state'[s] = state[s]
    BY <1>1 DEF Ends
<1> QED
    BY <1>1, <1>2, <1>3 DEF Quiet, QuietFor, Stays, Undone, SameMemory

LEMMA RunStepIsQuiet ==
    ASSUME RunInv, NEW r \in Runs, Advance(r)
    PROVE  Quiet /\ \A s \in Runs : Stays(s)
<1>1. /\ TypeOK /\ RunParts /\ run \in [Runs -> Memory] /\ swap \in [Runs -> Swaps]
      /\ state \in [Runs -> States] /\ backup \in [Runs -> File]
    BY DEF RunInv, RunParts, TypeOK, Memory
<1>2. \A to \in Steps : Goes(r, to) =>
             /\ run'[r].at = to /\ \A s \in Runs : SameMemory(run'[s], run[s])
             /\ \A s \in Runs \ {r} : run'[s].at = run[s].at
    BY <1>1, Moving
<1>3. /\ run[r].at = "new" => state[r] = "queued"
      /\ run[r].at \notin {"new", "over"} => state[r] = "processing"
      /\ run[r].at \in {"new", "staging", "verifying"} \cup Early => swap[r] = "none"
      /\ run[r].at \in {"tidying", "saving"} => swap[r] = "swapped"
    BY <1>1 DEF RunParts, StepFits, SwapFits
<1>4. CASE Begin(r)
    <2>1. /\ run'[r].at = "waiting" /\ \A s \in Runs \ {r} : run'[s] = run[s]
        BY <1>1, <1>4, Beginning
    <2>2. /\ state' = [state EXCEPT ![r] = "processing"] /\ UNCHANGED <<files, swap>> /\ run[r].at = "new"
        BY <1>4 DEF Begin
    <2> QED
        BY <1>1, <1>3, <2>1, <2>2 DEF Quiet, QuietFor, Stays, Undone, files
<1>5. CASE Acquire(r) \/ Built(r) \/ Verify(r) \/ Swapped(r)
    <2>1. /\ UNCHANGED <<video, backup, swap, state>>
          /\ \/ Goes(r, "probing") \/ Goes(r, "tidying")
             \/ Goes(r, "verifying") /\ run[r].at = "building"
             \/ Goes(r, "staging") /\ run[r].at = "verifying"
        BY <1>5 DEF Acquire, Built, Verify, Swapped, Step, files
    <2> QED
        BY <1>2, <2>1 DEF Quiet, QuietFor, Stays, Undone, Steps, SameMemory
<1>6. CASE Probe(r)
    <2>1. /\ run'[r].at = "planned" /\ run'[r].path = run[r].path /\ \A s \in Runs \ {r} : run'[s] = run[s]
        BY <1>1, <1>6, Probing
    <2>2. UNCHANGED <<video, backup, state, swap>>
        BY <1>6 DEF Probe
    <2> QED
        BY <2>1, <2>2 DEF Quiet, QuietFor, Stays, Undone
<1>7. CASE Build(r)
    <2>1. Goes(r, "building") /\ video[run[r].path].whole /\ UNCHANGED <<video, backup, state, swap>>
        BY <1>7 DEF Build, Step
    <2> QED
        BY <1>2, <2>1 DEF Quiet, QuietFor, Stays, Undone, Steps, SameMemory
<1>8. CASE BeginSwap(r)
    <2>1. /\ Goes(r, "swapping") /\ run[r].at = "staging" /\ UNCHANGED <<files, state>>
          /\ swap' = [swap EXCEPT ![r] = "copying"]
        BY <1>8 DEF BeginSwap, Step
    <2>2. swap[r] = "none" /\ swap'[r] = "copying" /\ \A s \in Runs \ {r} : swap'[s] = swap[s]
        BY <1>1, <1>3, <2>1
    <2>3. run'[r].at = "swapping" /\ \A s \in Runs \ {r} : run'[s].at = run[s].at
        BY <1>2, <2>1 DEF Steps
    <2>4. \A s \in Runs : run'[s].path = run[s].path
        BY <1>2, <2>1 DEF Steps, SameMemory
    <2> QED
        BY <2>1, <2>2, <2>3, <2>4 DEF Quiet, QuietFor, Stays, Undone, files
<1>9. CASE Tidy(r)
    <2>1. /\ Goes(r, "saving") /\ run[r].at = "tidying" /\ UNCHANGED <<video, state, swap>>
          /\ backup' = (IF run[r].keep THEN backup ELSE [backup EXCEPT ![r] = NoFile])
        BY <1>9 DEF Tidy, Step
    <2>2. \A s \in Runs : backup'[s] = backup[s] \/ (swap[s] = "swapped" /\ backup'[s] = NoFile)
        BY <1>1, <1>3, <2>1
    <2> QED
        BY <1>2, <2>1, <2>2 DEF Quiet, QuietFor, Stays, Undone, Steps, SameMemory
<1>10. CASE Save(r) \/ Fail(r)
    <2>1. /\ \E outcome \in {"done", "failed"} : Ends(r, outcome)
          /\ UNCHANGED <<video, backup, swap>> /\ run[r].at \notin {"new", "over"}
        BY <1>10 DEF Save, Fail, files
    <2> QED
        BY <1>1, <1>3, <2>1, EndingIsQuiet
<1> QED
    BY <1>4, <1>5, <1>6, <1>7, <1>8, <1>9, <1>10 DEF Advance

LEMMA OtherStepIsQuiet ==
    ASSUME RunInv,
           \/ \E r \in Runs : AskCancel(r) \/ Cancel(r)
           \/ Stop \/ Exit \/ Crash \/ Start \/ UNCHANGED vars
    PROVE  Quiet /\ \A s \in Runs : Stays(s)
<1>1. /\ TypeOK /\ RunParts /\ run \in [Runs -> Memory] /\ swap \in [Runs -> Swaps]
      /\ state \in [Runs -> States]
    BY DEF RunInv, RunParts, TypeOK, Memory
<1>2. ASSUME (\E r \in Runs : AskCancel(r)) \/ Stop \/ UNCHANGED vars PROVE Quiet /\ \A s \in Runs : Stays(s)
    <2>1. UNCHANGED <<video, backup, state, run, swap>>
        BY <1>2 DEF AskCancel, Stop, vars, files
    <2> QED
        BY <2>1 DEF Quiet, QuietFor, Stays, Undone
<1>3. ASSUME NEW r \in Runs, Cancel(r) PROVE Quiet /\ \A s \in Runs : Stays(s)
    <2>1. /\ \E outcome \in {"done", "cancelled"} : Ends(r, outcome)
          /\ UNCHANGED <<video, backup, swap>> /\ run[r].at \notin {"new", "over"}
        BY <1>3 DEF Cancel, Cancelled
    <2> QED
        BY <2>1, EndingIsQuiet
<1>4. CASE Exit \/ Crash
    <2>1. Gone
        BY <1>4 DEF Exit, Crash
    <2>2. \A s \in Runs : /\ SameMemory(run'[s], run[s])
                          /\ run'[s].at = IF run[s].at = "new" THEN "new" ELSE "over"
        BY <1>1, <2>1, Dying
    <2>3. /\ UNCHANGED <<video, backup, state>>
          /\ \A s \in Runs : swap'[s] = CutShort(s)
        BY <2>1 DEF Gone, files
    <2> QED
        BY <1>1, <2>2, <2>3 DEF Quiet, QuietFor, Stays, Undone, SameMemory, CutShort, Swaps, InFlight
<1>5. CASE Start
    <2>1. /\ UNCHANGED <<video, backup, run, swap>>
          /\ \A s \in Runs : state'[s] = IF state[s] = "processing" THEN "queued" ELSE state[s]
        BY <1>5 DEF Start
    <2> QED
        BY <2>1 DEF Quiet, QuietFor, Stays, Undone
<1> QED
    BY <1>2, <1>3, <1>4, <1>5

LEMMA SwapMoveStays ==
    ASSUME RunInv, NEW r \in Runs, SwapSucceeds(r) \/ SwapFails(r) \/ CloseLoop(r)
    PROVE  /\ UNCHANGED <<path, run, state>>
           /\ \A s \in Runs : Stays(s)
           /\ \A s \in Runs \ {r} : swap'[s] = swap[s] /\ backup'[s] = backup[s]
<1>1. swap \in [Runs -> Swaps] /\ backup \in [Runs -> File]
    BY DEF RunInv, TypeOK
<1>2. UNCHANGED <<path, run, state>>
    BY DEF SwapSucceeds, SwapFails, CloseLoop, CopyAside, UnlinkSource, Replace, Restore, MoveFails, ReplaceFails,
        RestoreFails, title
<1>3. \A s \in Runs \ {r} : swap'[s] = swap[s] /\ backup'[s] = backup[s]
    BY <1>1 DEF SwapSucceeds, SwapFails, CloseLoop, LastMove, CopyAside, UnlinkSource, Replace, Restore, MoveFails,
        ReplaceFails, RestoreFails, files
<1>4. swap[r] \in InFlight /\ swap'[r] # "none" /\ (swap[r] = "restoring" => swap'[r] = "failed")
    BY <1>1 DEF SwapSucceeds, SwapFails, CloseLoop, LastMove, CopyAside, UnlinkSource, Replace, Restore, MoveFails,
        ReplaceFails, RestoreFails, CutShort, InFlight
<1> QED
    BY <1>2, <1>3, <1>4 DEF Stays, Undone, InFlight

LEMMA ImportStays ==
    ASSUME RunInv, NEW clears \in BOOLEAN, Import(clears)
    PROVE  /\ UNCHANGED <<backup, run, state, swap>> /\ \A s \in Runs : Stays(s)
           /\ path' # 1
           /\ \A s \in Runs : video'[run[s].path] \in {video[run[s].path], NoFile}
<1>1. /\ path \in Nat /\ 1 <= path /\ path + 1 \in Paths /\ path \in Paths
      /\ video \in [Paths -> File]
      /\ \A s \in Runs : run[s].path \in Paths /\ run[s].path \in 1..path
    BY PathsAreNumbers DEF RunInv, TypeOK, DropFits, Import
<1>2. /\ path' = path + 1 /\ UNCHANGED <<backup, run, state, swap>>
      /\ video' = [video EXCEPT ![path + 1] = Fresh(Originals[path + 1]), ![path] = NoFile]
    BY DEF Import
<1> QED
    BY <1>1, <1>2 DEF Stays, Undone

LEMMA CollisionsStay ==
    ASSUME \A s \in Runs : Stays(s)
    PROVE  /\ \A r, s \in Runs : Overlap(r, s) => Overlap(r, s)'
           /\ SwapsCollide => SwapsCollide'
BY DEF Stays, Overlap, SwapsCollide

---------------------------------------------------------------------------
(* A video that was swapped in is clean *)

LEMMA InitSwap == Init => SwapInv
BY DEF Init, SwapInv, SwappedIn

LEMMA QuietKeepsSwap ==
    ASSUME SwappedIn, Quiet, \A s \in Runs : Stays(s)
    PROVE  SwappedIn'
<1>1. SUFFICES ASSUME NEW r \in Runs, swap'[r] = "swapped"
               PROVE  /\ CleanIfWhole(video'[run'[r].path])
                      /\ \A s \in Runs : Beside(r, s)' =>
                             CleanIfWhole(backup'[s]) \/ Overlap(r, s)' \/ Overlap(s, r)'
    BY DEF SwappedIn
<1>2. swap[r] = "swapped" /\ run'[r].path = run[r].path /\ video' = video
    BY <1>1 DEF Quiet, QuietFor
<1>3. CleanIfWhole(video'[run'[r].path])
    BY <1>2 DEF SwappedIn
<1>4. ASSUME NEW s \in Runs, Beside(r, s)'
      PROVE  CleanIfWhole(backup'[s]) \/ Overlap(r, s)' \/ Overlap(s, r)'
    <2>1. r # s /\ swap'[s] \in {"unlinking", "replacing", "restoring"} /\ run'[s].path = run'[r].path
        BY <1>4 DEF Beside
    <2>2. swap[s] = swap'[s] /\ run'[s].path = run[s].path /\ backup'[s] = backup[s]
        BY <2>1 DEF Quiet, QuietFor
    <2>3. Beside(r, s)
        BY <1>2, <2>1, <2>2 DEF Beside
    <2>4. CleanIfWhole(backup[s]) \/ Overlap(r, s) \/ Overlap(s, r)
        BY <1>2, <2>3 DEF SwappedIn
    <2> QED
        BY <2>2, <2>4, CollisionsStay
<1> QED
    BY <1>3, <1>4

LEMMA SwapMoveKeepsSwap ==
    ASSUME RunInv, SwappedIn, NEW r \in Runs, SwapSucceeds(r) \/ SwapFails(r) \/ CloseLoop(r), ~SwapsCollide'
    PROVE  SwappedIn'
<1>1. /\ run \in [Runs -> Memory] /\ swap \in [Runs -> Swaps] /\ temp \in [Runs -> File]
      /\ video \in [Paths -> File] /\ backup \in [Runs -> File]
      /\ \A s \in Runs : run[s].path \in Paths
    BY DEF RunInv, TypeOK, Memory
<1>2. /\ UNCHANGED <<path, run, state>> /\ \A s \in Runs : Stays(s)
      /\ \A s \in Runs \ {r} : swap'[s] = swap[s] /\ backup'[s] = backup[s]
    BY SwapMoveStays
<1>3. \A s, q \in Runs : Overlap(s, q) => Overlap(s, q)'
    BY <1>2, CollisionsStay
<1>4. CleanIfWhole(NoFile) /\ \A f \in File : CleanIfWhole(Partial(f))
    BY Written DEF CleanIfWhole
<1>5. swap[r] \in InFlight /\ (swap'[r] = "swapped" => Replace(r))
    BY <1>1 DEF SwapSucceeds, SwapFails, CloseLoop, LastMove, CopyAside, UnlinkSource, Replace, Restore, MoveFails,
        ReplaceFails, RestoreFails, CutShort, InFlight
\* The video at the run's path.
<1>6. ASSUME NEW q \in Runs, swap[q] = "swapped"
      PROVE  CleanIfWhole(video'[run[q].path])
    <2>1. q # r /\ CleanIfWhole(video[run[q].path])
        BY <1>5, <1>6 DEF InFlight, SwappedIn
    <2>2. \/ video'[run[q].path] \in {video[run[q].path], NoFile}
          \/ video'[run[q].path] = Partial(backup[r])
          \/ Replace(r) /\ video'[run[q].path] = temp[r]
          \/ /\ swap[r] = "restoring" /\ swap'[r] = "failed" /\ run[q].path = run[r].path
             /\ video'[run[q].path] = backup[r]
        BY <1>1 DEF SwapSucceeds, SwapFails, CloseLoop, LastMove, CopyAside, UnlinkSource, Replace, Restore, MoveFails,
            ReplaceFails, RestoreFails, CutShort, files
    <2>3. CASE Replace(r) /\ video'[run[q].path] = temp[r]
        <3>1. Clean \in TrackSet(temp[r])
            BY <2>3 DEF RunInv, TempFits, Replace, Exists
        <3> QED
            BY <2>3, <3>1 DEF CleanIfWhole
    <2>4. CASE /\ swap[r] = "restoring" /\ swap'[r] = "failed" /\ run[q].path = run[r].path
               /\ video'[run[q].path] = backup[r]
        <3>1. Beside(q, r)
            BY <2>1, <2>4 DEF Beside
        <3>2. CleanIfWhole(backup[r]) \/ Overlap(q, r) \/ Overlap(r, q)
            BY <1>6, <3>1 DEF SwappedIn
        <3>3. Undone(r)'
            BY <2>4 DEF Undone
        <3>4. ~Overlap(q, r) /\ ~Overlap(r, q)
            BY <1>3, <3>3 DEF SwapsCollide
        <3> QED
            BY <2>4, <3>2, <3>4
    <2> QED
        BY <1>1, <1>4, <2>1, <2>2, <2>3, <2>4
<1>7. Replace(r) => CleanIfWhole(video'[run[r].path])
    <2> SUFFICES ASSUME Replace(r) PROVE CleanIfWhole(video'[run[r].path])
        OBVIOUS
    <2>1. Clean \in TrackSet(temp[r]) /\ video'[run[r].path] = temp[r]
        BY <1>1 DEF RunInv, TempFits, Replace, Exists
    <2> QED
        BY <2>1 DEF CleanIfWhole
\* The backups other swaps may put back.
<1>8. ASSUME NEW q \in Runs, NEW s \in Runs, swap'[q] = "swapped", Beside(q, s)'
      PROVE  CleanIfWhole(backup'[s]) \/ Overlap(q, s)' \/ Overlap(s, q)'
    <2>1. q # s /\ run[q].path = run[s].path /\ swap'[s] \in {"unlinking", "replacing", "restoring"}
        BY <1>2, <1>8 DEF Beside
    <2>2. CASE q = r
        <3>1. swap[r] = "replacing" /\ swap[s] \in InFlight /\ swap'[s] # "none" /\ swap'[r] # "none"
            BY <1>2, <1>5, <1>8, <2>1, <2>2 DEF Replace, InFlight
        <3>2. \A x \in {r, s} : run[x].at = "swapping" \/ state[x] = "cancelled"
            BY <1>5, <3>1 DEF RunInv, SwapFits, InFlight
        <3>3. \A x \in {r, s} : run[x].at = "swapping" => lock = x
            BY DEF RunInv, HeavyHoldsLock, Heavy, Steps
        <3>4. state[r] = "cancelled" \/ state[s] = "cancelled"
            BY <2>1, <2>2, <3>2, <3>3
        <3> QED
            BY <1>2, <2>1, <2>2, <3>1, <3>4 DEF Overlap
    <2>3. CASE q # r /\ s # r
        <3>1. swap[q] = "swapped" /\ Beside(q, s) /\ backup'[s] = backup[s]
            BY <1>2, <1>8, <2>1, <2>3 DEF Beside
        <3> QED
            BY <1>3, <3>1 DEF SwappedIn
    <2>4. CASE q # r /\ s = r
        <3>1. swap[q] = "swapped" /\ CleanIfWhole(video[run[r].path])
            BY <1>2, <1>8, <2>1, <2>4 DEF SwappedIn
        <3>2. CASE CopyAside(r)
            <4>1. backup'[r] = video[run[r].path]
                BY <1>1, <3>2 DEF CopyAside
            <4> QED
                BY <2>4, <3>1, <4>1
        <3>3. CASE ~CopyAside(r)
            <4>1. swap[r] \in {"unlinking", "replacing"} /\ backup'[r] = backup[r]
                BY <1>1, <2>1, <2>4, <3>3 DEF SwapSucceeds, SwapFails, CloseLoop, UnlinkSource, Replace, Restore,
                    MoveFails, ReplaceFails, RestoreFails, CutShort, InFlight, Swaps
            <4>2. Beside(q, r)
                BY <2>1, <2>4, <4>1 DEF Beside
            <4> QED
                BY <1>3, <2>4, <3>1, <4>1, <4>2 DEF SwappedIn
        <3> QED
            BY <3>2, <3>3
    <2> QED
        BY <2>2, <2>3, <2>4
<1>9. ASSUME NEW q \in Runs, swap'[q] = "swapped" PROVE CleanIfWhole(video'[run[q].path])
    BY <1>2, <1>5, <1>6, <1>7, <1>9
<1> QED
    BY <1>2, <1>8, <1>9 DEF SwappedIn

LEMMA NextKeepsSwap == RunInv /\ SwapInv /\ [Next]_vars => SwapInv'
<1> SUFFICES ASSUME RunInv, SwapInv, [Next]_vars, ~SwapsCollide' PROVE SwappedIn'
    BY DEF SwapInv
<1>1. ASSUME \A s \in Runs : Stays(s) PROVE SwappedIn
    BY <1>1, CollisionsStay DEF SwapInv
<1>2. ASSUME Quiet /\ \A s \in Runs : Stays(s) PROVE SwappedIn'
    BY <1>1, <1>2, QuietKeepsSwap
<1>3. ASSUME NEW r \in Runs, Advance(r) PROVE SwappedIn'
    BY <1>2, <1>3, RunStepIsQuiet
<1>4. ASSUME \/ \E r \in Runs : AskCancel(r) \/ Cancel(r)
             \/ Stop \/ Exit \/ Crash \/ Start \/ UNCHANGED vars
      PROVE  SwappedIn'
    BY <1>2, <1>4, OtherStepIsQuiet
<1>5. ASSUME NEW r \in Runs, SwapSucceeds(r) \/ SwapFails(r) \/ CloseLoop(r) PROVE SwappedIn'
    BY <1>1, <1>5, SwapMoveStays, SwapMoveKeepsSwap
<1>6. ASSUME NEW clears \in BOOLEAN, Import(clears) PROVE SwappedIn'
    <2>1. /\ UNCHANGED <<backup, run, state, swap>> /\ \A s \in Runs : Stays(s)
          /\ \A s \in Runs : video'[run[s].path] \in {video[run[s].path], NoFile}
        BY <1>6, ImportStays
    <2>2. CleanIfWhole(NoFile)
        BY Written DEF CleanIfWhole
    <2> QED
        BY <1>1, <2>1, <2>2 DEF SwappedIn, Beside, Overlap
<1> QED
    BY <1>3, <1>4, <1>5, <1>6 DEF Next

\* A job that says done has left the clean track in its video: later runs only put
\* back what they found there, and the swap of a cancelled run that goes on beside
\* another one does harm only when one of the two is undone.
THEOREM DoneIsClean == Spec => []DoneMeansClean
<1>1. RunInv /\ SwapInv => DoneMeansClean
    <2> SUFFICES ASSUME RunInv, SwapInv, ~SwapsCollide, NEW r \in Runs, state[r] = "done", video[run[r].path].whole
                 PROVE  Clean \in TrackSet(video[run[r].path])
        BY DEF DoneMeansClean
    <2>1. swap[r] = "swapped"
        BY DEF RunInv, SwapFits
    <2> QED
        BY <2>1 DEF SwapInv, SwappedIn, CleanIfWhole
<1> QED
    BY <1>1, InitRuns, NextKeepsRuns, InitSwap, NextKeepsSwap, PTL DEF Spec

---------------------------------------------------------------------------
(* The original is in a whole file *)

Whereabouts == SourceIsWhole /\ BackupIsWhole /\ OneIsWhole

LEMMA InitOriginal == Init => OriginalInv
<1> SUFFICES ASSUME Init PROVE Whereabouts
    BY DEF OriginalInv, Whereabouts
<1>1. video[1].whole
    BY CleanSwapAssumption, FirstFile, Written DEF Init
<1> QED
    BY <1>1 DEF Init, Whereabouts, SourceIsWhole, BackupIsWhole, OneIsWhole, NoRun

LEMMA QuietKeepsOriginal ==
    ASSUME Whereabouts, Quiet, \A s \in Runs : Stays(s) /\ run[s].path = 1
    PROVE  Whereabouts'
<1>1. \A r \in Runs : WholeOrAway(r) => WholeOrAway(r)'
    BY DEF WholeOrAway, Quiet, Stays
<1>2. SourceIsWhole'
    <2> SUFFICES ASSUME NEW r \in Runs, run'[r].at \in {"building", "verifying", "staging"} \/ swap'[r] = "copying"
                 PROVE  WholeOrAway(r)'
        BY DEF SourceIsWhole
    <2>1. video[1].whole \/ run[r].at \in {"building", "verifying", "staging"} \/ swap[r] = "copying"
        BY DEF Quiet, QuietFor
    <2> QED
        BY <1>1, <2>1 DEF Whereabouts, SourceIsWhole, WholeOrAway
<1>3. BackupIsWhole'
    BY DEF Whereabouts, BackupIsWhole, Quiet, QuietFor
<1>4. OneIsWhole'
    <2>1. ASSUME NEW r \in Runs, backup[r].whole, swap[r] # "swapped" PROVE backup'[r].whole /\ swap'[r] # "swapped"
        BY <2>1 DEF Quiet, QuietFor
    <2> QED
        BY <2>1 DEF Whereabouts, OneIsWhole, Quiet
<1> QED
    BY <1>2, <1>3, <1>4 DEF Whereabouts

LEMMA SwapMoveKeepsOriginal ==
    ASSUME RunInv, Whereabouts, NEW r \in Runs, SwapSucceeds(r) \/ SwapFails(r) \/ CloseLoop(r),
           ~SwapsCollide', path = 1
    PROVE  Whereabouts'
<1>1. /\ swap \in [Runs -> Swaps] /\ temp \in [Runs -> File] /\ 1 \in Paths
      /\ video \in [Paths -> File] /\ backup \in [Runs -> File]
      /\ run[r].path = 1 /\ NoFile.whole = FALSE
    <2>1. run[r].path \in 1..1
        BY DEF RunInv, DropFits
    <2> QED
        BY <2>1, CleanSwapAssumption, Written DEF RunInv, TypeOK
<1>2. /\ UNCHANGED <<path, run, state>> /\ \A s \in Runs : Stays(s)
      /\ \A s \in Runs \ {r} : swap'[s] = swap[s] /\ backup'[s] = backup[s]
    BY SwapMoveStays
<1>3. ~SwapsCollide
    BY <1>2, CollisionsStay
<1>4. swap[r] \in InFlight /\ swap'[r] # "none"
    BY <1>1 DEF SwapSucceeds, SwapFails, CloseLoop, LastMove, CopyAside, UnlinkSource, Replace, Restore, MoveFails,
        ReplaceFails, RestoreFails, CutShort, InFlight
<1>5. swap[r] = "copying" => video[1] = NoFile \/ video[1].whole
    <2> SUFFICES ASSUME swap[r] = "copying", NEW s \in Runs \ {r}, Undone(s), state[s] = "cancelled" PROVE FALSE
        BY DEF Whereabouts, SourceIsWhole, WholeOrAway
    <2>1. Overlap(s, r)
        BY DEF Overlap, Undone
    <2> QED
        BY <1>3, <2>1 DEF SwapsCollide
<1>6. swap[r] \in {"unlinking", "replacing", "restoring"} => backup[r].whole
    BY DEF Whereabouts, BackupIsWhole
<1>7. swap[r] = "replacing" => temp[r] = NoFile \/ temp[r].whole
    BY DEF RunInv, TempFits
\* Where the step leaves the video and the backup.
<1>8. \/ video' = video /\ (backup'[r] = backup[r] \/ (swap[r] = "copying" /\ Exists(video[1])))
         /\ swap'[r] # "swapped" /\ swap'[r] # "copying"
      \/ video'[1].whole /\ swap'[r] \in {"swapped", "failed"}
      \/ video'[1] = NoFile /\ backup'[r].whole /\ swap'[r] \in {"replacing", "cut"}
      \/ video'[1].whole = FALSE /\ backup'[r] = backup[r] /\ swap[r] = "replacing" /\ swap'[r] = "restoring"
    <2>1. CASE CopyAside(r)
        BY <1>1, <2>1 DEF CopyAside
    <2>2. CASE UnlinkSource(r)
        BY <1>1, <1>6, <2>2 DEF UnlinkSource
    <2>3. CASE Replace(r)
        BY <1>1, <1>7, <2>3 DEF Replace, Exists
    <2>4. CASE Restore(r)
        BY <1>1, <1>6, <2>4 DEF Restore
    <2>5. CASE MoveFails(r)
        BY <1>1, <2>5 DEF MoveFails
    <2>6. CASE ReplaceFails(r)
        BY <1>1, <2>6, Written DEF ReplaceFails
    <2>7. CASE RestoreFails(r)
        BY <1>1, <2>7 DEF RestoreFails, files
    <2>8. CASE CloseLoop(r)
        BY <1>1, <1>4, <1>5, <1>6, <2>8 DEF CloseLoop, LastMove, CutShort, InFlight, Exists
    <2> QED
        BY <2>1, <2>2, <2>3, <2>4, <2>5, <2>6, <2>7, <2>8 DEF SwapSucceeds, SwapFails
<1>9. OneIsWhole'
    <2>1. CASE video'[1].whole
        BY <2>1 DEF OneIsWhole
    <2>2. CASE video'[1] = NoFile /\ backup'[r].whole /\ swap'[r] \in {"replacing", "cut"}
        BY <2>2 DEF OneIsWhole
    <2>3. CASE video'[1].whole = FALSE /\ backup'[r] = backup[r] /\ swap[r] = "replacing" /\ swap'[r] = "restoring"
        BY <1>6, <2>3 DEF OneIsWhole
    <2>4. CASE /\ video' = video /\ (backup'[r] = backup[r] \/ (swap[r] = "copying" /\ Exists(video[1])))
               /\ swap'[r] # "swapped"
        <3>1. CASE video[1].whole
            BY <2>4, <3>1 DEF OneIsWhole
        <3>2. CASE ~video[1].whole
            <4>1. backup'[r] = backup[r]
                BY <1>5, <2>4, <3>2 DEF Exists
            <4>2. PICK s \in Runs : backup[s].whole /\ swap[s] # "swapped"
                BY <3>2 DEF Whereabouts, OneIsWhole
            <4> QED
                BY <1>2, <2>4, <4>1, <4>2 DEF OneIsWhole
        <3> QED
            BY <3>1, <3>2
    <2> QED
        BY <1>8, <2>1, <2>2, <2>3, <2>4
<1>10. BackupIsWhole'
    <2>1. ASSUME NEW s \in Runs \ {r}, swap'[s] \in {"unlinking", "replacing", "restoring"} PROVE backup'[s].whole
        BY <1>2, <2>1 DEF Whereabouts, BackupIsWhole
    <2>2. ASSUME swap'[r] \in {"unlinking", "replacing", "restoring"} PROVE backup'[r].whole
        <3>1. CASE CopyAside(r)
            BY <1>1, <1>5, <3>1 DEF CopyAside, Exists
        <3>2. CASE ~CopyAside(r)
            <4>1. /\ backup'[r] = backup[r] /\ swap[r] \in {"unlinking", "replacing", "restoring"}
                BY <1>1, <2>2, <3>2 DEF SwapSucceeds, SwapFails, CloseLoop, UnlinkSource, Replace, Restore,
                    MoveFails, ReplaceFails, RestoreFails, CutShort, InFlight, Swaps
            <4> QED
                BY <1>6, <4>1
        <3> QED
            BY <3>1, <3>2
    <2> QED
        BY <2>1, <2>2 DEF BackupIsWhole
<1>11. SourceIsWhole'
    <2> SUFFICES ASSUME NEW s \in Runs, run[s].at \in {"building", "verifying", "staging"} \/ swap'[s] = "copying"
                 PROVE  WholeOrAway(s)'
        BY <1>2 DEF SourceIsWhole
    <2>1. s # r
        <3>1. swap'[r] # "copying"
            BY <1>8
        <3>2. run[r].at \notin {"building", "verifying", "staging"}
            BY <1>4 DEF RunInv, SwapFits, StepFits, InFlight, Early
        <3> QED
            BY <3>1, <3>2
    <2>2. CASE video'[1].whole \/ video'[1] = NoFile
        BY <2>2 DEF WholeOrAway
    <2>3. CASE video' = video
        <3>1. WholeOrAway(s)
            BY <1>2, <2>1 DEF Whereabouts, SourceIsWhole
        <3> QED
            BY <1>2, <2>3, <3>1 DEF WholeOrAway, Stays
    <2>4. CASE swap[r] = "replacing" /\ swap'[r] = "restoring"
        <3>1. Undone(r)'
            BY <2>4 DEF Undone
        <3>2. state[r] = "cancelled"
            <4> SUFFICES ASSUME state[r] # "cancelled" PROVE FALSE
                OBVIOUS
            <4>1. run[r].at = "swapping" /\ lock = r
                BY <1>4 DEF RunInv, SwapFits, HeavyHoldsLock, Heavy, Steps
            <4>2. run[s].at \notin {"building", "verifying", "staging", "swapping"}
                BY <2>1, <4>1 DEF RunInv, HeavyHoldsLock, Heavy, Steps
            <4>3. swap'[s] = "copying" /\ swap[s] = "copying"
                BY <1>2, <2>1, <4>2
            <4>4. state[s] = "cancelled"
                BY <4>2, <4>3 DEF RunInv, SwapFits, InFlight
            <4>5. Overlap(s, r)'
                BY <1>2, <2>1, <2>4, <4>3, <4>4 DEF Overlap
            <4> QED
                BY <3>1, <4>5 DEF SwapsCollide
        <3> QED
            BY <1>2, <2>1, <3>1, <3>2 DEF WholeOrAway
    <2> QED
        BY <1>8, <2>2, <2>3, <2>4
<1> QED
    BY <1>9, <1>10, <1>11 DEF Whereabouts

LEMMA NextKeepsOriginal == RunInv /\ OriginalInv /\ [Next]_vars => OriginalInv'
<1> SUFFICES ASSUME RunInv, OriginalInv, [Next]_vars, path' = 1, ~SwapsCollide' PROVE Whereabouts'
    BY DEF OriginalInv, Whereabouts
<1>1. ASSUME (\A s \in Runs : Stays(s)) /\ path = 1 PROVE Whereabouts /\ \A s \in Runs : run[s].path = 1
    <2>1. \A s \in Runs : run[s].path \in 1..1
        BY <1>1 DEF RunInv, DropFits
    <2> QED
        BY <1>1, <2>1, CollisionsStay DEF OriginalInv, Whereabouts
<1>2. ASSUME NEW r \in Runs, Advance(r) PROVE Whereabouts'
    <2>1. Quiet /\ \A s \in Runs : Stays(s)
        BY <1>2, RunStepIsQuiet
    <2>2. path = 1
        BY <1>2 DEF Advance, Begin, Acquire, Probe, Build, Built, Verify, BeginSwap, Swapped, Tidy, Save, Fail, title
    <2> QED
        BY <1>1, <2>1, <2>2, QuietKeepsOriginal
<1>3. ASSUME \/ \E r \in Runs : AskCancel(r) \/ Cancel(r)
             \/ Stop \/ Exit \/ Crash \/ Start \/ UNCHANGED vars
      PROVE  Whereabouts'
    <2>1. Quiet /\ \A s \in Runs : Stays(s)
        BY <1>3, OtherStepIsQuiet
    <2>2. path = 1
        BY <1>3 DEF AskCancel, Cancel, Cancelled, Stop, Exit, Crash, Gone, Start, vars, title
    <2> QED
        BY <1>1, <2>1, <2>2, QuietKeepsOriginal
<1>4. ASSUME NEW r \in Runs, SwapSucceeds(r) \/ SwapFails(r) \/ CloseLoop(r) PROVE Whereabouts'
    <2>1. path' = path /\ \A s \in Runs : Stays(s)
        BY <1>4, SwapMoveStays
    <2> QED
        BY <1>1, <1>4, <2>1, SwapMoveKeepsOriginal
<1>5. ASSUME NEW clears \in BOOLEAN, Import(clears) PROVE FALSE
    BY <1>5, ImportStays
<1> QED
    BY <1>2, <1>3, <1>4, <1>5 DEF Next

\* No crash, cancellation or failure loses an original track for good: from the
\* first swap on, the video or a backup that no finished run may delete is a
\* whole file, and each of them has the first file's tracks.
THEOREM OriginalIsSomewhere == Spec => []Recoverable
<1>1. RunInv /\ OneFileInv /\ OriginalInv => Recoverable
    <2> SUFFICES ASSUME RunInv, OneFileInv, OriginalInv, path = 1, ~SwapsCollide
                 PROVE  \E f \in {video[1]} \cup {backup[r] : r \in Runs} : f.whole /\ OriginalSet(1) \subseteq TrackSet(f)
        BY DEF Recoverable
    <2>1. /\ video[1] \in File /\ Good(video[1])
          /\ \A r \in Runs : backup[r] \in File /\ Good(backup[r])
        BY CleanSwapAssumption DEF RunInv, TypeOK, OneFileInv, OneFile, AllGood
    <2>2. video[1].whole \/ \E r \in Runs : backup[r].whole
        BY DEF OriginalInv, OneIsWhole
    <2> QED
        BY <2>1, <2>2, GoodHasOriginals
<1> QED
    BY <1>1, InitRuns, NextKeepsRuns, InitFile, NextKeepsFile, InitOriginal, NextKeepsOriginal, PTL DEF Spec
=============================================================================
