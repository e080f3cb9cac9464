------------------------- MODULE MuteChoicesProofs -------------------------
(* Theorems about MuteChoices, for any words, cues, jobs and versions. *)
EXTENDS MuteChoices, TLAPS, FiniteSetTheorems, WellFoundedInduction

---------------------------------------------------------------------------
(* Lemmas about the operators of the model *)

\* A set of numbers that is not empty has a least one: induction in the form
\* of a least counterexample.
LEMMA LeastNumber ==
    ASSUME NEW T \in SUBSET Nat, T # {}
    PROVE  \E x \in T : \A y \in T : x <= y
<1> DEFINE R == OpToRel(<, Nat)
<1>1. IsWellFoundedOn(R, Nat)
    BY NatLessThanWellFounded, Zenon
<1>2. PICK x \in T : \A y \in T : <<y, x>> \notin R
    <2> HIDE DEF R
    <2> QED
        BY <1>1, WFMin, Zenon
<1>3. ASSUME NEW y \in T PROVE x <= y
    <2>1. <<y, x>> \in Nat \X Nat
        OBVIOUS
    <2>2. ~(y < x)
        BY <1>2, <2>1 DEF OpToRel
    <2> QED
        BY <2>2
<1> QED
    BY <1>3

Ascending(s) == \A i, k \in DOMAIN s : i < k => s[i] < s[k]

\* A finite set of numbers can be listed in ascending order.
LEMMA AscendingExists ==
    ASSUME NEW S \in SUBSET Nat, IsFiniteSet(S)
    PROVE  \E s \in [1..Cardinality(S) -> S] : Ascending(s)
<1> DEFINE Listed(T) == \E s \in [1..Cardinality(T) -> T] : Ascending(s)
           Bad == {n \in Nat : \E T \in SUBSET Nat : IsFiniteSet(T) /\ Cardinality(T) = n /\ ~Listed(T)}
<1>1. SUFFICES ASSUME Bad # {} PROVE FALSE
    <2>1. Cardinality(S) \in Nat
        BY FS_CardinalityType
    <2> QED
        BY <2>1
<1>2. PICK n \in Bad : \A m \in Bad : n <= m
    <2>1. Bad \in SUBSET Nat
        OBVIOUS
    <2> HIDE DEF Bad
    <2> QED
        BY <1>1, <2>1, LeastNumber
<1>3. PICK T \in SUBSET Nat : IsFiniteSet(T) /\ Cardinality(T) = n /\ ~Listed(T)
    BY <1>2
<1>4. T # {}
    <2>1. ASSUME T = {} PROVE Listed(T)
        <3>1. Cardinality(T) = 0
            BY <2>1, FS_EmptySet
        <3>2. [i \in 1..0 |-> 0] \in [1..0 -> T] /\ Ascending([i \in 1..0 |-> 0])
            BY DEF Ascending
        <3> QED
            BY <3>1, <3>2
    <2> QED
        BY <1>3, <2>1
<1>5. PICK x \in T : \A y \in T : x <= y
    BY <1>4, LeastNumber
<1>6. IsFiniteSet(T \ {x}) /\ Cardinality(T \ {x}) = n - 1 /\ n \in Nat /\ n # 0
    <2>1. n \in Nat /\ n # 0
        BY <1>3, <1>4, FS_EmptySet
    <2> QED
        BY <1>3, <2>1, FS_RemoveElement
<1>7. Listed(T \ {x})
    <2>1. n - 1 \in Nat /\ n - 1 \notin Bad
        BY <1>2, <1>6
    <2> QED
        BY <1>6, <2>1
<1>8. PICK s \in [1..n - 1 -> T \ {x}] : Ascending(s)
    BY <1>6, <1>7
<1> DEFINE u == [i \in 1..n |-> IF i = 1 THEN x ELSE s[i - 1]]
<1>9. u \in [1..n -> T]
    BY <1>6, <1>8
<1>10. Ascending(u)
    <2> SUFFICES ASSUME NEW i \in 1..n, NEW k \in 1..n, i < k PROVE u[i] < u[k]
        BY DEF Ascending
    <2>1. k - 1 \in 1..n - 1 /\ s[k - 1] \in T \ {x} /\ u[k] = s[k - 1]
        BY <1>6, <1>8
    <2>2. CASE i = 1
        <3>1. u[i] = x /\ x <= s[k - 1] /\ x # s[k - 1]
            BY <1>5, <2>1, <2>2
        <3>2. x \in Nat /\ s[k - 1] \in Nat
            BY <2>1
        <3> HIDE DEF u
        <3> QED
            BY <2>1, <3>1, <3>2
    <2>3. CASE i # 1
        <3>1. i - 1 \in 1..n - 1 /\ u[i] = s[i - 1] /\ i - 1 < k - 1
            BY <1>6, <2>3
        <3> QED
            BY <1>8, <2>1, <3>1 DEF Ascending
    <2> QED
        BY <2>2, <2>3
<1> QED
    BY <1>3, <1>9, <1>10

\* The rows of a list are the cues it was made of, each once.
LEMMA InOrderLists ==
    ASSUME NEW S \in SUBSET Cues
    PROVE  InOrder(S) \in Seq(Cues) /\ {InOrder(S)[i] : i \in DOMAIN InOrder(S)} = S
<1> DEFINE s == InOrder(S)
           n == Cardinality(S)
<1>1. S \in SUBSET Nat /\ IsFiniteSet(S) /\ n \in Nat
    <2>1. IsFiniteSet(Cues)
        BY MuteChoicesAssumption, FS_Interval DEF Cues
    <2>2. IsFiniteSet(S)
        BY <2>1, FS_Subset
    <2> QED
        BY <2>2, MuteChoicesAssumption, FS_CardinalityType DEF Cues
<1>2. s \in [1..n -> S] /\ Ascending(s)
    <2>1. \E f \in [1..n -> S] : Ascending(f)
        BY <1>1, AscendingExists
    <2> QED
        BY <2>1 DEF InOrder, Ascending
<1> HIDE DEF s
<1>3. s \in Injection(1..n, S)
    <2> SUFFICES ASSUME NEW i \in 1..n, NEW k \in 1..n, s[i] = s[k] PROVE i = k
        BY <1>2 DEF Injection, IsInjective
    <2>1. s[i] \in Nat /\ s[k] \in Nat
        BY <1>1, <1>2
    <2>2. ~(i < k) /\ ~(k < i)
        BY <1>1, <1>2, <2>1 DEF Ascending
    <2> QED
        BY <1>1, <2>2
<1>4. s \in Surjection(1..n, S)
    <2>1. Cardinality(1..n) = n
        BY <1>1, FS_Interval
    <2> QED
        BY <1>1, <1>3, <2>1, FS_Injection
<1>5. {s[i] : i \in DOMAIN s} = S
    BY <1>2, <1>4 DEF Surjection
<1>6. s \in Seq(Cues)
    <2>1. s \in [1..n -> Cues]
        BY <1>2
    <2> HIDE DEF n
    <2> QED
        BY <1>1, <2>1
<1> QED
    BY <1>5, <1>6 DEF s

---------------------------------------------------------------------------
(* The type invariant *)

JobRow == [state: JobStates, version: Nat, at: TaskSteps, kept: SUBSET Cues, words: SUBSET Words]

\* A task is under way only for a job that is being processed, and the jobs
\* are asked for in the order of their numbers.
TasksAreProcessed == \A j \in Jobs : job[j].at # "none" => job[j].state = "processing"
NoneIsLast == \A j \in Jobs : job[j].state = "none" => \A k \in Jobs : k > j => job[k].state = "none"
TypeInv == TypeOK /\ TasksAreProcessed /\ NoneIsLast

LEMMA NoJobType == NoJob \in JobRow
BY DEF NoJob, JobRow, JobStates, TaskSteps

\* The rows of a job that has ended.
LEMMA EndedRow ==
    ASSUME NEW s \in JobStates
    PROVE  /\ [NoJob EXCEPT !.state = s] \in JobRow
           /\ [NoJob EXCEPT !.state = s].state = s
           /\ [NoJob EXCEPT !.state = s].at = "none"
<1>1. [NoJob EXCEPT !.state = s] = [state |-> s, version |-> 0, at |-> "none", kept |-> {}, words |-> {}]
    BY DEF NoJob
<1> QED
    BY <1>1 DEF JobRow, TaskSteps

\* One job's row changes: its task is under way only while it is processed,
\* and its number was given out before, or is the next one.
LEMMA JobChanges ==
    ASSUME TypeInv, NEW j \in Jobs, NEW new \in JobRow, job' = [job EXCEPT ![j] = new],
           new.at # "none" => new.state = "processing",
           new.state # "none",
           \A i \in Jobs : i < j => job[i].state # "none"
    PROVE  /\ job' \in [Jobs -> JobRow] /\ TasksAreProcessed' /\ NoneIsLast'
           /\ job'[j] = new /\ \A k \in Jobs \ {j} : job'[k] = job[k]
<1>1. job \in [Jobs -> JobRow]
    BY DEF TypeInv, TypeOK, JobRow
<1>2. job'[j] = new /\ \A k \in Jobs \ {j} : job'[k] = job[k]
    BY <1>1
<1>3. TasksAreProcessed'
    BY <1>2 DEF TypeInv, TasksAreProcessed
<1>4. NoneIsLast'
    <2> SUFFICES ASSUME NEW i \in Jobs, job'[i].state = "none", NEW k \in Jobs, k > i
                 PROVE  job'[k].state = "none"
        BY DEF NoneIsLast
    <2>1. i # j /\ job[i].state = "none" /\ job[k].state = "none"
        BY <1>2 DEF TypeInv, NoneIsLast
    <2>2. i \in Nat /\ j \in Nat
        BY DEF Jobs
    <2>3. j < i \/ j = i
        BY <2>1, <2>2
    <2>4. k # j
        BY <2>2, <2>3
    <2> QED
        BY <1>2, <2>1, <2>4
<1> QED
    BY <1>1, <1>2, <1>3, <1>4

\* A job that has a row: every job before it has one too.
LEMMA EarlierJobs ==
    ASSUME TypeInv, NEW j \in Jobs, job[j].state # "none"
    PROVE  \A i \in Jobs : i < j => job[i].state # "none"
BY DEF TypeInv, NoneIsLast, Jobs

LEMMA InitType == Init => TypeInv
<1> SUFFICES ASSUME Init PROVE TypeInv
    OBVIOUS
<1>1. NoList \in List /\ NoList.kept \subseteq CuesOf(NoList)
    BY MuteChoicesAssumption DEF NoList, List, CuesOf
<1>2. \A j \in Jobs : job[j].state = "none" /\ job[j].at = "none"
    BY DEF Init, NoJob
<1>3. job \in [Jobs -> JobRow]
    BY NoJobType DEF Init
<1> QED
    BY <1>1, <1>2, <1>3 DEF Init, TypeInv, TypeOK, JobRow, TasksAreProcessed, NoneIsLast, EditSteps

\* What one step of a job writes of its row: the row new.
LEMMA JobStepWrites ==
    ASSUME TypeInv, NEW j \in Jobs,
           \/ Call(j) \/ ReadVersion(j) \/ Insert(j) \/ Begin(j) \/ ReadKept(j) \/ LoadWords(j)
           \/ SwapIn(j) \/ Finish(j) \/ Fail(j) \/ Cancel(j)
    PROVE  \E new \in JobRow :
               /\ job' = [job EXCEPT ![j] = new]
               /\ new.at # "none" => new.state = "processing"
               /\ new.state # "none"
               /\ \A i \in Jobs : i < j => job[i].state # "none"
<1> DEFINE old == job[j]
<1>1. job \in [Jobs -> JobRow] /\ old \in JobRow /\ (old.at # "none" => old.state = "processing")
    BY DEF TypeInv, TypeOK, JobRow, TasksAreProcessed
<1>2. old.state # "none" => \A i \in Jobs : i < j => job[i].state # "none"
    BY EarlierJobs
<1> DEFINE Written(new) == /\ new \in JobRow
                           /\ job' = [job EXCEPT ![j] = new]
                           /\ new.at # "none" => new.state = "processing"
                           /\ new.state # "none"
<1> USE DEF JobRow, JobStates, TaskSteps, Active
<1>3. CASE Call(j)
    <2>1. Written([old EXCEPT !.state = "called"])
        BY <1>1, <1>3 DEF Call
    <2>2. \A i \in Jobs : i < j => job[i].state # "none"
        BY <1>3 DEF Call, Jobs
    <2> QED
        BY <2>1, <2>2
<1>4. CASE ReadVersion(j)
    <2>1. Written([old EXCEPT !.state = "inserting", !.version = version])
        BY <1>1, <1>4 DEF ReadVersion, TypeInv, TypeOK
    <2> QED
        BY <1>2, <1>4, <2>1 DEF ReadVersion
<1>5. CASE Insert(j)
    <2>1. Written([old EXCEPT !.state = "queued"])
        BY <1>1, <1>5 DEF Insert
    <2> QED
        BY <1>2, <1>5, <2>1 DEF Insert
<1>6. CASE Begin(j)
    <2>1. Written([old EXCEPT !.state = "processing", !.at = "waiting"])
        BY <1>1, <1>6 DEF Begin
    <2> QED
        BY <1>2, <1>6, <2>1 DEF Begin
<1>7. CASE ReadKept(j)
    <2>1. Written([old EXCEPT !.at = "listening", !.kept = kept])
        BY <1>1, <1>7 DEF ReadKept, TypeInv, TypeOK
    <2> QED
        BY <1>1, <1>2, <1>7, <2>1 DEF ReadKept
<1>8. CASE LoadWords(j)
    <2>1. Written([old EXCEPT !.at = "matched", !.words = enabled])
        BY <1>1, <1>8 DEF LoadWords, TypeInv, TypeOK
    <2> QED
        BY <1>1, <1>2, <1>8, <2>1 DEF LoadWords
<1>9. CASE SwapIn(j)
    <2>1. Written([old EXCEPT !.at = "swapped"])
        BY <1>1, <1>9 DEF SwapIn
    <2> QED
        BY <1>1, <1>2, <1>9, <2>1 DEF SwapIn
<1>10. ASSUME NEW s \in {"done", "failed", "cancelled"}, job' = [job EXCEPT ![j] = [NoJob EXCEPT !.state = s]],
              old.state # "none"
       PROVE  \E new \in JobRow :
                /\ job' = [job EXCEPT ![j] = new]
                /\ new.at # "none" => new.state = "processing"
                /\ new.state # "none"
                /\ \A i \in Jobs : i < j => job[i].state # "none"
    <2> DEFINE new == [NoJob EXCEPT !.state = s]
    <2>1. new \in JobRow /\ new.at = "none" /\ new.state # "none"
        BY EndedRow
    <2> HIDE DEF new
    <2> QED
        BY <1>2, <1>10, <2>1 DEF new
<1>11. CASE Finish(j) \/ Fail(j) \/ Cancel(j)
    BY <1>1, <1>10, <1>11 DEF Finish, Fail, Cancel
<1> QED
    BY <1>3, <1>4, <1>5, <1>6, <1>7, <1>8, <1>9, <1>11

\* Every step keeps the types.
LEMMA NextKeepsType == TypeInv /\ [Next]_vars => TypeInv'
<1> SUFFICES ASSUME TypeInv, [Next]_vars PROVE TypeInv'
    OBVIOUS
<1> USE DEF words
<1> DEFINE ListType(l) == l \in List /\ l.kept \subseteq CuesOf(l)
<1>1. ASSUME NEW e \in Editors, CommitEdit(e) \/ ReadForBump(e) \/ Bump(e) PROVE TypeInv'
    <2>1. enabled' \subseteq Words /\ version' \in Nat \ {0}
        BY <1>1 DEF CommitEdit, ReadForBump, Bump, TypeInv, TypeOK
    <2>2. editor' \in [Editors -> [at: EditSteps, seen: Nat]]
        BY <1>1 DEF CommitEdit, ReadForBump, Bump, TypeInv, TypeOK, EditSteps
    <2>3. UNCHANGED <<kept, job, track, list, shown, status, page>>
        BY <1>1 DEF CommitEdit, ReadForBump, Bump
    <2> QED
        BY <2>1, <2>2, <2>3 DEF TypeInv, TypeOK, TasksAreProcessed, NoneIsLast, CuesOf
<1>2. ASSUME NEW j \in Jobs,
             \/ Call(j) \/ ReadVersion(j) \/ Insert(j) \/ Begin(j) \/ ReadKept(j) \/ LoadWords(j)
             \/ SwapIn(j) \/ Finish(j) \/ Fail(j) \/ Cancel(j)
      PROVE  job' \in [Jobs -> JobRow] /\ TasksAreProcessed' /\ NoneIsLast'
    BY <1>2, JobStepWrites, JobChanges
<1>3. ASSUME NEW j \in Jobs,
             \/ ProcessTitle(j) \/ ReprocessOutdated(j) \/ ReadVersion(j) \/ Insert(j)
             \/ Begin(j) \/ ReadKept(j) \/ LoadWords(j) \/ Fail(j) \/ Cancel(j)
      PROVE  TypeInv'
    <2>1. job' \in [Jobs -> JobRow] /\ TasksAreProcessed' /\ NoneIsLast'
        BY <1>2, <1>3 DEF ProcessTitle, ReprocessOutdated
    <2>2. UNCHANGED <<enabled, version, editor, kept, track, list, shown, page>>
        BY <1>3 DEF ProcessTitle, ReprocessOutdated, ReadVersion, Insert, Begin, ReadKept, LoadWords, Fail, Cancel
    <2>3. status' \in {status, "queued", "processing", "failed", "cancelled"}
        BY <1>3 DEF ProcessTitle, ReprocessOutdated, ReadVersion, Insert, Begin, ReadKept, LoadWords, Fail, Cancel
    <2> QED
        BY <2>1, <2>2, <2>3 DEF TypeInv, TypeOK, JobRow, CuesOf
<1>4. ASSUME NEW j \in Jobs, SwapIn(j) PROVE TypeInv'
    <2>1. job' \in [Jobs -> JobRow] /\ TasksAreProcessed' /\ NoneIsLast'
        BY <1>2, <1>4
    <2>2. track' \subseteq Cues /\ UNCHANGED <<enabled, version, editor, kept, list, shown, status, page>>
        BY <1>4 DEF SwapIn, Muted, Matched
    <2> QED
        BY <2>1, <2>2 DEF TypeInv, TypeOK, JobRow, CuesOf
<1>5. ASSUME NEW j \in Jobs, Finish(j) PROVE TypeInv'
    <2>1. job' \in [Jobs -> JobRow] /\ TasksAreProcessed' /\ NoneIsLast'
        BY <1>2, <1>5
    <2> DEFINE S == Matched(job[j].words)
    <2>2. InOrder(S) \in Seq(Cues) /\ {InOrder(S)[i] : i \in DOMAIN InOrder(S)} = S
        BY InOrderLists DEF Matched
    <2>3. PICK block \in 0..MaxBlock :
            list' = [block |-> block, cues |-> InOrder(S), kept |-> Flags(j)]
        BY <1>5 DEF Finish
    <2>4. Flags(j) \subseteq S
        BY DEF Flags
    <2>5. S \subseteq Cues
        BY DEF Matched
    <2> HIDE DEF S
    <2>6. list'.cues = InOrder(S) /\ list'.kept = Flags(j) /\ list' \in List
        BY <2>2, <2>3, <2>4, <2>5 DEF List
    <2>7. list'.kept \subseteq CuesOf(list')
        BY <2>2, <2>4, <2>6 DEF CuesOf
    <2>8. shown' \in Nat /\ status' = "done" /\ UNCHANGED <<enabled, version, editor, kept, track, page>>
        BY <1>5 DEF Finish, VersionOf, TypeInv, TypeOK
    <2>9. page' \in List /\ page'.kept \subseteq CuesOf(page')
        BY <2>8 DEF TypeInv, TypeOK
    <2> QED
        BY <2>1, <2>6, <2>7, <2>8, <2>9 DEF TypeInv, TypeOK, JobRow
<1>6. ASSUME NEW j \in Jobs, SaveKept(j) PROVE TypeInv'
    <2>1. job' \in [Jobs -> JobRow] /\ TasksAreProcessed' /\ NoneIsLast'
        BY <1>2, <1>6 DEF SaveKept
    <2>2. list \in List /\ Wanted \subseteq CuesOf(list)
        BY DEF TypeInv, TypeOK, Wanted, CuesOf
    <2>3. Wanted \subseteq Cues
        BY <2>2 DEF CuesOf, List
    <2>4. list' = [list EXCEPT !.kept = Wanted] /\ page' = list'
        BY <1>6 DEF SaveKept, SetKept
    <2>5. list' \in List /\ list'.kept = Wanted /\ list'.cues = list.cues
        BY <2>2, <2>3, <2>4 DEF List
    <2>6. list'.kept \subseteq CuesOf(list')
        BY <2>2, <2>5 DEF CuesOf
    <2>7. kept' \subseteq Cues
        BY <1>6, <2>3 DEF SaveKept, SetKept, TypeInv, TypeOK
    <2>8. UNCHANGED <<enabled, version, editor, track, shown, status>>
        BY <1>6 DEF SaveKept
    <2>9. \A l \in {list', page'} : l \in List /\ l.kept \subseteq CuesOf(l)
        BY <2>4, <2>5, <2>6
    <2> QED
        BY <2>1, <2>7, <2>8, <2>9 DEF TypeInv, TypeOK, JobRow
<1>7. CASE Open
    BY <1>7 DEF Open, TypeInv, TypeOK, TasksAreProcessed, NoneIsLast, CuesOf
<1>8. ASSUME NEW c \in Cues, Tick(c) PROVE TypeInv'
    <2>1. PICK K \in SUBSET CuesOf(page) : page' = [page EXCEPT !.kept = K]
        <3>1. page.kept \subseteq CuesOf(page) /\ c \in CuesOf(page)
            BY <1>8 DEF Tick, TypeInv, TypeOK
        <3> DEFINE K == IF c \in page.kept THEN page.kept \ {c} ELSE page.kept \cup {c}
        <3>2. page' = [page EXCEPT !.kept = K]
            BY <1>8 DEF Tick
        <3> QED
            BY <3>1, <3>2
    <2>2. page \in List /\ CuesOf(page) \subseteq Cues
        BY DEF TypeInv, TypeOK, CuesOf, List
    <2>3. page' \in List /\ page'.kept = K /\ page'.cues = page.cues
        BY <2>1, <2>2 DEF List
    <2>4. page'.kept \subseteq CuesOf(page')
        BY <2>3 DEF CuesOf
    <2>5. UNCHANGED <<enabled, version, editor, kept, job, track, list, shown, status>>
        BY <1>8 DEF Tick
    <2>6. list' \in List /\ list'.kept \subseteq CuesOf(list')
        BY <2>5 DEF TypeInv, TypeOK
    <2> QED
        BY <2>3, <2>4, <2>5, <2>6 DEF TypeInv, TypeOK, TasksAreProcessed, NoneIsLast
<1>9. CASE Restart
    <2>1. \A s \in JobStates : Requeued(s) \in JobStates /\ (Requeued(s) = "none" <=> s = "none")
        BY DEF Requeued, JobStates, Requested
    <2>2. \A j \in Jobs : /\ job'[j] \in JobRow /\ job'[j].at = "none"
                          /\ job'[j].state = "none" <=> job[j].state = "none"
        <3> TAKE j \in Jobs
        <3>1. job[j] \in JobRow
            BY DEF TypeInv, TypeOK, JobRow
        <3> DEFINE s == Requeued(job[j].state)
        <3>2. job'[j] = [job[j] EXCEPT !.state = s, !.at = "none", !.kept = {}, !.words = {}]
            BY <1>9, Zenon DEF Restart
        <3>3. s \in JobStates /\ (s = "none" <=> job[j].state = "none")
            BY <2>1, <3>1 DEF JobRow
        <3> HIDE DEF s
        <3> QED
            BY <3>1, <3>2, <3>3 DEF JobRow, TaskSteps
    <2>3. job' \in [Jobs -> JobRow]
        BY <1>9, <2>2 DEF Restart
    <2>4. editor' \in [Editors -> [at: EditSteps, seen: Nat]]
        BY <1>9 DEF Restart, EditSteps
    <2>5. status' \in {"queued", status} /\ UNCHANGED <<enabled, version, kept, track, list, shown, page>>
        BY <1>9 DEF Restart
    <2>6. NoneIsLast' /\ TasksAreProcessed'
        BY <2>2 DEF NoneIsLast, TasksAreProcessed, TypeInv
    <2> QED
        BY <2>3, <2>4, <2>5, <2>6 DEF TypeInv, TypeOK, JobRow, CuesOf
<1>10. CASE UNCHANGED vars
    BY <1>10 DEF vars, TypeInv, TypeOK, TasksAreProcessed, NoneIsLast, CuesOf
<1> QED
    BY <1>1, <1>3, <1>4, <1>5, <1>6, <1>7, <1>8, <1>9, <1>10 DEF Next

\* The type invariant holds throughout.
LEMMA TypeInvariant == Spec => []TypeInv
BY InitType, NextKeepsType, PTL DEF Spec

\* Every variable keeps its type: the rows of the list and of the page are cues
\* of the title, and what is ticked as kept is among them.
THEOREM TypeCorrect == Spec => []TypeOK
<1>1. TypeInv => TypeOK
    BY DEF TypeInv
<1> QED
    BY <1>1, TypeInvariant, PTL

---------------------------------------------------------------------------
(* What the steps of a job do *)

Rec(state, ver, at, keep, ws) == [state |-> state, version |-> ver, at |-> at, kept |-> keep, words |-> ws]
Is(r, state, ver, at, keep, ws) ==
    /\ r.state = state /\ r.version = ver /\ r.at = at /\ r.kept = keep /\ r.words = ws
JobStep(j) ==
    \/ Call(j) \/ ReadVersion(j) \/ Insert(j) \/ Begin(j) \/ ReadKept(j) \/ LoadWords(j)
    \/ SwapIn(j) \/ Finish(j) \/ Fail(j) \/ Cancel(j)

\* No other row changes.
LEMMA OtherJobs ==
    ASSUME TypeInv, NEW j \in Jobs, JobStep(j)
    PROVE  \A k \in Jobs \ {j} : job'[k] = job[k]
BY DEF TypeInv, TypeOK, JobStep, Call, ReadVersion, Insert, Begin, ReadKept, LoadWords, SwapIn, Finish, Fail, Cancel

\* The job's row before and after each of its steps.
LEMMA JobFields ==
    ASSUME TypeInv, NEW j \in Jobs
    PROVE  /\ Call(j) => job[j].state = "none" /\ Is(job'[j], "called", job[j].version, "none", job[j].kept, job[j].words)
           /\ ReadVersion(j) => job[j].at = "none" /\ Is(job'[j], "inserting", version, "none", job[j].kept, job[j].words)
           /\ Insert(j) => job[j].at = "none" /\ Is(job'[j], "queued", job[j].version, "none", job[j].kept, job[j].words)
           /\ Begin(j) => job[j].at = "none" /\ Is(job'[j], "processing", job[j].version, "waiting", job[j].kept, job[j].words)
           /\ ReadKept(j) => job[j].at = "waiting" /\ HoldsLock = {} /\ Is(job'[j], "processing", job[j].version, "listening", kept, job[j].words)
           /\ LoadWords(j) => job[j].at = "listening" /\ Is(job'[j], "processing", job[j].version, "matched", job[j].kept, enabled)
           /\ SwapIn(j) => job[j].at = "matched" /\ Is(job'[j], "processing", job[j].version, "swapped", job[j].kept, job[j].words)
           /\ Finish(j) => job[j].at = "swapped" /\ Is(job'[j], "done", 0, "none", {}, {})
           /\ Fail(j) => job[j].state = "processing" /\ Is(job'[j], "failed", 0, "none", {}, {})
           /\ Cancel(j) => job[j].state \in Active /\ Is(job'[j], "cancelled", 0, "none", {}, {})
<1> DEFINE old == job[j]
           new == job'[j]
<1>1. job \in [Jobs -> JobRow] /\ (old.at # "none" => old.state = "processing")
    BY DEF TypeInv, TypeOK, JobRow, TasksAreProcessed
<1>2. old = Rec(old.state, old.version, old.at, old.kept, old.words)
    BY <1>1 DEF JobRow, Rec, Is
<1>4. Call(j) => old.state = "none" /\ Is(new, "called", old.version, "none", old.kept, old.words)
    BY <1>1, <1>2 DEF Call, Rec, Is
<1>5. ReadVersion(j) => old.at = "none" /\ Is(new, "inserting", version, "none", old.kept, old.words)
    BY <1>1, <1>2 DEF ReadVersion, Rec, Is
<1>6. Insert(j) => old.at = "none" /\ Is(new, "queued", old.version, "none", old.kept, old.words)
    BY <1>1, <1>2 DEF Insert, Rec, Is
<1>7. Begin(j) => old.at = "none" /\ Is(new, "processing", old.version, "waiting", old.kept, old.words)
    BY <1>1, <1>2 DEF Begin, Rec, Is
<1>8. ReadKept(j) => old.at = "waiting" /\ HoldsLock = {} /\ Is(new, "processing", old.version, "listening", kept, old.words)
    BY <1>1, <1>2 DEF ReadKept, Rec, Is
<1>9. LoadWords(j) => old.at = "listening" /\ Is(new, "processing", old.version, "matched", old.kept, enabled)
    BY <1>1, <1>2 DEF LoadWords, Rec, Is
<1>10. SwapIn(j) => old.at = "matched" /\ Is(new, "processing", old.version, "swapped", old.kept, old.words)
    BY <1>1, <1>2 DEF SwapIn, Rec, Is
<1>11. ASSUME NEW s \in {"done", "failed", "cancelled"}, job' = [job EXCEPT ![j] = [NoJob EXCEPT !.state = s]]
       PROVE  Is(new, s, 0, "none", {}, {})
    <2>1. [NoJob EXCEPT !.state = s] = Rec(s, 0, "none", {}, {})
        BY DEF NoJob, Rec
    <2>2. new = [NoJob EXCEPT !.state = s]
        BY <1>1, <1>11, Zenon
    <2> QED
        BY <2>1, <2>2 DEF Rec, Is
<1>12. /\ Finish(j) => old.at = "swapped" /\ Is(new, "done", 0, "none", {}, {})
       /\ Fail(j) => old.state = "processing" /\ Is(new, "failed", 0, "none", {}, {})
       /\ Cancel(j) => old.state \in Active /\ Is(new, "cancelled", 0, "none", {}, {})
    BY <1>11, Zenon DEF Finish, Fail, Cancel
<1> QED
    BY <1>4, <1>5, <1>6, <1>7, <1>8, <1>9, <1>10, <1>12

\* A restart leaves no task, and gives no job a number or takes one away.
LEMMA RestartClears ==
    ASSUME TypeInv, Restart, NEW j \in Jobs
    PROVE  /\ job'[j].at = "none" /\ job'[j].version = job[j].version
           /\ job'[j].state = Requeued(job[j].state)
<1>1. job[j] \in JobRow
    BY DEF TypeInv, TypeOK, JobRow
<1> DEFINE s == Requeued(job[j].state)
<1>2. job'[j] = [job[j] EXCEPT !.state = s, !.at = "none", !.kept = {}, !.words = {}]
    BY Zenon DEF Restart
<1> HIDE DEF s
<1>3. job'[j].at = "none" /\ job'[j].version = job[j].version /\ job'[j].state = s
    BY <1>1, <1>2 DEF JobRow
<1> QED
    BY <1>3 DEF s

---------------------------------------------------------------------------
(* One run at a time *)

\* The lock keeps the runs apart, so the track is the one that the run which
\* swapped it in has made, until that run is over.
OneAtATime   == \A i, k \in HoldsLock : i = k
SwappedTrack == \A j \in Jobs : job[j].at = "swapped" => track = Muted(j)
LockInv == TypeInv /\ OneAtATime /\ SwappedTrack

\* A step of one job that neither takes the lock nor swaps keeps them.
LEMMA QuietJobStep ==
    ASSUME LockInv, NEW j \in Jobs, \A k \in Jobs \ {j} : job'[k] = job[k],
           job'[j].at \in {"listening", "matched", "swapped"} => job[j].at \in {"listening", "matched", "swapped"},
           job'[j].at = "swapped" => job'[j] = job[j],
           track' = track
    PROVE  OneAtATime' /\ SwappedTrack'
BY DEF LockInv, OneAtATime, SwappedTrack, HoldsLock, Muted

\* Every step keeps the runs apart.
LEMMA NextKeepsLock == LockInv /\ [Next]_vars => LockInv'
<1> SUFFICES ASSUME LockInv, [Next]_vars PROVE LockInv'
    OBVIOUS
<1>1. TypeInv /\ TypeInv'
    BY NextKeepsType DEF LockInv
<1> USE DEF words
<1>2. ASSUME UNCHANGED <<job, track>> PROVE LockInv'
    BY <1>1, <1>2 DEF LockInv, OneAtATime, SwappedTrack, HoldsLock, Muted
<1>3. ASSUME \/ \E e \in Editors : CommitEdit(e) \/ ReadForBump(e) \/ Bump(e)
             \/ Open \/ (\E c \in Cues : Tick(c)) \/ UNCHANGED vars
      PROVE  LockInv'
    BY <1>2, <1>3 DEF CommitEdit, ReadForBump, Bump, Open, Tick, vars
<1>4. ASSUME NEW j \in Jobs,
             \/ ProcessTitle(j) \/ ReprocessOutdated(j) \/ ReadVersion(j) \/ Insert(j) \/ Begin(j)
             \/ LoadWords(j) \/ Finish(j) \/ Fail(j) \/ Cancel(j) \/ SaveKept(j)
      PROVE  LockInv'
    <2>1. track' = track
        BY <1>4 DEF ProcessTitle, ReprocessOutdated, ReadVersion, Insert, Begin, LoadWords, Finish, Fail, Cancel,
            SaveKept
    <2>2. /\ JobStep(j)
          /\ \/ Call(j) \/ ReadVersion(j) \/ Insert(j) \/ Begin(j) \/ LoadWords(j) \/ Finish(j)
             \/ Fail(j) \/ Cancel(j)
        BY <1>4 DEF JobStep, ProcessTitle, ReprocessOutdated, SaveKept
    <2>3. \A k \in Jobs \ {j} : job'[k] = job[k]
        BY <1>1, <2>2, OtherJobs
    <2>5. job'[j].at \in {"none", "waiting"} \/ (job'[j].at = "matched" /\ job[j].at = "listening")
        BY <1>1, <2>2, JobFields DEF Is
    <2> QED
        BY <1>1, <2>1, <2>3, <2>5, QuietJobStep DEF LockInv
<1>5. ASSUME NEW j \in Jobs, ReadKept(j) PROVE LockInv'
    <2>1. /\ \A k \in Jobs \ {j} : job'[k] = job[k]
          /\ job'[j].at = "listening" /\ HoldsLock = {}
        <3>1. TypeInv /\ JobStep(j)
            BY <1>1, <1>5 DEF JobStep
        <3>2. Is(job'[j], "processing", job[j].version, "listening", kept, job[j].words)
            BY <3>1, <1>5, JobFields
        <3>3. \A k \in Jobs \ {j} : job'[k] = job[k]
            BY <3>1, OtherJobs
        <3>4. HoldsLock = {}
            BY <1>5 DEF ReadKept
        <3> QED
            BY <3>2, <3>3, <3>4 DEF Is
    <2>2. \A k \in Jobs : job'[k].at \in {"listening", "matched", "swapped"} => k = j
        BY <2>1 DEF HoldsLock
    <2>3. OneAtATime'
        BY <2>2 DEF OneAtATime, HoldsLock
    <2>4. SwappedTrack'
        BY <2>1, <2>2 DEF SwappedTrack
    <2> QED
        BY <1>1, <2>3, <2>4 DEF LockInv
<1>6. ASSUME NEW j \in Jobs, SwapIn(j) PROVE LockInv'
    <2>1. /\ \A k \in Jobs \ {j} : job'[k] = job[k]
          /\ job[j].at = "matched" /\ job'[j].at = "swapped"
          /\ job'[j].kept = job[j].kept /\ job'[j].words = job[j].words
        <3>1. TypeInv /\ JobStep(j)
            BY <1>1, <1>6 DEF JobStep
        <3>2. Is(job'[j], "processing", job[j].version, "swapped", job[j].kept, job[j].words)
            BY <3>1, <1>6, JobFields
        <3>3. \A k \in Jobs \ {j} : job'[k] = job[k]
            BY <3>1, OtherJobs
        <3>4. job[j].at = "matched"
            BY <1>6 DEF SwapIn
        <3> QED
            BY <3>2, <3>3, <3>4 DEF Is
    <2>2. \A k \in Jobs : k \in HoldsLock' <=> k \in HoldsLock
        BY <2>1 DEF HoldsLock
    <2>3. OneAtATime'
        BY <2>2 DEF LockInv, OneAtATime, HoldsLock
    <2>4. \A k \in Jobs : job'[k].at = "swapped" => k = j
        BY <2>1 DEF LockInv, OneAtATime, HoldsLock
    <2>5. SwappedTrack'
        BY <1>6, <2>1, <2>4 DEF SwappedTrack, Muted, SwapIn
    <2> QED
        BY <1>1, <2>3, <2>5 DEF LockInv
<1>7. CASE Restart
    <2>1. \A k \in Jobs : job'[k].at = "none"
        BY <1>1, <1>7, RestartClears
    <2> QED
        BY <1>1, <2>1 DEF LockInv, OneAtATime, SwappedTrack, HoldsLock
<1> QED
    BY <1>3, <1>4, <1>5, <1>6, <1>7 DEF Next

---------------------------------------------------------------------------
(* What is called up to date is current *)

\* No two edits of the word list overlap.  Two that do may write an older
\* version back, and then nothing is promised.
OneEditor == \A d, e \in Editors : d = e

EditorsIdle == \A e \in Editors : editor[e].at = "idle"

\* Nothing was built under a version that is still to come, and the edit under
\* way is about to write the next one.
VersionsAreOld == shown <= version /\ \A j \in Jobs : job[j].version <= version
BumpIsFresh    == \A e \in Editors : editor[e].at = "read" => editor[e].seen = version

\* While no edit is under way: a run that matched has today's words, if it, or
\* the title, counts as up to date; and so have the list and the track then.
WordsAreCurrent ==
    EditorsIdle => \A j \in Jobs :
        job[j].at \in {"matched", "swapped"} /\ version \in {shown, job[j].version}
            => job[j].words = enabled
ListIsCurrent ==
    EditorsIdle /\ shown = version
        => CuesOf(list) = Matched(enabled) /\ track \subseteq Matched(enabled)

CurrentInv == LockInv /\ VersionsAreOld /\ BumpIsFresh /\ WordsAreCurrent /\ ListIsCurrent

\* The strengthening gives the property.
LEMMA CurrentIsUpToDate == CurrentInv => UpToDateIsCurrent
<1> SUFFICES ASSUME CurrentInv, shown # 0, ~Outdated, EditorsIdle
             PROVE  CuesOf(list) = Matched(enabled) /\ track \subseteq Matched(enabled)
    BY DEF UpToDateIsCurrent, EditorsIdle
<1>1. shown \in Nat /\ version \in Nat /\ shown <= version
    BY DEF CurrentInv, LockInv, TypeInv, TypeOK, VersionsAreOld
<1>2. shown = version
    BY <1>1 DEF Outdated
<1> QED
    BY <1>2 DEF CurrentInv, ListIsCurrent

LEMMA InitCurrent == Init => CurrentInv
<1> SUFFICES ASSUME Init PROVE CurrentInv
    OBVIOUS
<1>1. TypeInv
    BY InitType
<1>2. \A j \in Jobs : job[j].at = "none" /\ job[j].version = 0
    BY DEF Init, NoJob
<1>3. OneAtATime /\ SwappedTrack /\ WordsAreCurrent
    BY <1>2 DEF OneAtATime, SwappedTrack, WordsAreCurrent, HoldsLock
<1>4. VersionsAreOld /\ BumpIsFresh /\ ListIsCurrent
    BY <1>2 DEF Init, VersionsAreOld, BumpIsFresh, ListIsCurrent
<1> QED
    BY <1>1, <1>3, <1>4 DEF CurrentInv, LockInv

\* The edits keep it: the version that a commit has made old is written next.
LEMMA EditsKeepCurrent ==
    ASSUME OneEditor, CurrentInv, NEW e \in Editors, CommitEdit(e) \/ ReadForBump(e) \/ Bump(e)
    PROVE  VersionsAreOld' /\ BumpIsFresh' /\ WordsAreCurrent' /\ ListIsCurrent'
<1>1. UNCHANGED <<kept, job, track, list, shown>>
    BY DEF CommitEdit, ReadForBump, Bump
<1>2. /\ version \in Nat /\ shown \in Nat /\ \A j \in Jobs : job[j].version \in Nat
      /\ editor \in [Editors -> [at: EditSteps, seen: Nat]]
    BY DEF CurrentInv, LockInv, TypeInv, TypeOK
<1>3. \A d \in Editors : d = e
    BY DEF OneEditor
<1>4. CASE CommitEdit(e)
    <2>1. version' = version /\ editor'[e].at = "committed"
        BY <1>2, <1>4 DEF CommitEdit
    <2> QED
        BY <1>1, <1>3, <2>1 DEF CurrentInv, VersionsAreOld, BumpIsFresh, WordsAreCurrent, ListIsCurrent, EditorsIdle
<1>5. CASE ReadForBump(e)
    <2>1. version' = version /\ editor'[e] = [at |-> "read", seen |-> version]
        BY <1>2, <1>5 DEF ReadForBump
    <2> QED
        BY <1>1, <1>3, <2>1 DEF CurrentInv, VersionsAreOld, BumpIsFresh, WordsAreCurrent, ListIsCurrent, EditorsIdle
<1>6. CASE Bump(e)
    <2>1. version' = version + 1 /\ editor'[e].at = "idle"
        BY <1>2, <1>6 DEF Bump, CurrentInv, BumpIsFresh
    <2>2. /\ shown <= version /\ shown # version'
          /\ \A j \in Jobs : job[j].version <= version /\ job[j].version # version'
        BY <1>2, <2>1 DEF CurrentInv, VersionsAreOld
    <2> QED
        BY <1>1, <1>2, <1>3, <2>1, <2>2 DEF VersionsAreOld, BumpIsFresh, WordsAreCurrent, ListIsCurrent
<1> QED
    BY <1>4, <1>5, <1>6

\* A step of a job that leaves the words, what is shown and the track alone,
\* and where the job has matched nothing yet or just now.
LEMMA JobStepKeepsCurrent ==
    ASSUME CurrentInv, NEW j \in Jobs, \A k \in Jobs \ {j} : job'[k] = job[k],
           UNCHANGED <<words, shown, track>>, CuesOf(list') = CuesOf(list),
           job'[j].version \in {job[j].version, version, 0},
           job'[j].at \in {"matched", "swapped"} => job'[j].words = enabled
    PROVE  VersionsAreOld' /\ BumpIsFresh' /\ WordsAreCurrent' /\ ListIsCurrent'
<1>1. version \in Nat /\ \A k \in Jobs : job[k].version \in Nat
    BY DEF CurrentInv, LockInv, TypeInv, TypeOK
<1>2. VersionsAreOld'
    BY <1>1 DEF CurrentInv, VersionsAreOld, words
<1>3. WordsAreCurrent'
    BY DEF CurrentInv, WordsAreCurrent, EditorsIdle, words
<1>4. BumpIsFresh' /\ ListIsCurrent'
    BY DEF CurrentInv, BumpIsFresh, ListIsCurrent, EditorsIdle, words, Matched
<1> QED
    BY <1>2, <1>3, <1>4

\* Every step keeps it.
LEMMA NextKeepsCurrent == ASSUME OneEditor PROVE CurrentInv /\ [Next]_vars => CurrentInv'
<1> SUFFICES ASSUME CurrentInv, [Next]_vars PROVE CurrentInv'
    OBVIOUS
<1>1. LockInv /\ LockInv'
    BY NextKeepsLock DEF CurrentInv
<1>2. TypeInv /\ (\A j \in Jobs : job[j].version \in Nat) /\ version \in Nat /\ shown \in Nat
    BY <1>1 DEF LockInv, TypeInv, TypeOK
<1> USE DEF words
<1>3. ASSUME UNCHANGED <<enabled, version, editor, job, track, list, shown>> PROVE CurrentInv'
    BY <1>1, <1>3 DEF CurrentInv, VersionsAreOld, BumpIsFresh, WordsAreCurrent, ListIsCurrent, EditorsIdle,
        CuesOf, Matched
<1>4. ASSUME Open \/ (\E c \in Cues : Tick(c)) \/ UNCHANGED vars PROVE CurrentInv'
    BY <1>3, <1>4 DEF Open, Tick, vars
<1>5. ASSUME NEW j \in Jobs,
             \/ ProcessTitle(j) \/ ReprocessOutdated(j) \/ ReadVersion(j) \/ Insert(j) \/ Begin(j)
             \/ ReadKept(j) \/ LoadWords(j) \/ Fail(j) \/ Cancel(j) \/ SaveKept(j)
      PROVE  CurrentInv'
    <2>1. UNCHANGED <<words, shown, track>>
        BY <1>5 DEF ProcessTitle, ReprocessOutdated, ReadVersion, Insert, Begin, ReadKept, LoadWords, Fail, Cancel,
            SaveKept
    <2>2. CuesOf(list') = CuesOf(list)
        <3>1. list' = list \/ list' = [list EXCEPT !.kept = Wanted]
            BY <1>5 DEF ProcessTitle, ReprocessOutdated, ReadVersion, Insert, Begin, ReadKept, LoadWords, Fail,
                Cancel, SaveKept, SetKept
        <3>2. list'.cues = list.cues
            BY <1>2, <3>1 DEF TypeInv, TypeOK, List
        <3> QED
            BY <3>2 DEF CuesOf
    <2>3. /\ JobStep(j)
          /\ \/ Call(j) \/ ReadVersion(j) \/ Insert(j) \/ Begin(j) \/ ReadKept(j) \/ LoadWords(j)
             \/ Fail(j) \/ Cancel(j)
        BY <1>5 DEF JobStep, ProcessTitle, ReprocessOutdated, SaveKept
    <2>4. \A k \in Jobs \ {j} : job'[k] = job[k]
        BY <1>2, <2>3, OtherJobs
    <2>5. /\ job'[j].version \in {job[j].version, version, 0}
          /\ job'[j].at \in {"matched", "swapped"} => job'[j].words = enabled
        BY <1>2, <2>3, JobFields DEF Is
    <2> QED
        BY <1>1, <2>1, <2>2, <2>4, <2>5, JobStepKeepsCurrent DEF CurrentInv
<1>6. ASSUME NEW j \in Jobs, SwapIn(j) PROVE CurrentInv'
    <2>1. /\ Is(job'[j], "processing", job[j].version, "swapped", job[j].kept, job[j].words)
          /\ \A k \in Jobs \ {j} : job'[k] = job[k]
        BY <1>2, <1>6, JobFields, OtherJobs DEF JobStep
    <2>2. /\ job[j].at = "matched" /\ track' = Matched(job[j].words) \ job[j].kept
          /\ UNCHANGED <<enabled, version, editor, list, shown>>
        BY <1>6 DEF SwapIn, Muted
    <2>3. VersionsAreOld' /\ BumpIsFresh'
        BY <2>1, <2>2 DEF CurrentInv, VersionsAreOld, BumpIsFresh, Is
    <2>4. WordsAreCurrent'
        BY <2>1, <2>2 DEF CurrentInv, WordsAreCurrent, EditorsIdle, Is
    <2>5. ListIsCurrent'
        <3>1. EditorsIdle /\ shown = version => job[j].words = enabled
            BY <2>2 DEF CurrentInv, WordsAreCurrent
        <3> QED
            BY <2>2, <3>1 DEF CurrentInv, ListIsCurrent, EditorsIdle, CuesOf, Matched
    <2> QED
        BY <1>1, <2>3, <2>4, <2>5 DEF CurrentInv
<1>7. ASSUME NEW j \in Jobs, Finish(j) PROVE CurrentInv'
    <2>1. /\ Is(job'[j], "done", 0, "none", {}, {})
          /\ \A k \in Jobs \ {j} : job'[k] = job[k]
        BY <1>2, <1>7, JobFields, OtherJobs DEF JobStep
    <2>2. /\ job[j].at = "swapped" /\ shown' = job[j].version
          /\ UNCHANGED <<enabled, version, editor, track>>
          /\ \E block, keep : list' = [block |-> block, cues |-> InOrder(Matched(job[j].words)), kept |-> keep]
        BY <1>7 DEF Finish, VersionOf
    <2>3. VersionsAreOld' /\ BumpIsFresh'
        BY <1>2, <2>1, <2>2 DEF CurrentInv, VersionsAreOld, BumpIsFresh, Is
    <2>4. WordsAreCurrent'
        <3>1. \A k \in Jobs : job'[k].at \notin {"matched", "swapped"}
            BY <1>1, <2>1, <2>2 DEF LockInv, OneAtATime, HoldsLock, Is
        <3> QED
            BY <3>1 DEF WordsAreCurrent
    <2>5. ListIsCurrent'
        <3>1. EditorsIdle /\ job[j].version = version => job[j].words = enabled
            BY <2>2 DEF CurrentInv, WordsAreCurrent
        <3>2. Matched(job[j].words) \in SUBSET Cues
            BY DEF Matched
        <3>3. CuesOf(list') = Matched(job[j].words)
            BY <2>2, <3>2, InOrderLists DEF CuesOf
        <3>4. track = Matched(job[j].words) \ job[j].kept
            BY <1>1, <2>2 DEF LockInv, SwappedTrack, Muted
        <3>5. \A ws : Matched(ws)' = Matched(ws)
            BY DEF Matched
        <3> QED
            BY <2>2, <3>1, <3>3, <3>4 DEF ListIsCurrent, EditorsIdle, CuesOf, Matched
    <2> QED
        BY <1>1, <2>3, <2>4, <2>5 DEF CurrentInv
<1>8. CASE Restart
    <2>1. \A j \in Jobs : job'[j].at = "none" /\ job'[j].version = job[j].version
        BY <1>2, <1>8, RestartClears
    <2>2. UNCHANGED <<enabled, version, track, list, shown>>
        BY <1>8 DEF Restart
    <2>3. \A e \in Editors : editor'[e].at = IF editor[e].at = "idle" THEN "idle" ELSE "lost"
        BY <1>8 DEF Restart
    <2>4. VersionsAreOld' /\ BumpIsFresh' /\ WordsAreCurrent'
        BY <2>1, <2>2, <2>3 DEF CurrentInv, VersionsAreOld, BumpIsFresh, WordsAreCurrent
    <2>5. EditorsIdle' => EditorsIdle
        BY <2>3 DEF EditorsIdle
    <2>6. ListIsCurrent'
        BY <2>2, <2>5 DEF CurrentInv, ListIsCurrent, CuesOf, Matched
    <2> QED
        BY <1>1, <2>4, <2>6 DEF CurrentInv
<1>9. ASSUME NEW e \in Editors, CommitEdit(e) \/ ReadForBump(e) \/ Bump(e) PROVE CurrentInv'
    BY <1>1, <1>9, EditsKeepCurrent DEF CurrentInv
<1> QED
    BY <1>4, <1>5, <1>6, <1>7, <1>8, <1>9 DEF Next

\* As long as edits of the word list do not overlap, a title that the library
\* does not call outdated has the list and the track of the words that are
\* enabled now, whatever was edited while its jobs waited and ran.
THEOREM UpToDateIsTrue == ASSUME OneEditor PROVE Spec => []UpToDateIsCurrent
<1>1. CurrentInv /\ [Next]_vars => CurrentInv'
    BY NextKeepsCurrent
<1> QED
    BY <1>1, InitCurrent, CurrentIsUpToDate, PTL DEF Spec

---------------------------------------------------------------------------
(* What the user chose to keep is honoured *)

\* The job asked for last.
Latest(i) == job[i].state # "none" /\ \A k \in Jobs : k > i => job[k].state = "none"

\* A run under the lock has read the choices there are, or a later job is yet
\* to read them: saving choices asks for one.
KeptIsRead ==
    \A j \in HoldsLock : job[j].kept = kept \/ \E i \in Jobs \ {j} : Latest(i) /\ job[i].state # "done"

\* The title is done, so is the job asked for last, and no track was swapped in
\* whose rows are still to come: the choices are built in.
DoneIsBuilt ==
    /\ status = "done"
    /\ \E i \in Jobs : Latest(i) /\ job[i].state = "done"
    /\ \A j \in Jobs : job[j].at # "swapped"
    => list.kept = kept \cap CuesOf(list) /\ track = CuesOf(list) \ kept

KeptInv == LockInv /\ KeptIsRead /\ DoneIsBuilt

\* There is one such job.
LEMMA OneLatest == ASSUME NEW i \in Jobs, NEW k \in Jobs, Latest(i), Latest(k) PROVE i = k
<1>1. i \in Nat /\ k \in Nat
    BY DEF Jobs
<1>2. ~(i > k) /\ ~(k > i)
    BY DEF Latest
<1> QED
    BY <1>1, <1>2

\* The strengthening gives the property.
LEMMA KeptIsHonoured == KeptInv => KeepsAreHonoured
<1> SUFFICES ASSUME KeptInv, status = "done", LastIsDone, InState(Requested \cup Active) = {}
             PROVE  list.kept = kept \cap CuesOf(list) /\ track = CuesOf(list) \ kept
    BY DEF KeepsAreHonoured
<1>1. \A j \in Jobs : job[j].at = "none"
    BY DEF KeptInv, LockInv, TypeInv, TasksAreProcessed, InState, Active
<1>2. PICK j \in Jobs : job[j].state = "done" /\ \A i \in j + 1..MaxJobs : job[i].state = "none"
    BY DEF LastIsDone
<1>3. Latest(j)
    <2>1. \A k \in Jobs : k > j => k \in j + 1..MaxJobs
        BY MuteChoicesAssumption DEF Jobs
    <2> QED
        BY <1>2, <2>1 DEF Latest
<1> QED
    BY <1>1, <1>2, <1>3 DEF KeptInv, DoneIsBuilt

LEMMA InitKept == Init => KeptInv
<1> SUFFICES ASSUME Init PROVE KeptInv
    OBVIOUS
<1>1. TypeInv
    BY InitType
<1>2. \A j \in Jobs : job[j].at = "none"
    BY DEF Init, NoJob
<1>3. OneAtATime /\ SwappedTrack /\ KeptIsRead
    BY <1>2 DEF OneAtATime, SwappedTrack, KeptIsRead, HoldsLock
<1>4. DoneIsBuilt
    BY DEF Init, DoneIsBuilt
<1> QED
    BY <1>1, <1>3, <1>4 DEF KeptInv, LockInv

\* The job that is asked for becomes the last one.
LEMMA CalledIsLatest ==
    ASSUME TypeInv, NEW j \in Jobs, Call(j)
    PROVE  Latest(j)' /\ job'[j].state = "called" /\ job'[j].at = "none" /\ job[j].at = "none"
<1>1. JobStep(j)
    BY DEF JobStep
<1>2. \A k \in Jobs \ {j} : job'[k] = job[k]
    BY <1>1, OtherJobs
<1>3. job[j].state = "none" /\ job'[j].state = "called" /\ job'[j].at = "none"
    BY JobFields DEF Is
<1>4. \A k \in Jobs : k > j => k # j /\ job[k].state = "none"
    BY <1>3 DEF TypeInv, NoneIsLast, Jobs
<1>5. Latest(j)'
    BY <1>2, <1>3, <1>4 DEF Latest
<1>6. job[j].at = "none"
    BY <1>3 DEF TypeInv, TasksAreProcessed
<1> QED
    BY <1>3, <1>5, <1>6

\* The job asked for last stays the same while some job goes on.
LEMMA LatestStays ==
    ASSUME NEW j \in Jobs, \A k \in Jobs \ {j} : job'[k] = job[k],
           job[j].state # "none", job'[j].state # "none", NEW i \in Jobs
    PROVE  Latest(i)' <=> Latest(i)
<1>1. \A k \in Jobs : job'[k].state = "none" <=> job[k].state = "none"
    OBVIOUS
<1> QED
    BY <1>1 DEF Latest

\* Asking for a job keeps both, whatever is saved with it: the choices are now
\* the new job's to read.
LEMMA CallKeepsKept ==
    ASSUME TypeInv, NEW j \in Jobs, Call(j)
    PROVE  KeptIsRead' /\ DoneIsBuilt'
<1>1. Latest(j)' /\ job'[j].state = "called" /\ job'[j].at = "none"
    BY CalledIsLatest
<1>2. KeptIsRead'
    <2>1. \A k \in HoldsLock' : j \in Jobs \ {k}
        BY <1>1 DEF HoldsLock
    <2> QED
        BY <1>1, <2>1 DEF KeptIsRead
<1>3. DoneIsBuilt'
    <2>1. \A i \in Jobs : Latest(i)' => i = j
        <3> TAKE i \in Jobs
        <3>1. HAVE Latest(i)'
        <3>2. i \in Nat /\ j \in Nat
            BY DEF Jobs
        <3>3. ~(i > j) /\ ~(j > i)
            BY <1>1, <3>1 DEF Latest
        <3> QED
            BY <3>2, <3>3
    <2> QED
        BY <1>1, <2>1 DEF DoneIsBuilt
<1> QED
    BY <1>2, <1>3

\* So does a step of a run that leaves the choices, and does not finish.
LEMMA RunKeepsRead ==
    ASSUME KeptInv, NEW j \in Jobs, \A k \in Jobs \ {j} : job'[k] = job[k],
           job[j].state # "none", job'[j].state \notin {"none", "done"}, kept' = kept,
           j \in HoldsLock' => j \in HoldsLock /\ job'[j].kept = job[j].kept
    PROVE  KeptIsRead'
<1> SUFFICES ASSUME NEW h \in HoldsLock'
             PROVE  job'[h].kept = kept \/ \E i \in Jobs \ {h} : Latest(i)' /\ job'[i].state # "done"
    BY DEF KeptIsRead
<1>1. h \in HoldsLock /\ job'[h].kept = job[h].kept
    BY DEF HoldsLock
<1>2. CASE \E i \in Jobs \ {h} : Latest(i) /\ job[i].state # "done"
    <2>1. PICK i \in Jobs \ {h} : Latest(i) /\ job[i].state # "done"
        BY <1>2
    <2>2. Latest(i)'
        BY <2>1, LatestStays
    <2>3. job'[i].state # "done"
        BY <2>1
    <2> QED
        BY <2>1, <2>2, <2>3
<1> QED
    BY <1>1, <1>2 DEF KeptInv, KeptIsRead

LEMMA RunKeepsBuilt ==
    ASSUME KeptInv, NEW j \in Jobs, \A k \in Jobs \ {j} : job'[k] = job[k],
           job[j].state # "none", job'[j].state \notin {"none", "done"}, job[j].at # "swapped",
           UNCHANGED <<kept, list, track, status>>
    PROVE  DoneIsBuilt'
<1> SUFFICES ASSUME status = "done", NEW i \in Jobs, Latest(i)', job'[i].state = "done",
                    \A k \in Jobs : job'[k].at # "swapped"
             PROVE  list.kept = kept \cap CuesOf(list) /\ track = CuesOf(list) \ kept
    BY DEF DoneIsBuilt, CuesOf
<1>1. Latest(i) /\ job[i].state = "done"
    BY LatestStays
<1>2. \A k \in Jobs : job[k].at # "swapped"
    OBVIOUS
<1> QED
    BY <1>1, <1>2 DEF KeptInv, DoneIsBuilt

\* The rows that a run lists, and the track it leaves.
LEMMA FinishBuilds ==
    ASSUME KeptInv, NEW j \in Jobs, Finish(j)
    PROVE  KeptIsRead' /\ DoneIsBuilt'
<1>1. TypeInv /\ JobStep(j)
    BY DEF KeptInv, LockInv, JobStep
<1>2. /\ \A k \in Jobs \ {j} : job'[k] = job[k]
      /\ job[j].at = "swapped" /\ job'[j].at = "none" /\ job'[j].state = "done"
    BY <1>1, OtherJobs, JobFields DEF Is
<1>3. job[j].state # "none"
    BY <1>1, <1>2 DEF TypeInv, TasksAreProcessed
<1>4. KeptIsRead'
    <2>1. HoldsLock' = {}
        BY <1>2 DEF HoldsLock, KeptInv, LockInv, OneAtATime
    <2> QED
        BY <2>1 DEF KeptIsRead
<1>5. /\ kept' = kept /\ track' = track
      /\ \E block : list' = [block |-> block, cues |-> InOrder(Matched(job[j].words)), kept |-> Flags(j)]
    BY DEF Finish
<1>6. CuesOf(list') = Matched(job[j].words) /\ list'.kept = job[j].kept \cap Matched(job[j].words)
    <2>1. Matched(job[j].words) \in SUBSET Cues
        BY DEF Matched
    <2> QED
        BY <1>5, <2>1, InOrderLists DEF CuesOf, Flags
<1>7. track = Matched(job[j].words) \ job[j].kept
    BY <1>2 DEF KeptInv, LockInv, SwappedTrack, Muted
<1>8. ASSUME NEW i \in Jobs, Latest(i)', job'[i].state = "done"
      PROVE  job[j].kept = kept
    <2>1. Latest(i)
        BY <1>2, <1>3, <1>8, LatestStays
    <2>2. ASSUME NEW k \in Jobs \ {j}, Latest(k), job[k].state # "done" PROVE FALSE
        BY <1>2, <1>8, <2>1, <2>2, OneLatest
    <2>3. j \in HoldsLock
        BY <1>2 DEF HoldsLock
    <2> QED
        BY <2>2, <2>3 DEF KeptInv, KeptIsRead
<1>9. DoneIsBuilt'
    <2>1. ASSUME NEW i \in Jobs, Latest(i)', job'[i].state = "done"
          PROVE  list'.kept = kept' \cap CuesOf(list') /\ track' = CuesOf(list') \ kept'
        BY <1>5, <1>6, <1>7, <1>8, <2>1
    <2> QED
        BY <2>1 DEF DoneIsBuilt, CuesOf
<1> QED
    BY <1>4, <1>9

\* Every step keeps it.
LEMMA NextKeepsKept == KeptInv /\ [Next]_vars => KeptInv'
<1> SUFFICES ASSUME KeptInv, [Next]_vars PROVE KeptInv'
    OBVIOUS
<1>1. LockInv' /\ TypeInv
    BY NextKeepsLock DEF KeptInv, LockInv
<1> SUFFICES KeptIsRead' /\ DoneIsBuilt'
    BY <1>1 DEF KeptInv
<1> USE DEF words
<1>2. ASSUME \/ \E e \in Editors : CommitEdit(e) \/ ReadForBump(e) \/ Bump(e)
             \/ Open \/ (\E c \in Cues : Tick(c)) \/ UNCHANGED vars
      PROVE  KeptIsRead' /\ DoneIsBuilt'
    <2>1. UNCHANGED <<kept, job, track, list, status>>
        BY <1>2 DEF CommitEdit, ReadForBump, Bump, Open, Tick, vars
    <2> QED
        BY <2>1 DEF KeptInv, KeptIsRead, DoneIsBuilt, HoldsLock, Latest, CuesOf
<1>3. ASSUME NEW j \in Jobs, ProcessTitle(j) \/ ReprocessOutdated(j) \/ SaveKept(j)
      PROVE  KeptIsRead' /\ DoneIsBuilt'
    <2>1. Call(j)
        BY <1>3 DEF ProcessTitle, ReprocessOutdated, SaveKept
    <2> QED
        BY <1>1, <2>1, CallKeepsKept
<1>4. ASSUME NEW j \in Jobs, ReadVersion(j) \/ LoadWords(j) PROVE KeptIsRead' /\ DoneIsBuilt'
    <2>1. JobStep(j) /\ UNCHANGED <<kept, list, track, status>> /\ job[j].state # "none"
        BY <1>1, <1>4 DEF JobStep, ReadVersion, LoadWords, TypeInv, TasksAreProcessed
    <2>2. /\ \A k \in Jobs \ {j} : job'[k] = job[k]
          /\ job[j].at # "swapped" /\ job'[j].state \notin {"none", "done"}
          /\ job'[j].at = "none" \/ (job[j].at = "listening" /\ job'[j].kept = job[j].kept)
        BY <1>1, <1>4, <2>1, OtherJobs, JobFields DEF Is
    <2> QED
        BY <2>1, <2>2, RunKeepsRead, RunKeepsBuilt DEF HoldsLock
<1>5. ASSUME NEW j \in Jobs, Insert(j) \/ Begin(j) \/ Fail(j) \/ Cancel(j) PROVE KeptIsRead' /\ DoneIsBuilt'
    <2>1. JobStep(j) /\ kept' = kept /\ job[j].state # "none" /\ status' # "done"
        BY <1>1, <1>5 DEF JobStep, Insert, Begin, Fail, Cancel, Active
    <2>2. /\ \A k \in Jobs \ {j} : job'[k] = job[k]
          /\ job'[j].at \in {"none", "waiting"} /\ job'[j].state \notin {"none", "done"}
        BY <1>1, <1>5, <2>1, OtherJobs, JobFields DEF Is
    <2>3. KeptIsRead'
        BY <2>1, <2>2, RunKeepsRead DEF HoldsLock
    <2> QED
        BY <2>1, <2>3 DEF DoneIsBuilt
<1>6. ASSUME NEW j \in Jobs, ReadKept(j) PROVE KeptIsRead' /\ DoneIsBuilt'
    <2>1. JobStep(j) /\ UNCHANGED <<kept, list, track, status>>
        BY <1>6 DEF JobStep, ReadKept
    <2>2. /\ \A k \in Jobs \ {j} : job'[k] = job[k]
          /\ job[j].at = "waiting" /\ HoldsLock = {} /\ job'[j].kept = kept
          /\ job'[j].state = "processing"
        BY <1>1, <1>6, <2>1, OtherJobs, JobFields DEF Is
    <2>3. job[j].state # "none"
        BY <1>1, <2>2 DEF TypeInv, TasksAreProcessed
    <2>4. HoldsLock' \subseteq {j}
        BY <2>2 DEF HoldsLock
    <2>5. KeptIsRead'
        BY <2>1, <2>2, <2>4 DEF KeptIsRead
    <2> QED
        BY <2>1, <2>2, <2>3, <2>5, RunKeepsBuilt
<1>7. ASSUME NEW j \in Jobs, SwapIn(j) PROVE KeptIsRead' /\ DoneIsBuilt'
    <2>1. JobStep(j) /\ kept' = kept
        BY <1>7 DEF JobStep, SwapIn
    <2>2. /\ \A k \in Jobs \ {j} : job'[k] = job[k]
          /\ job[j].at = "matched" /\ job'[j].at = "swapped" /\ job'[j].kept = job[j].kept
          /\ job'[j].state = "processing"
        BY <1>1, <1>7, <2>1, OtherJobs, JobFields DEF Is
    <2>3. job[j].state # "none" /\ j \in HoldsLock
        BY <1>1, <2>2 DEF TypeInv, TasksAreProcessed, HoldsLock
    <2>4. KeptIsRead'
        BY <2>1, <2>2, <2>3, RunKeepsRead
    <2> QED
        BY <2>2, <2>4 DEF DoneIsBuilt
<1>8. ASSUME NEW j \in Jobs, Finish(j) PROVE KeptIsRead' /\ DoneIsBuilt'
    BY <1>8, FinishBuilds
<1>9. CASE Restart
    <2>1. /\ \A j \in Jobs : job'[j].at = "none" /\ job'[j].state = Requeued(job[j].state)
          /\ UNCHANGED <<kept, list, track>>
        BY <1>1, <1>9, RestartClears DEF Restart
    <2>2. \A s \in JobStates : (Requeued(s) = "none" <=> s = "none") /\ (Requeued(s) = "done" <=> s = "done")
        BY DEF Requeued, JobStates, Requested
    <2>3. \A j \in Jobs : /\ job'[j].state = "none" <=> job[j].state = "none"
                          /\ job'[j].state = "done" <=> job[j].state = "done"
        BY <1>1, <2>1, <2>2 DEF TypeInv, TypeOK
    <2>4. KeptIsRead'
        BY <2>1 DEF KeptIsRead, HoldsLock
    <2>5. status' = "done" => status = "done" /\ \A j \in Jobs : job[j].at # "swapped"
        BY <1>1, <1>9 DEF Restart, InState, TypeInv, TasksAreProcessed
    <2>6. \A i \in Jobs : Latest(i)' => Latest(i)
        BY <2>3 DEF Latest
    <2>7. DoneIsBuilt'
        BY <2>1, <2>3, <2>5, <2>6 DEF KeptInv, DoneIsBuilt, CuesOf
    <2> QED
        BY <2>4, <2>7
<1> QED
    BY <1>2, <1>3, <1>4, <1>5, <1>6, <1>7, <1>8, <1>9 DEF Next

\* Once the last job asked for is done and no other is left, the track mutes
\* exactly the listed cues that the user did not choose to keep, and the list
\* says so, whatever was saved, cancelled or lost in a restart before.
THEOREM KeepsAreBuiltIn == Spec => []KeepsAreHonoured
BY InitKept, NextKeepsKept, KeptIsHonoured, PTL DEF Spec
=============================================================================
