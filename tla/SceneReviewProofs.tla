--------------------------- MODULE SceneReviewProofs ---------------------------
(* Theorems about SceneReview, for any jobs, scenes, requests and restarts. *)
EXTENDS SceneReview, TLAPS, FiniteSetTheorems, WellFoundedInduction

---------------------------------------------------------------------------
(* Lemmas about the operators of the model *)

\* A set of numbers that is not empty has a least one: induction in the form
\* of a least counterexample.
LEMMA LeastNumber ==
    ASSUME NEW T \in SUBSET Nat, T # {}
    PROVE  \E x \in T : \A y \in T : x <= y
<1> DEFINE R == OpToRel(<, Nat)
<1>1. IsWellFoundedOn(R, Nat)
    BY NatLessThanWellFounded, Zenon
<1>2. PICK x \in T : \A y \in T : <<y, x>> \notin R
    <2> HIDE DEF R
    <2> QED
        BY <1>1, WFMin, Zenon
<1>3. ASSUME NEW y \in T PROVE x <= y
    <2>1. <<y, x>> \in Nat \X Nat
        OBVIOUS
    <2>2. ~(y < x)
        BY <1>2, <2>1 DEF OpToRel
    <2> QED
        BY <2>2
<1> QED
    BY <1>3

Ascending(s) == \A i, k \in DOMAIN s : i < k => s[i] < s[k]
Covers(s, S) == \A x \in S : \E i \in DOMAIN s : s[i] = x

\* A finite set of numbers can be listed in ascending order.
LEMMA AscendingExists ==
    ASSUME NEW S \in SUBSET Nat, IsFiniteSet(S)
    PROVE  \E s \in [1..Cardinality(S) -> S] : Covers(s, S) /\ Ascending(s)
<1> DEFINE Listed(T) == \E s \in [1..Cardinality(T) -> T] : Covers(s, T) /\ Ascending(s)
           Bad == {n \in Nat : \E T \in SUBSET Nat : IsFiniteSet(T) /\ Cardinality(T) = n /\ ~Listed(T)}
<1>1. SUFFICES ASSUME Bad # {} PROVE FALSE
    <2>1. Cardinality(S) \in Nat
        BY FS_CardinalityType
    <2> QED
        BY <2>1
<1>2. PICK n \in Bad : \A m \in Bad : n <= m
    <2>1. Bad \in SUBSET Nat
        OBVIOUS
    <2> HIDE DEF Bad
    <2> QED
        BY <1>1, <2>1, LeastNumber
<1>3. PICK T \in SUBSET Nat : IsFiniteSet(T) /\ Cardinality(T) = n /\ ~Listed(T)
    BY <1>2
<1>4. T # {}
    <2>1. ASSUME T = {} PROVE Listed(T)
        <3>1. Cardinality(T) = 0
            BY <2>1, FS_EmptySet
        <3>2. [i \in 1..0 |-> 0] \in [1..0 -> T] /\ Ascending([i \in 1..0 |-> 0]) /\ Covers([i \in 1..0 |-> 0], T)
            BY <2>1 DEF Ascending, Covers
        <3> QED
            BY <3>1, <3>2
    <2> QED
        BY <1>3, <2>1
<1>5. PICK x \in T : \A y \in T : x <= y
    BY <1>4, LeastNumber
<1>6. IsFiniteSet(T \ {x}) /\ Cardinality(T \ {x}) = n - 1 /\ n \in Nat /\ n # 0
    <2>1. n \in Nat /\ n # 0
        BY <1>3, <1>4, FS_EmptySet
    <2> QED
        BY <1>3, <2>1, FS_RemoveElement
<1>7. Listed(T \ {x})
    <2>1. n - 1 \in Nat /\ n - 1 \notin Bad
        BY <1>2, <1>6
    <2> QED
        BY <1>6, <2>1
<1>8. PICK s \in [1..n - 1 -> T \ {x}] : Covers(s, T \ {x}) /\ Ascending(s)
    BY <1>6, <1>7
<1> DEFINE u == [i \in 1..n |-> IF i = 1 THEN x ELSE s[i - 1]]
<1>9. u \in [1..n -> T]
    BY <1>6, <1>8
<1>10. Ascending(u)
    <2> SUFFICES ASSUME NEW i \in 1..n, NEW k \in 1..n, i < k PROVE u[i] < u[k]
        BY DEF Ascending
    <2>1. k - 1 \in 1..n - 1 /\ s[k - 1] \in T \ {x} /\ u[k] = s[k - 1]
        BY <1>6, <1>8
    <2>2. CASE i = 1
        <3>1. u[i] = x /\ x <= s[k - 1] /\ x # s[k - 1]
            BY <1>5, <2>1, <2>2
        <3>2. x \in Nat /\ s[k - 1] \in Nat
            BY <2>1
        <3> HIDE DEF u
        <3> QED
            BY <2>1, <3>1, <3>2
    <2>3. CASE i # 1
        <3>1. i - 1 \in 1..n - 1 /\ u[i] = s[i - 1] /\ i - 1 < k - 1
            BY <1>6, <2>3
        <3> QED
            BY <1>8, <2>1, <3>1 DEF Ascending
    <2> QED
        BY <2>2, <2>3
<1>11. Covers(u, T)
    <2> SUFFICES ASSUME NEW y \in T PROVE \E i \in 1..n : u[i] = y
        BY DEF Covers
    <2>1. CASE y = x
        BY <1>6, <2>1
    <2>2. CASE y # x
        <3>1. PICK i \in 1..n - 1 : s[i] = y
            BY <1>8, <2>2 DEF Covers
        <3>2. i + 1 \in 1..n /\ i + 1 # 1 /\ (i + 1) - 1 = i
            BY <1>6, <3>1
        <3> QED
            BY <3>1, <3>2
    <2> QED
        BY <2>1, <2>2
<1> QED
    BY <1>3, <1>9, <1>10, <1>11

\* The queue of a restart: the jobs it is made of, each once.
LEMMA InOrderLists ==
    ASSUME NEW S \in SUBSET Jobs
    PROVE  /\ InOrder(S) \in Seq(S) /\ InOrder(S) \in Seq(Jobs) /\ Covers(InOrder(S), S)
           /\ \A i, k \in DOMAIN InOrder(S) : InOrder(S)[i] = InOrder(S)[k] => i = k
<1> DEFINE q == InOrder(S)
           n == Cardinality(S)
<1>1. S \in SUBSET Nat /\ IsFiniteSet(S) /\ n \in Nat
    <2>1. IsFiniteSet(Jobs)
        BY SceneReviewAssumption, FS_Interval DEF Jobs
    <2>2. IsFiniteSet(S)
        BY <2>1, FS_Subset
    <2> QED
        BY <2>2, SceneReviewAssumption, FS_CardinalityType DEF Jobs
<1>2. q \in [1..n -> S] /\ Covers(q, S) /\ Ascending(q)
    <2>1. \E f \in [1..n -> S] : Covers(f, S) /\ Ascending(f)
        BY <1>1, AscendingExists
    <2> QED
        BY <2>1 DEF InOrder, Ascending, Covers
<1> HIDE DEF q
<1>3. \A i, k \in DOMAIN q : q[i] = q[k] => i = k
    <2> SUFFICES ASSUME NEW i \in 1..n, NEW k \in 1..n, q[i] = q[k] PROVE i = k
        BY <1>2
    <2>1. q[i] \in Nat /\ q[k] \in Nat
        BY <1>1, <1>2
    <2>2. ~(i < k) /\ ~(k < i)
        BY <1>1, <1>2, <2>1 DEF Ascending
    <2> QED
        BY <1>1, <2>2
<1>4. q \in Seq(S) /\ q \in Seq(Jobs)
    <2>1. q \in [1..n -> S] /\ q \in [1..n -> Jobs]
        BY <1>2
    <2> HIDE DEF n
    <2> QED
        BY <1>1, <2>1
<1> QED
    BY <1>2, <1>3, <1>4 DEF q

---------------------------------------------------------------------------
(* What the steps write *)

Row == [kind: Kinds, state: States]
TaskRow == [at: Steps, said: BOOLEAN, auto: BOOLEAN, seen: [Scenes -> Status], todo: SUBSET Scenes,
            published: BOOLEAN]

\* The rows after a step that leaves job j in state s, and the tasks after one
\* that takes its task to at.
RowsAre(j, s) ==
    /\ job' \in Seq(Row) /\ Len(job') = Len(job) /\ DOMAIN job' = Ids
    /\ \A k \in Ids : job'[k].kind = job[k].kind
    /\ \A k \in Ids \ {j} : job'[k] = job[k]
    /\ job'[j].state = s
TasksAre(j, at) ==
    /\ task' \in [Jobs -> TaskRow]
    /\ \A k \in Jobs \ {j} : task'[k] = task[k]
    /\ task'[j].at = at
Went(j, at, s) == RowsAre(j, s) /\ TasksAre(j, at)

\* A task is under way only for a job that has a row.
TasksHaveRows == \A j \in Jobs : task[j].at # "none" => j \in Ids
TypeInv == TypeOK /\ TasksHaveRows

LEMMA IdsAreJobs == ASSUME TypeInv PROVE Ids = 1..Len(job) /\ Ids \in SUBSET Jobs /\ Len(job) \in Nat
BY SceneReviewAssumption DEF TypeInv, TypeOK, Ids, Jobs

LEMMA StateSet ==
    ASSUME TypeInv, NEW j \in Ids, NEW s \in States, SetState(j, s)
    PROVE  RowsAre(j, s)
<1>1. job \in Seq(Row) /\ Ids = 1..Len(job) /\ Len(job) \in Nat
    BY IdsAreJobs DEF TypeInv, TypeOK, Row
<1>2. job' = [job EXCEPT ![j] = [job[j] EXCEPT !.state = s]]
    BY DEF SetState
<1>3. job[j] \in Row
    BY <1>1
<1> DEFINE new == [job[j] EXCEPT !.state = s]
<1>4. new \in Row /\ new.kind = job[j].kind /\ new.state = s
    BY <1>3 DEF Row
<1> HIDE DEF new
<1>5. job' \in [1..Len(job) -> Row] /\ job'[j] = new /\ \A k \in Ids \ {j} : job'[k] = job[k]
    <2>1. job \in [1..Len(job) -> Row]
        BY <1>1
    <2>2. job' = [job EXCEPT ![j] = new]
        BY <1>2 DEF new
    <2> HIDE DEF Ids
    <2> QED
        BY <1>1, <1>4, <2>1, <2>2
<1>6. job' \in Seq(Row) /\ Len(job') = Len(job) /\ DOMAIN job' = Ids
    BY <1>1, <1>5
<1> QED
    BY <1>4, <1>5, <1>6 DEF RowsAre

LEMMA RowsStay == ASSUME TypeInv, NEW j \in Ids, job' = job PROVE RowsAre(j, job[j].state)
BY DEF RowsAre, TypeInv, TypeOK, Row, Ids

LEMMA NoTaskType ==
    ASSUME NEW at \in Steps, NEW p \in BOOLEAN
    PROVE  /\ [NoTask EXCEPT !.at = at, !.published = p] \in TaskRow
           /\ [NoTask EXCEPT !.at = at, !.published = p].at = at
           /\ [NoTask EXCEPT !.published = p] \in TaskRow
           /\ [NoTask EXCEPT !.published = p].at = "none"
<1>1. [s \in Scenes |-> "none"] \in [Scenes -> Status]
    BY DEF Status
<1>2. NoTask \in TaskRow /\ NoTask.at = "none"
    BY <1>1 DEF NoTask, TaskRow, Steps
<1> QED
    BY <1>2 DEF TaskRow

LEMMA TaskSet ==
    ASSUME TypeInv, NEW j \in Jobs, NEW new \in TaskRow, task' = [task EXCEPT ![j] = new]
    PROVE  TasksAre(j, new.at)
BY DEF TypeInv, TypeOK, TaskRow, TasksAre

LEMMA TaskGoes ==
    ASSUME TypeInv, NEW j \in Jobs, NEW at \in Steps, Goes(j, at) \/ Forgets(j, at)
    PROVE  TasksAre(j, at)
<1>1. task \in [Jobs -> TaskRow] /\ task[j] \in TaskRow
    BY DEF TypeInv, TypeOK, TaskRow
<1>2. CASE Goes(j, at)
    BY <1>1, <1>2 DEF Goes, TasksAre, TaskRow
<1>3. CASE Forgets(j, at)
    <2> DEFINE new == [NoTask EXCEPT !.at = at, !.published = task[j].published]
    <2>1. new \in TaskRow /\ new.at = at
        BY <1>1, NoTaskType DEF TaskRow
    <2>2. task' = [task EXCEPT ![j] = new]
        BY <1>3, Zenon DEF Forgets
    <2> HIDE DEF new
    <2> QED
        BY <1>1, <2>1, <2>2 DEF TasksAre
<1> QED
    BY <1>2, <1>3

LEMMA JobEnds ==
    ASSUME TypeInv, NEW j \in Ids, NEW s \in States, Ends(j, s)
    PROVE  Went(j, "over", s)
<1>1. SetState(j, s) /\ Forgets(j, "over") /\ j \in Jobs
    BY IdsAreJobs DEF Ends
<1> QED
    BY <1>1, StateSet, TaskGoes DEF Went, Steps

\* Where each step takes its job and its task.
LEMMA Beginning ==
    ASSUME TypeInv, NEW j \in Jobs
    PROVE  /\ Begin(j) => /\ j \in Ids /\ task[j].at = "new"
                          /\ \/ job[j].state = "cancelled" /\ Went(j, "over", "cancelled")
                             \/ Went(j, "starting", job[j].state)
           /\ Started(j) => j \in Ids /\ task[j].at = "starting" /\ Went(j, "waiting", "processing")
           /\ Acquire(j) => j \in Ids /\ task[j].at = "waiting" /\ Went(j, "working", job[j].state)
           /\ Load(j) => j \in Ids /\ task[j].at = "working" /\ Went(j, "loaded", job[j].state)
<1>1. Ids \in SUBSET Jobs /\ task \in [Jobs -> TaskRow] /\ task[j] \in TaskRow /\ scan \in ScanStatus /\ auto \in BOOLEAN
    BY IdsAreJobs DEF TypeInv, TypeOK, TaskRow
<1>2. ASSUME Begin(j)
      PROVE  /\ j \in Ids /\ task[j].at = "new"
             /\ \/ job[j].state = "cancelled" /\ Went(j, "over", "cancelled")
                \/ Went(j, "starting", job[j].state)
    <2> DEFINE gone == job[j].state = "cancelled"
               at == IF gone THEN "over" ELSE "starting"
               said == ~gone /\ scan = "scanning"
               new == [task[j] EXCEPT !.at = at, !.said = said]
    <2>1. j \in Ids /\ task[j].at = "new" /\ job' = job
        BY <1>2 DEF Begin, At
    <2>2. task' = [task EXCEPT ![j].at = at, ![j].said = said]
        BY <1>2, Zenon DEF Begin
    <2>3. at \in Steps /\ said \in BOOLEAN
        BY DEF Steps
    <2> HIDE DEF at, said
    <2>4. task' = [task EXCEPT ![j] = new]
        BY <1>1, <2>2
    <2>5. new \in TaskRow /\ new.at = at
        BY <1>1, <2>3 DEF TaskRow
    <2> HIDE DEF new
    <2>6. TasksAre(j, at)
        BY <2>4, <2>5, TaskSet
    <2> QED
        BY <2>1, <2>6, RowsStay DEF Went, at
<1>3. ASSUME Started(j) PROVE j \in Ids /\ task[j].at = "starting" /\ Went(j, "waiting", "processing")
    <2> DEFINE new == [task[j] EXCEPT !.at = "waiting", !.said = FALSE]
    <2>1. j \in Ids /\ task[j].at = "starting" /\ SetState(j, "processing")
        BY <1>3 DEF Started, At
    <2>2. task' = [task EXCEPT ![j] = new]
        BY <1>1, <1>3 DEF Started
    <2>3. new \in TaskRow /\ new.at = "waiting"
        BY <1>1 DEF TaskRow, Steps
    <2> HIDE DEF new
    <2> QED
        BY <2>1, <2>2, <2>3, TaskSet, StateSet DEF Went, States
<1>4. ASSUME Acquire(j) PROVE j \in Ids /\ task[j].at = "waiting" /\ Went(j, "working", job[j].state)
    <2> DEFINE on == Kind(j) = "scan" /\ auto
               new == [task[j] EXCEPT !.at = "working", !.auto = on]
    <2>1. j \in Ids /\ task[j].at = "waiting" /\ job' = job
        BY <1>4 DEF Acquire, At
    <2>2. task' = [task EXCEPT ![j].at = "working", ![j].auto = on]
        BY <1>4, Zenon DEF Acquire
    <2>3. on \in BOOLEAN
        BY <1>1
    <2> HIDE DEF on
    <2>4. task' = [task EXCEPT ![j] = new]
        BY <1>1, <2>2
    <2>5. new \in TaskRow /\ new.at = "working"
        BY <1>1, <2>3 DEF TaskRow, Steps
    <2> HIDE DEF new
    <2> QED
        BY <2>1, <2>4, <2>5, TaskSet, RowsStay DEF Went
<1>5. ASSUME Load(j) PROVE j \in Ids /\ task[j].at = "working" /\ Went(j, "loaded", job[j].state)
    <2>1. j \in Ids /\ task[j].at = "working" /\ job' = job
        BY <1>5 DEF Load, At
    <2> DEFINE seen == [s \in Scenes |-> scene[s].status]
               todo == IF Kind(j) = "claude_verify" THEN WithStatus({"pending", "approved"}) ELSE {}
    <2>2. seen \in [Scenes -> Status] /\ todo \in SUBSET Scenes
        BY DEF TypeInv, TypeOK, WithStatus
    <2>3. task' = [task EXCEPT ![j] = [task[j] EXCEPT !.at = "loaded", !.seen = seen, !.todo = todo]]
        BY <1>5 DEF Load
    <2> HIDE DEF seen, todo
    <2> DEFINE new == [task[j] EXCEPT !.at = "loaded", !.seen = seen, !.todo = todo]
    <2>4. new \in TaskRow /\ new.at = "loaded"
        BY <1>1, <2>2 DEF TaskRow, Steps
    <2> HIDE DEF new
    <2>5. TasksAre(j, "loaded")
        BY <2>3, <2>4, TaskSet DEF new
    <2> QED
        BY <2>1, <2>5, RowsStay DEF Went
<1> QED
    BY <1>2, <1>3, <1>4, <1>5

LEMMA Scanning ==
    ASSUME TypeInv, NEW j \in Jobs
    PROVE  /\ ScanStore(j) => /\ j \in Ids /\ task[j].at = "loaded" /\ Kind(j) = "scan"
                              /\ Went(j, "stored", job[j].state)
           /\ ScanReport(j) => /\ j \in Ids /\ task[j].at = "stored"
                               /\ \/ Chains /\ Went(j, "chaining", job[j].state)
                                  \/ ~Chains /\ Went(j, "over", "done")
           /\ ChainCheck(j) => /\ j \in Ids /\ task[j].at = "chaining"
                               /\ \/ Went(j, "enqueuing", job[j].state)
                                  \/ ~NoneActive("blur") /\ Went(j, "finishing", job[j].state)
           /\ ChainEnqueues(j) => j \in Ids /\ task[j].at = "enqueuing" /\ TasksAre(j, "finishing")
           /\ ScanDone(j) => j \in Ids /\ task[j].at = "finishing" /\ Went(j, "over", "done")
<1>1. ASSUME ScanStore(j)
      PROVE  j \in Ids /\ task[j].at = "loaded" /\ Kind(j) = "scan" /\ Went(j, "stored", job[j].state)
    <2>1. j \in Ids /\ task[j].at = "loaded" /\ Kind(j) = "scan" /\ Forgets(j, "stored") /\ job' = job
        BY <1>1 DEF ScanStore, At
    <2> QED
        BY <2>1, RowsStay, TaskGoes DEF Went, Steps
<1>2. ASSUME ScanReport(j)
      PROVE  /\ j \in Ids /\ task[j].at = "stored"
             /\ \/ Chains /\ Went(j, "chaining", job[j].state)
                \/ ~Chains /\ Went(j, "over", "done")
    <2>1. j \in Ids /\ task[j].at = "stored"
        BY <1>2 DEF ScanReport, At
    <2>2. CASE Chains
        <3>1. Goes(j, "chaining") /\ job' = job
            BY <1>2, <2>2 DEF ScanReport
        <3> QED
            BY <2>1, <2>2, <3>1, RowsStay, TaskGoes DEF Went, Steps
    <2>3. CASE ~Chains
        <3>1. Ends(j, "done")
            BY <1>2, <2>3 DEF ScanReport
        <3> QED
            BY <2>1, <2>3, <3>1, JobEnds DEF States
    <2> QED
        BY <2>1, <2>2, <2>3
<1>3. ASSUME ChainCheck(j)
      PROVE  /\ j \in Ids /\ task[j].at = "chaining"
             /\ \/ Went(j, "enqueuing", job[j].state)
                \/ ~NoneActive("blur") /\ Went(j, "finishing", job[j].state)
    <2>1. /\ j \in Ids /\ task[j].at = "chaining" /\ job' = job
          /\ Goes(j, "enqueuing") \/ (~NoneActive("blur") /\ Goes(j, "finishing"))
        BY <1>3 DEF ChainCheck, At
    <2> QED
        BY <2>1, RowsStay, TaskGoes DEF Went, Steps
<1>4. ASSUME ChainEnqueues(j)
      PROVE  j \in Ids /\ task[j].at = "enqueuing" /\ TasksAre(j, "finishing")
    <2>1. j \in Ids /\ task[j].at = "enqueuing" /\ Goes(j, "finishing")
        BY <1>4 DEF ChainEnqueues, At
    <2> QED
        BY <2>1, TaskGoes DEF Steps
<1>5. ASSUME ScanDone(j)
      PROVE  j \in Ids /\ task[j].at = "finishing" /\ Went(j, "over", "done")
    <2>1. j \in Ids /\ task[j].at = "finishing" /\ Ends(j, "done")
        BY <1>5 DEF ScanDone, At
    <2> QED
        BY <2>1, JobEnds DEF States
<1> QED
    BY <1>1, <1>2, <1>3, <1>4, <1>5

LEMMA Blurring ==
    ASSUME TypeInv, NEW j \in Jobs
    PROVE  /\ BlurPublish(j) => /\ j \in Ids /\ task[j].at = "loaded" /\ Kind(j) = "blur"
                                /\ Went(j, "published", job[j].state)
           /\ BlurRecord(j) => j \in Ids /\ task[j].at = "published" /\ Went(j, "over", "done")
           /\ ClaudeVerdict(j) => /\ j \in Ids /\ task[j].at = "loaded" /\ Kind(j) = "claude_verify"
                                  /\ Went(j, "loaded", job[j].state)
           /\ ClaudeDone(j) => /\ j \in Ids /\ task[j].at = "loaded" /\ Kind(j) = "claude_verify"
                               /\ Went(j, "over", "done")
<1> DEFINE old == task[j]
<1>0. task \in [Jobs -> TaskRow] /\ old \in TaskRow
    BY DEF TypeInv, TypeOK, TaskRow
<1>1. ASSUME BlurPublish(j)
      PROVE  /\ j \in Ids /\ task[j].at = "loaded" /\ Kind(j) = "blur"
             /\ Went(j, "published", job[j].state)
    <2>1. /\ j \in Ids /\ task[j].at = "loaded" /\ Kind(j) = "blur" /\ job' = job
          /\ task' = [task EXCEPT ![j] = [old EXCEPT !.at = "published", !.published = TRUE]]
        BY <1>1 DEF BlurPublish, At
    <2>2. TasksAre(j, "published")
        BY <1>0, <2>1 DEF TasksAre, TaskRow, Steps
    <2> QED
        BY <2>1, <2>2, RowsStay DEF Went
<1>2. ASSUME BlurRecord(j)
      PROVE  j \in Ids /\ task[j].at = "published" /\ Went(j, "over", "done")
    <2>1. j \in Ids /\ task[j].at = "published" /\ Ends(j, "done")
        BY <1>2 DEF BlurRecord, At
    <2> QED
        BY <2>1, JobEnds DEF States
<1>3. ASSUME ClaudeVerdict(j)
      PROVE  /\ j \in Ids /\ task[j].at = "loaded" /\ Kind(j) = "claude_verify"
             /\ Went(j, "loaded", job[j].state)
    <2>1. PICK s \in old.todo : task' = [task EXCEPT ![j].todo = @ \ {s}]
        BY <1>3 DEF ClaudeVerdict
    <2>2. task' = [task EXCEPT ![j] = [old EXCEPT !.todo = old.todo \ {s}]]
        BY <2>1
    <2>3. j \in Ids /\ task[j].at = "loaded" /\ Kind(j) = "claude_verify" /\ job' = job
        BY <1>3 DEF ClaudeVerdict, At
    <2>4. TasksAre(j, "loaded")
        BY <1>0, <2>2, <2>3 DEF TasksAre, TaskRow
    <2> QED
        BY <2>3, <2>4, RowsStay DEF Went
<1>4. ASSUME ClaudeDone(j)
      PROVE  /\ j \in Ids /\ task[j].at = "loaded" /\ Kind(j) = "claude_verify"
             /\ Went(j, "over", "done")
    <2>1. j \in Ids /\ task[j].at = "loaded" /\ Kind(j) = "claude_verify" /\ Ends(j, "done")
        BY <1>4 DEF ClaudeDone, At
    <2> QED
        BY <2>1, JobEnds DEF States
<1> QED
    BY <1>1, <1>2, <1>3, <1>4

LEMMA Ending ==
    ASSUME TypeInv, NEW j \in Jobs
    PROVE  /\ Fail(j) => j \in Ids /\ task[j].at \notin {"none", "over"} /\ Went(j, "over", "failed")
           /\ Cancel(j) /\ task[j].at # "none" =>
                \/ j \in Ids /\ task[j].at = "over" /\ UNCHANGED <<job, scan, scene, task, lock>>
                \/ /\ j \in Ids /\ task[j].at \notin {"none", "over"} /\ Went(j, "over", "cancelled")
                   /\ Ends(j, "cancelled") /\ scan' = IF Kind(j) = "scan" THEN "not_scanned" ELSE scan
           /\ Lose(j) => j \in Ids /\ task[j].at \notin {"none", "over"} /\ Went(j, "over", job[j].state)
<1>1. ASSUME Fail(j)
      PROVE  j \in Ids /\ task[j].at \notin {"none", "over"} /\ Went(j, "over", "failed")
    <2>1. task[j].at \notin {"none", "over"} /\ Ends(j, "failed")
        BY <1>1 DEF Fail
    <2>2. j \in Ids
        BY <2>1 DEF TypeInv, TasksHaveRows
    <2> QED
        BY <2>1, <2>2, JobEnds DEF States
<1>2. ASSUME Cancel(j), task[j].at # "none"
      PROVE  \/ j \in Ids /\ task[j].at = "over" /\ UNCHANGED <<job, scan, scene, task, lock>>
             \/ /\ j \in Ids /\ task[j].at \notin {"none", "over"} /\ Went(j, "over", "cancelled")
                /\ Ends(j, "cancelled") /\ scan' = IF Kind(j) = "scan" THEN "not_scanned" ELSE scan
    <2>1. j \in Ids
        BY <1>2 DEF TypeInv, TasksHaveRows
    <2>2. Ends(j, "cancelled") => Went(j, "over", "cancelled")
        BY <2>1, JobEnds DEF States
    <2> QED
        BY <1>2, <2>1, <2>2 DEF Cancel, Handled
<1>3. ASSUME Lose(j)
      PROVE  j \in Ids /\ task[j].at \notin {"none", "over"} /\ Went(j, "over", job[j].state)
    <2>1. j \in Ids /\ task[j].at \notin {"none", "over"} /\ Forgets(j, "over") /\ job' = job
        BY <1>3 DEF Lose, Running
    <2> QED
        BY <2>1, RowsStay, TaskGoes DEF Went, Steps
<1> QED
    BY <1>1, <1>2, <1>3

\* A request writes the row of the job it cancels.
LEMMA Cancelling ==
    ASSUME TypeInv, NEW h \in Handlers, CancelQueued(h), handler[h].job \in Ids
    PROVE  /\ RowsAre(handler[h].job, "cancelled") /\ task' = task
           /\ scan' = IF Kind(handler[h].job) = "scan" THEN "not_scanned" ELSE scan
BY StateSet DEF CancelQueued, States

\* A new row after the rows of old.
RowsGrow(old, k) ==
    /\ job' \in Seq(Row) /\ Len(job) + 1 \in Jobs /\ Len(job) + 1 \notin Ids
    /\ Len(job') = Len(job) + 1 /\ Len(job) + 1 <= MaxJobs
    /\ DOMAIN job' = Ids \cup {Len(job) + 1}
    /\ job'[Len(job) + 1].kind = k /\ job'[Len(job) + 1].state = "queued"
    /\ \A i \in Ids : job'[i] = old[i]

LEMMA RowAdded ==
    ASSUME TypeInv, NEW k \in Kinds, NEW old \in Seq(Row), Len(old) = Len(job), Len(job) < MaxJobs,
           job' = Append(old, NewJob(k))
    PROVE  RowsGrow(old, k)
<1> DEFINE r == NewJob(k)
           n == Len(job) + 1
<1>1. Ids = 1..Len(job) /\ Len(job) \in Nat
    BY IdsAreJobs
<1>2. r \in Row /\ r.kind = k /\ r.state = "queued"
    BY DEF Row, States, NewJob
<1>3. n \in Jobs /\ n \notin Ids /\ n <= MaxJobs
    BY <1>1, SceneReviewAssumption DEF Jobs
<1> HIDE DEF r
<1>4. /\ job' \in Seq(Row) /\ Len(job') = n /\ DOMAIN job' = 1..n /\ job'[n] = r
      /\ \A i \in 1..Len(job) : job'[i] = old[i]
    BY <1>1, <1>2 DEF r
<1>5. DOMAIN job' = Ids \cup {n}
    BY <1>1, <1>4
<1> QED
    BY <1>1, <1>2, <1>3, <1>4, <1>5 DEF RowsGrow

LEMMA RowInserted ==
    ASSUME TypeInv, NEW k \in Kinds, Inserted(k)
    PROVE  RowsGrow(job, k) /\ scan' \in {"queued", scan} /\ (k # "scan" => scan' = scan)
<1>1. job \in Seq(Row) /\ Len(job) < MaxJobs /\ job' = Append(job, NewJob(k))
    BY DEF TypeInv, TypeOK, Row, Inserted
<1>2. RowsGrow(job, k)
    BY <1>1, RowAdded
<1> QED
    BY <1>2 DEF Inserted

\* A new job gets the next row, and its number the last place in the queue.
LEMMA RowAppended ==
    ASSUME TypeInv, NEW k \in Kinds, Enqueued(k)
    PROVE  /\ RowsGrow(job, k) /\ scan' \in {"queued", scan} /\ (k # "scan" => scan' = scan)
           /\ pending' = Append(pending, Len(job) + 1) /\ pending' \in Seq(Jobs)
<1> DEFINE n == Len(job) + 1
<1>1. RowsGrow(job, k) /\ scan' \in {"queued", scan} /\ (k # "scan" => scan' = scan)
    BY RowInserted DEF Enqueued
<1>2. pending \in Seq(Jobs) /\ pending' = Append(pending, n) /\ n \in Jobs
    BY <1>1 DEF Enqueued, RowsGrow, TypeInv, TypeOK
<1>3. pending' \in Seq(Jobs)
    <2> HIDE DEF n
    <2> QED
        BY <1>2
<1> QED
    BY <1>1, <1>2, <1>3

\* A scan ends, and the blur it was about to queue has a row.
LEMMA Stranding ==
    ASSUME TypeInv, NEW j \in Jobs, ChainStrands(j)
    PROVE  /\ j \in Ids /\ task[j].at = "enqueuing" /\ TasksAre(j, "over")
           /\ \E s \in {"failed", "cancelled"}, old \in Seq(Row) :
                /\ RowsGrow(old, "blur")
                /\ \A i \in Ids : old[i].kind = job[i].kind
                /\ \A i \in Ids \ {j} : old[i] = job[i]
                /\ old[j].state = s
           /\ scan' \in {"scan_failed", "not_scanned"}
<1>1. j \in Ids /\ task[j].at = "enqueuing" /\ Forgets(j, "over") /\ Len(job) < MaxJobs
    BY DEF ChainStrands, At
<1>2. PICK s \in {"failed", "cancelled"} :
        job' = Append([job EXCEPT ![j].state = s], NewJob("blur"))
    BY DEF ChainStrands
<1> DEFINE old == [job EXCEPT ![j].state = s]
           row == [job[j] EXCEPT !.state = s]
<1>3. job \in Seq(Row) /\ Ids = 1..Len(job) /\ Len(job) \in Nat
    BY IdsAreJobs DEF TypeInv, TypeOK, Row
<1>4. row \in Row /\ row.kind = job[j].kind /\ row.state = s
    <2>1. job[j] \in Row /\ s \in States
        BY <1>1, <1>3 DEF States
    <2> QED
        BY <2>1 DEF Row
<1>5. old = [job EXCEPT ![j] = row]
    BY <1>3
<1> HIDE DEF row, old
<1>6. old \in [1..Len(job) -> Row] /\ old[j] = row /\ \A i \in Ids \ {j} : old[i] = job[i]
    <2>1. job \in [1..Len(job) -> Row]
        BY <1>3
    <2> HIDE DEF Ids
    <2> QED
        BY <1>1, <1>3, <1>4, <1>5, <2>1
<1>7. old \in Seq(Row) /\ Len(old) = Len(job)
    BY <1>3, <1>6
<1>8. RowsGrow(old, "blur")
    <2>1. job' = Append(old, NewJob("blur"))
        BY <1>2 DEF old
    <2> QED
        BY <1>1, <1>7, <2>1, RowAdded DEF Kinds
<1>9. TasksAre(j, "over")
    BY <1>1, TaskGoes DEF Steps
<1>10. scan' \in {"scan_failed", "not_scanned"}
    BY DEF ChainStrands
<1> QED
    BY <1>1, <1>4, <1>6, <1>7, <1>8, <1>9, <1>10

\* A task is started for the head of the queue.
LEMMA Dispatching ==
    ASSUME TypeInv, Dispatch
    PROVE  \E j \in Jobs : /\ j = Head(pending) /\ 1 \in DOMAIN pending /\ pending[1] = j
                           /\ TasksAre(j, "new")
                           /\ pending' = Tail(pending) /\ pending' \in Seq(Jobs)
<1>1. pending \in Seq(Jobs) /\ pending # <<>> /\ pending' = Tail(pending)
    BY DEF Dispatch, TypeInv, TypeOK
<1>2. PICK j \in Jobs : j = Head(pending) /\ 1 \in DOMAIN pending /\ pending[1] = j
    BY <1>1
<1>3. Goes(j, "new")
    BY <1>2 DEF Dispatch
<1>4. TasksAre(j, "new")
    BY <1>3, TaskGoes DEF Steps
<1> QED
    BY <1>1, <1>2, <1>4

\* A crash leaves no task, a restart queues what was not finished.
LEMMA Crashing ==
    ASSUME TypeInv, Crash
    PROVE  task' \in [Jobs -> TaskRow] /\ \A j \in Jobs : task'[j].at = "none"
<1>1. \A j \in Jobs : task[j].published \in BOOLEAN
    BY DEF TypeInv, TypeOK
<1>2. task' = [j \in Jobs |-> [NoTask EXCEPT !.published = task[j].published]]
    BY DEF Crash
<1>3. \A j \in Jobs : /\ [NoTask EXCEPT !.published = task[j].published] \in TaskRow
                      /\ [NoTask EXCEPT !.published = task[j].published].at = "none"
    BY <1>1, NoTaskType DEF Steps
<1> QED
    BY <1>2, <1>3, Zenon

LEMMA Starting ==
    ASSUME TypeInv, Start
    PROVE  /\ job' \in Seq(Row) /\ Len(job') = Len(job) /\ DOMAIN job' = Ids
           /\ \A k \in Ids : /\ job'[k].kind = job[k].kind
                             /\ job'[k].state = IF Active(k) THEN "queued" ELSE job[k].state
           /\ pending' \in Seq(Jobs) /\ pending' \in Seq(Requeued) /\ Covers(pending', Requeued)
           /\ \A i, k \in DOMAIN pending' : pending'[i] = pending'[k] => i = k
<1>1. job \in Seq(Row) /\ Ids = 1..Len(job) /\ Len(job) \in Nat /\ Requeued \in SUBSET Jobs
    BY IdsAreJobs DEF TypeInv, TypeOK, Row, Requeued
<1> DEFINE new(k) == IF k \in Requeued THEN [job[k] EXCEPT !.state = "queued"] ELSE job[k]
<1>2. \A k \in Ids : /\ new(k) \in Row /\ new(k).kind = job[k].kind
                     /\ new(k).state = IF Active(k) THEN "queued" ELSE job[k].state
    <2> TAKE k \in Ids
    <2>1. job[k] \in Row
        BY <1>1
    <2> QED
        BY <2>1 DEF Row, States, Requeued
<1>3. job' = [k \in Ids |-> new(k)]
    BY DEF Start
<1> HIDE DEF new
<1>4. job' \in Seq(Row) /\ Len(job') = Len(job) /\ DOMAIN job' = Ids /\ \A k \in Ids : job'[k] = new(k)
    BY <1>1, <1>2, <1>3
<1>5. pending' = InOrder(Requeued)
    BY DEF Start
<1>6. /\ pending' \in Seq(Jobs) /\ pending' \in Seq(Requeued) /\ Covers(pending', Requeued)
      /\ \A i, k \in DOMAIN pending' : pending'[i] = pending'[k] => i = k
    BY <1>1, <1>5, InOrderLists
<1> QED
    BY <1>2, <1>4, <1>6

---------------------------------------------------------------------------
(* The scenes *)

SceneRow == [status: Status, applied: BOOLEAN, by: 0..MaxJobs]

\* No scene is newly one that a scan approved.
NoneNewlyBy ==
    \A s \in Scenes : scene'[s].by # 0 =>
        scene'[s].by = scene[s].by /\ scene[s].status \in {"none", scene'[s].status}

LEMMA NoSceneType == NoScene \in SceneRow /\ NoScene.by = 0 /\ NoScene.status = "none"
BY SceneReviewAssumption DEF NoScene, SceneRow, Status

LEMMA OneScene ==
    ASSUME TypeInv, NEW s \in Scenes, NEW status \in Status,
           \/ scene' = [scene EXCEPT ![s].status = status, ![s].by = 0]
           \/ scene' = [scene EXCEPT ![s].status = status] /\ scene[s].status = "none"
           \/ scene' = scene
    PROVE  scene' \in [Scenes -> SceneRow] /\ NoneNewlyBy
<1>1. scene \in [Scenes -> SceneRow]
    BY DEF TypeInv, TypeOK, SceneRow
<1>2. CASE scene' = [scene EXCEPT ![s].status = status, ![s].by = 0]
    <2> DEFINE old == scene[s]
               new == [old EXCEPT !.status = status, !.by = 0]
    <2>1. scene' = [scene EXCEPT ![s] = new]
        BY <1>1, <1>2
    <2>2. old \in SceneRow /\ 0 \in 0..MaxJobs
        BY <1>1, SceneReviewAssumption
    <2> HIDE DEF old
    <2>3. new \in SceneRow /\ new.by = 0
        BY <2>2 DEF SceneRow
    <2> HIDE DEF new
    <2> QED
        BY <1>1, <2>1, <2>3 DEF NoneNewlyBy
<1>3. CASE scene' = [scene EXCEPT ![s].status = status] /\ scene[s].status = "none"
    BY <1>1, <1>3 DEF SceneRow, NoneNewlyBy
<1>4. CASE scene' = scene
    BY <1>1, <1>4 DEF NoneNewlyBy
<1> QED
    BY <1>2, <1>3, <1>4

LEMMA AppliedScenes ==
    ASSUME TypeInv, NEW j \in Jobs, scene' \in {scene, MarkApplied(j), ClearStale(MarkApplied(j))}
    PROVE  scene' \in [Scenes -> SceneRow] /\ NoneNewlyBy
<1>1. scene \in [Scenes -> SceneRow]
    BY DEF TypeInv, TypeOK, SceneRow
<1> DEFINE all == MarkApplied(j)
<1>2. /\ all \in [Scenes -> SceneRow]
      /\ \A s \in Scenes : all[s].by = scene[s].by /\ all[s].status = scene[s].status
    BY <1>1 DEF MarkApplied, SceneRow
<1> HIDE DEF all
<1>3. CASE scene' = all
    BY <1>2, <1>3 DEF NoneNewlyBy
<1>4. CASE scene' = ClearStale(all)
    <2> DEFINE b(s) == all[s].applied /\ all[s].status = "approved"
    <2>1. scene' = [s \in Scenes |-> [all[s] EXCEPT !.applied = b(s)]] /\ \A s \in Scenes : b(s) \in BOOLEAN
        BY <1>4, Zenon DEF ClearStale
    <2> HIDE DEF b
    <2>2. /\ scene' \in [Scenes -> SceneRow]
          /\ \A s \in Scenes : scene'[s].by = all[s].by /\ scene'[s].status = all[s].status
        BY <1>2, <2>1 DEF SceneRow
    <2> QED
        BY <1>2, <2>2 DEF NoneNewlyBy
<1>5. CASE scene' = scene
    BY <1>1, <1>5 DEF NoneNewlyBy
<1> QED
    BY <1>3, <1>4, <1>5 DEF all

\* What a scan that finds the setting off, or nothing, forgets.
LEMMA ReportedScenes ==
    ASSUME TypeInv, NEW j \in Jobs, ScanReport(j)
    PROVE  /\ scene' \in [Scenes -> SceneRow] /\ NoneNewlyBy
           /\ ~auto => \A s \in Scenes : scene'[s].by # j
<1>1. scene \in [Scenes -> SceneRow] /\ j # 0
    BY DEF TypeInv, TypeOK, SceneRow, Jobs
<1>2. CASE auto
    BY <1>1, <1>2 DEF ScanReport, NoneNewlyBy
<1>3. CASE ~auto
    <2> DEFINE b(s) == IF scene[s].by = j THEN 0 ELSE scene[s].by
    <2>1. scene' = [s \in Scenes |-> [scene[s] EXCEPT !.by = b(s)]]
        BY <1>3, Zenon DEF ScanReport
    <2>2. \A s \in Scenes : b(s) \in 0..MaxJobs /\ b(s) # j /\ (b(s) # 0 => b(s) = scene[s].by)
        BY <1>1, SceneReviewAssumption DEF SceneRow
    <2> HIDE DEF b
    <2>3. /\ scene' \in [Scenes -> SceneRow]
          /\ \A s \in Scenes : scene'[s].by = b(s) /\ scene'[s].status = scene[s].status
        BY <1>1, <2>1, <2>2 DEF SceneRow
    <2> QED
        BY <2>2, <2>3 DEF NoneNewlyBy
<1> QED
    BY <1>2, <1>3

\* A scan approves scenes in its own name, and only when it found some.
LEMMA StoredScenes ==
    ASSUME TypeInv, NEW j \in Jobs, ScanStore(j)
    PROVE  /\ scene' \in [Scenes -> SceneRow]
           /\ \A s \in Scenes : scene'[s].by # 0 =>
                \/ scene'[s] = scene[s]
                \/ scene'[s].status = "approved" /\ scene'[s].by = j /\ hits > 0
<1>1. scene \in [Scenes -> SceneRow] /\ hits \in Nat /\ j \in 0..MaxJobs
    BY SceneReviewAssumption DEF TypeInv, TypeOK, SceneRow, Jobs
<1>2. PICK found \in SUBSET (Dropped(j) \cup WithStatus({"none"})), verdict \in Verdicts :
        /\ Cardinality(found) = hits
        /\ scene' = [s \in Scenes |->
                        IF s \in found
                        THEN [NoScene EXCEPT !.status = FreshStatus(j, verdict),
                                             !.by = IF FreshStatus(j, verdict) = "approved" THEN j ELSE 0]
                        ELSE IF s \in Dropped(j) THEN NoScene ELSE scene[s]]
    BY Zenon DEF ScanStore
<1> DEFINE fresh == FreshStatus(j, verdict)
           by == IF fresh = "approved" THEN j ELSE 0
           new == [NoScene EXCEPT !.status = fresh, !.by = by]
<1>3. fresh \in {"approved", "rejected", "pending"}
    BY DEF FreshStatus
<1>4. scene' = [s \in Scenes |-> IF s \in found THEN new ELSE IF s \in Dropped(j) THEN NoScene ELSE scene[s]]
    BY <1>2
<1>5. by \in 0..MaxJobs /\ (by # 0 => by = j /\ fresh = "approved")
    BY <1>1, SceneReviewAssumption
<1> HIDE DEF fresh, by
<1>6. new \in SceneRow /\ new.status = fresh /\ new.by = by
    BY <1>3, <1>5, NoSceneType DEF SceneRow, Status
<1> HIDE DEF new
<1>7. \A s \in found : hits > 0
    <2>1. found \in SUBSET Scenes
        BY <1>2 DEF Dropped, Seen, WithStatus
    <2>2. IsFiniteSet(found)
        BY <2>1, SceneReviewAssumption, FS_Subset
    <2>3. ASSUME NEW s \in found PROVE hits # 0
        BY <1>2, <2>2, <2>3, FS_EmptySet
    <2> QED
        BY <1>1, <2>3
<1> QED
    BY <1>1, <1>3, <1>4, <1>5, <1>6, <1>7, NoSceneType

---------------------------------------------------------------------------
(* The type invariant *)

HandlerRow == [does: Kinds \cup {"idle", "cancel"}, job: 0..MaxJobs]

LEMMA HandlerSet ==
    ASSUME TypeInv, NEW h \in Handlers
    PROVE  /\ Replies(h) => handler' \in [Handlers -> HandlerRow] /\ handler'[h] = Idle
           /\ \A k \in Kinds \cup {"cancel"}, j \in 0..MaxJobs : Awaits(h, k, j) =>
                handler' \in [Handlers -> HandlerRow] /\ handler'[h] = [does |-> k, job |-> j]
           /\ \A k, j : Replies(h) \/ Awaits(h, k, j) => \A g \in Handlers \ {h} : handler'[g] = handler[g]
<1>1. handler \in [Handlers -> HandlerRow] /\ Idle \in HandlerRow
    BY SceneReviewAssumption DEF TypeInv, TypeOK, HandlerRow, Idle
<1>2. \A k \in Kinds \cup {"cancel"}, j \in 0..MaxJobs : [does |-> k, job |-> j] \in HandlerRow
    BY DEF HandlerRow
<1> QED
    BY <1>1, <1>2 DEF Replies, Awaits

LEMMA InitType == Init => TypeInv
<1> SUFFICES ASSUME Init PROVE TypeInv
    OBVIOUS
<1>1. NoTask \in TaskRow /\ NoTask.at = "none"
    <2>1. [s \in Scenes |-> "none"] \in [Scenes -> Status]
        BY DEF Status
    <2> QED
        BY <2>1 DEF NoTask, TaskRow, Steps
<1>2. task \in [Jobs -> TaskRow] /\ \A j \in Jobs : task[j].at = "none"
    BY <1>1 DEF Init
<1>3. scene \in [Scenes -> SceneRow]
    BY NoSceneType DEF Init
<1>4. job \in Seq([kind: Kinds, state: States]) /\ Len(job) <= MaxJobs /\ pending \in Seq(Jobs)
    BY SceneReviewAssumption DEF Init
<1>5. Idle \in HandlerRow
    BY SceneReviewAssumption DEF Idle, HandlerRow
<1> QED
    BY <1>2, <1>3, <1>4, <1>5, SceneReviewAssumption
    DEF Init, TypeInv, TypeOK, TasksHaveRows, TaskRow, SceneRow, HandlerRow, ScanStatus

\* The types of rows and tasks after a step of one job's task.
LEMMA WentTypes ==
    ASSUME TypeInv, NEW j \in Ids, NEW at, NEW s, Went(j, at, s)
    PROVE  /\ job' \in Seq([kind: Kinds, state: States]) /\ Len(job') <= MaxJobs
           /\ task' \in [Jobs -> TaskRow] /\ TasksHaveRows'
BY DEF TypeInv, TypeOK, Went, RowsAre, TasksAre, Row, TasksHaveRows, Ids

\* Every step keeps the types.
LEMMA NextKeepsType ==
    ASSUME TypeInv, \A j \in asked : task[j].at # "none", \A i \in DOMAIN pending : pending[i] \in Ids,
           \A h \in Handlers : handler[h].does = "cancel" => handler[h].job \in Ids, [Next]_vars
    PROVE  TypeInv'
<1> USE DEF settings, server
<1>1. /\ Ids \in SUBSET Jobs /\ task \in [Jobs -> TaskRow] /\ scene \in [Scenes -> SceneRow]
      /\ TypeOK /\ TasksHaveRows /\ asked \in SUBSET Jobs /\ lost \in SUBSET Jobs
      /\ handler \in [Handlers -> HandlerRow] /\ hits \in Nat /\ auto \in BOOLEAN
    BY IdsAreJobs DEF TypeInv, TypeOK, TaskRow, SceneRow, HandlerRow
<1>2. ASSUME NEW j \in Ids, NEW at, NEW s, Went(j, at, s), scan' \in ScanStatus,
             scene' \in [Scenes -> SceneRow], edit' \subseteq Scenes, UNCHANGED <<settings, pending, handler, server>>,
             lock' \in {lock, j, Free}, asked' \in SUBSET asked, lost' \in {lost, lost \cup {j}}
      PROVE  TypeInv'
    <2>1. /\ job' \in Seq([kind: Kinds, state: States]) /\ Len(job') <= MaxJobs
          /\ task' \in [Jobs -> TaskRow] /\ TasksHaveRows'
        BY <1>2, WentTypes
    <2>2. lock' \in Jobs \cup {Free} /\ asked' \subseteq Jobs /\ lost' \subseteq Jobs
        BY <1>1, <1>2 DEF TypeOK
    <2> QED
        BY <1>1, <1>2, <2>1, <2>2 DEF TypeInv, TypeOK, TaskRow, SceneRow
<1>3. ASSUME NEW j \in Jobs, NEW s, Ends(j, s) PROVE lock' \in {lock, Free} /\ asked' \in SUBSET asked
    BY <1>3 DEF Ends, LeaveLock
<1>4. ASSUME NEW j \in Jobs, Begin(j) \/ Started(j) PROVE TypeInv'
    <2>1. /\ j \in Ids /\ \E at, s : Went(j, at, s)
        BY <1>4, Beginning
    <2>2. /\ scan' \in ScanStatus /\ UNCHANGED <<scene, edit, settings, pending, lock, handler, asked, server, lost>>
        BY <1>1, <1>4 DEF Begin, Started, TypeOK, ScanStatus
    <2> QED
        BY <1>1, <1>2, <2>1, <2>2 DEF TypeOK
<1>5. ASSUME NEW j \in Jobs, Acquire(j) \/ Load(j) PROVE TypeInv'
    <2>1. /\ j \in Ids /\ \E at, s : Went(j, at, s)
        BY <1>5, Beginning
    <2>2. /\ UNCHANGED <<scan, scene, edit, settings, pending, handler, asked, server, lost>>
          /\ lock' \in {lock, j}
        BY <1>5 DEF Acquire, Load
    <2> QED
        BY <1>1, <1>2, <2>1, <2>2 DEF TypeOK
<1>6. ASSUME NEW j \in Jobs, ScanStore(j) PROVE TypeInv'
    <2>1. j \in Ids /\ \E at, s : Went(j, at, s)
        BY <1>6, Scanning
    <2>2. UNCHANGED <<scan, edit, settings, pending, handler, asked, server, lost>> /\ lock' \in {lock, Free}
        BY <1>6 DEF ScanStore, LeaveLock
    <2>3. scene' \in [Scenes -> SceneRow]
        BY <1>6, StoredScenes
    <2> QED
        BY <1>1, <1>2, <2>1, <2>2, <2>3 DEF TypeOK
<1>7. ASSUME NEW j \in Jobs, ScanReport(j) \/ ChainCheck(j) \/ ScanDone(j) PROVE TypeInv'
    <2>1. j \in Ids /\ \E at, s : Went(j, at, s)
        BY <1>7, Scanning
    <2>2. UNCHANGED <<edit, settings, pending, handler, server, lost>> /\ scan' \in {scan, Found}
        BY <1>7 DEF ScanReport, ChainCheck, ScanDone
    <2>3. lock' \in {lock, Free} /\ asked' \in SUBSET asked
        BY <1>3, <1>7 DEF ScanReport, ChainCheck, ScanDone
    <2>4. scan' \in ScanStatus
        BY <1>1, <2>2 DEF Found, ScanStatus, TypeOK
    <2>5. scene' \in [Scenes -> SceneRow]
        BY <1>1, <1>7, ReportedScenes DEF ChainCheck, ScanDone
    <2> QED
        BY <1>1, <1>2, <2>1, <2>2, <2>3, <2>4, <2>5 DEF TypeOK
<1>8. ASSUME NEW j \in Jobs, BlurPublish(j) \/ BlurRecord(j) \/ ClaudeVerdict(j) \/ ClaudeDone(j) PROVE TypeInv'
    <2>1. j \in Ids /\ \E at, s : Went(j, at, s)
        BY <1>8, Blurring
    <2>2. UNCHANGED <<scan, settings, pending, handler, server, lost>> /\ edit' \in {edit, Seen(j, {"approved"})}
        BY <1>8 DEF BlurPublish, BlurRecord, ClaudeVerdict, ClaudeDone
    <2>3. lock' \in {lock, Free} /\ asked' \in SUBSET asked
        BY <1>3, <1>8 DEF BlurPublish, BlurRecord, ClaudeVerdict, ClaudeDone
    <2>4. scene' \in [Scenes -> SceneRow]
        <3>1. CASE ClaudeVerdict(j)
            <4>1. PICK s \in task[j].todo, verdict \in {"approved", "rejected", "failed"} :
                    scene' = IF verdict \in {"failed", task[j].seen[s]} THEN scene
                             ELSE [scene EXCEPT ![s].status = verdict, ![s].by = 0]
                BY <3>1 DEF ClaudeVerdict
            <4>2. s \in Scenes
                BY <1>1 DEF TaskRow
            <4>3. CASE verdict = "failed"
                BY <1>1, <4>1, <4>3
            <4>4. CASE verdict # "failed"
                <5>1. verdict \in Status
                    BY <4>4 DEF Status
                <5> QED
                    BY <4>1, <4>2, <5>1, OneScene
            <4> QED
                BY <4>3, <4>4
        <3>2. CASE BlurRecord(j)
            BY <3>2, AppliedScenes DEF BlurRecord
        <3>3. CASE BlurPublish(j) \/ ClaudeDone(j)
            BY <1>1, <3>3 DEF BlurPublish, ClaudeDone
        <3> QED
            BY <1>8, <3>1, <3>2, <3>3
    <2>5. edit' \subseteq Scenes
        BY <1>1, <2>2 DEF TypeOK, Seen
    <2> QED
        BY <1>1, <1>2, <2>1, <2>2, <2>3, <2>4, <2>5 DEF TypeOK
<1>9. ASSUME NEW j \in Jobs, Fail(j) PROVE TypeInv'
    <2>1. j \in Ids /\ Went(j, "over", "failed")
        BY <1>9, Ending
    <2>2. /\ UNCHANGED <<scene, edit, settings, pending, handler, server, lost>>
          /\ scan' \in {scan, "scan_failed"} /\ lock' \in {lock, Free} /\ asked' \in SUBSET asked
        BY <1>3, <1>9 DEF Fail
    <2>3. scan' \in ScanStatus
        BY <1>1, <2>2 DEF TypeOK, ScanStatus
    <2> QED
        BY <1>1, <1>2, <2>1, <2>2, <2>3 DEF TypeOK
<1>10. ASSUME NEW j \in Jobs, Cancel(j) PROVE TypeInv'
    <2>1. task[j].at # "none" /\ UNCHANGED <<edit, settings, pending, handler, server, lost>>
        BY <1>10 DEF Cancel
    <2>2. CASE UNCHANGED <<job, scan, scene, task, lock>>
        <3>1. asked' \subseteq Jobs
            BY <1>1, <1>3, <1>10 DEF Cancel
        <3> QED
            BY <1>1, <2>1, <2>2, <3>1 DEF TypeInv, TypeOK, TasksHaveRows, Ids
    <2>3. CASE /\ j \in Ids /\ Went(j, "over", "cancelled") /\ Ends(j, "cancelled")
               /\ scan' = IF Kind(j) = "scan" THEN "not_scanned" ELSE scan
        <3>1. scan' \in ScanStatus /\ lock' \in {lock, Free} /\ asked' \in SUBSET asked
            BY <1>1, <1>3, <2>3 DEF TypeOK, ScanStatus
        <3>2. scene' \in {scene, MarkApplied(j)}
            BY <1>10 DEF Cancel
        <3>3. scene' \in [Scenes -> SceneRow]
            BY <3>2, AppliedScenes
        <3> QED
            BY <1>1, <1>2, <2>1, <2>3, <3>1, <3>3 DEF TypeOK
    <2> QED
        BY <1>10, <2>1, <2>2, <2>3, Ending
<1>11. ASSUME NEW j \in Jobs, Lose(j) PROVE TypeInv'
    <2>1. j \in Ids /\ Went(j, "over", job[j].state)
        BY <1>11, Ending
    <2>2. /\ UNCHANGED <<scan, edit, settings, pending, handler, server>>
          /\ lock' \in {lock, Free} /\ asked' \in SUBSET asked /\ lost' = lost \cup {j}
          /\ scene' \in {scene, ClearStale(MarkApplied(j))}
        BY <1>11 DEF Lose, LeaveLock
    <2>3. scene' \in [Scenes -> SceneRow]
        BY <2>2, AppliedScenes
    <2> QED
        BY <1>1, <1>2, <2>1, <2>2, <2>3 DEF TypeOK
<1>12. ASSUME NEW h \in Handlers, CancelQueued(h) PROVE TypeInv'
    <2> DEFINE j == handler[h].job
    <2>1. j \in Ids
        BY <1>12 DEF CancelQueued
    <2>2. /\ RowsAre(j, "cancelled") /\ task' = task
          /\ scan' = IF Kind(j) = "scan" THEN "not_scanned" ELSE scan
        BY <1>12, <2>1, Cancelling
    <2>3. /\ UNCHANGED <<scene, edit, settings, pending, task, lock, asked, server, lost>>
          /\ handler' \in [Handlers -> HandlerRow]
        BY <1>12, HandlerSet DEF CancelQueued
    <2> HIDE DEF j
    <2> QED
        BY <1>1, <2>1, <2>2, <2>3 DEF TypeInv, TypeOK, TasksHaveRows, RowsAre, Row, ScanStatus, Ids, HandlerRow
<1>13. ASSUME NEW j \in Jobs, AskCancel(j) PROVE TypeInv'
    <2>1. asked' \subseteq Jobs /\ UNCHANGED <<job, scan, scene, edit, settings, pending, task, lock, handler, server, lost>>
        BY <1>1, <1>13 DEF AskCancel
    <2> QED
        BY <1>1, <2>1 DEF TypeInv, TypeOK, TasksHaveRows, Ids
<1>14. ASSUME NEW old, NEW k, RowsGrow(old, k), scene' = scene, edit' = edit, UNCHANGED <<settings, server>>,
              scan' \in ScanStatus, pending' \in Seq(Jobs), lock' \in {lock, Free}, asked' \in SUBSET asked,
              lost' \in {lost, lost \cup {Len(job) + 1}},
              task' \in [Jobs -> TaskRow], \A j \in Jobs : task[j].at = "none" => task'[j].at = "none",
              handler' \in [Handlers -> HandlerRow]
       PROVE  TypeInv'
    <2>1. /\ job' \in Seq([kind: Kinds, state: States]) /\ Len(job') <= MaxJobs
          /\ Ids \in SUBSET DOMAIN job' /\ lost' \subseteq Jobs
        BY <1>1, <1>14 DEF RowsGrow, Row
    <2>2. TasksHaveRows'
        BY <1>1, <1>14, <2>1 DEF TasksHaveRows, Ids
    <2> QED
        BY <1>1, <1>14, <2>1, <2>2 DEF TypeInv, TypeOK, TaskRow, HandlerRow
<1>15. ASSUME NEW j \in Jobs, ChainEnqueues(j) PROVE TypeInv'
    <2>1. /\ Enqueued("blur") /\ UNCHANGED <<scene, edit, settings, lock, handler, asked, server, lost>>
          /\ TasksAre(j, "finishing") /\ task[j].at = "enqueuing"
        BY <1>15, Scanning DEF ChainEnqueues
    <2>2. RowsGrow(job, "blur") /\ pending' \in Seq(Jobs) /\ scan' = scan
        BY <2>1, RowAppended DEF Kinds
    <2> QED
        BY <1>1, <1>14, <2>1, <2>2 DEF TasksAre, TypeOK
<1>16. ASSUME NEW j \in Jobs, ChainStrands(j) PROVE TypeInv'
    <2>1. /\ UNCHANGED <<scene, edit, settings, pending, handler, server>>
          /\ lock' \in {lock, Free} /\ asked' \in SUBSET asked /\ lost' = lost \cup {Len(job) + 1}
        BY <1>16 DEF ChainStrands, LeaveLock
    <2>2. /\ TasksAre(j, "over") /\ task[j].at = "enqueuing" /\ scan' \in ScanStatus
          /\ \E old : RowsGrow(old, "blur")
        BY <1>16, Stranding DEF ScanStatus
    <2> QED
        BY <1>1, <1>14, <2>1, <2>2 DEF TasksAre, TypeOK
<1>17. ASSUME NEW h \in Handlers, NEW k \in Kinds, Click(h, k) PROVE TypeInv'
    <2>1. /\ handler' \in [Handlers -> HandlerRow]
          /\ UNCHANGED <<job, scan, scene, edit, settings, pending, task, lock, asked, server, lost>>
        <3>1. Awaits(h, k, 0) /\ k \in Kinds \cup {"cancel"} /\ 0 \in 0..MaxJobs
            BY <1>17, SceneReviewAssumption DEF Click
        <3>2. handler' \in [Handlers -> HandlerRow]
            BY <3>1, HandlerSet
        <3> QED
            BY <1>17, <3>2 DEF Click
    <2> QED
        BY <1>1, <2>1 DEF TypeInv, TypeOK, TasksHaveRows, Ids, HandlerRow
<1>18. ASSUME NEW h \in Handlers, NEW j \in Jobs, FindQueued(h, j) PROVE TypeInv'
    <2>1. /\ handler' \in [Handlers -> HandlerRow]
          /\ UNCHANGED <<job, scan, scene, edit, settings, pending, task, lock, asked, server, lost>>
        <3>1. Awaits(h, "cancel", j) /\ "cancel" \in Kinds \cup {"cancel"} /\ j \in 0..MaxJobs
            BY <1>18, SceneReviewAssumption DEF FindQueued, Jobs
        <3>2. handler' \in [Handlers -> HandlerRow]
            BY <3>1, HandlerSet
        <3> QED
            BY <1>18, <3>2 DEF FindQueued
    <2> QED
        BY <1>1, <2>1 DEF TypeInv, TypeOK, TasksHaveRows, Ids, HandlerRow
<1>19. ASSUME NEW h \in Handlers, ClickEnqueues(h) PROVE TypeInv'
    <2>1. /\ Enqueued(handler[h].does) /\ handler[h].does \in Kinds /\ handler' \in [Handlers -> HandlerRow]
          /\ UNCHANGED <<scene, edit, settings, task, lock, asked, server, lost>>
        BY <1>19, HandlerSet DEF ClickEnqueues, Enqueues
    <2>2. RowsGrow(job, handler[h].does) /\ pending' \in Seq(Jobs) /\ scan' \in ScanStatus
        BY <1>1, <2>1, RowAppended DEF ScanStatus, TypeOK
    <2> QED
        BY <1>1, <1>14, <2>1, <2>2 DEF TypeOK
<1>20. ASSUME NEW h \in Handlers, ClickStrands(h) PROVE TypeInv'
    <2>1. /\ Inserted(handler[h].does) /\ handler[h].does \in Kinds /\ handler' \in [Handlers -> HandlerRow]
          /\ UNCHANGED <<scene, edit, settings, pending, task, lock, asked, server>> /\ lost' = lost \cup {Len(job) + 1}
        BY <1>20, HandlerSet DEF ClickStrands, Enqueues
    <2>2. RowsGrow(job, handler[h].does) /\ scan' \in ScanStatus
        BY <1>1, <2>1, RowInserted DEF ScanStatus, TypeOK
    <2> QED
        BY <1>1, <1>14, <2>1, <2>2 DEF TypeOK
<1>21. ASSUME NEW s \in Scenes, Review(s, "approved") \/ Review(s, "rejected") \/ AddManual(s) PROVE TypeInv'
    <2>1. UNCHANGED <<job, scan, edit, settings, pending, task, lock, handler, asked, server, lost>>
        BY <1>21 DEF Review, AddManual
    <2>2. scene' \in [Scenes -> SceneRow]
        <3>1. CASE Review(s, "approved")
            BY <3>1, OneScene DEF Review, Status
        <3>2. CASE Review(s, "rejected")
            BY <3>2, OneScene DEF Review, Status
        <3>3. CASE AddManual(s)
            BY <3>3, OneScene DEF AddManual, Status
        <3> QED
            BY <1>21, <3>1, <3>2, <3>3
    <2> QED
        BY <1>1, <2>1, <2>2 DEF TypeInv, TypeOK, TasksHaveRows, Ids, SceneRow
<1>22. CASE ToggleAuto
    <2>1. auto' \in BOOLEAN /\ UNCHANGED <<job, scan, scene, edit, hits, pending, task, lock, handler, asked, server, lost>>
        BY <1>22 DEF ToggleAuto
    <2> QED
        BY <1>1, <2>1 DEF TypeInv, TypeOK, TasksHaveRows, Ids
<1>23. CASE Dispatch
    <2>1. PICK j \in Jobs : /\ 1 \in DOMAIN pending /\ pending[1] = j
                            /\ TasksAre(j, "new") /\ pending' \in Seq(Jobs)
        BY <1>23, Dispatching
    <2>2. UNCHANGED <<job, scan, scene, edit, settings, lock, handler, asked, server, lost>>
        BY <1>23 DEF Dispatch
    <2>3. j \in Ids
        BY <2>1
    <2>4. TasksHaveRows'
        BY <1>1, <2>1, <2>2, <2>3 DEF TasksHaveRows, TasksAre, Ids
    <2> QED
        BY <1>1, <2>1, <2>2, <2>4 DEF TypeInv, TypeOK, TasksAre, TaskRow
<1>24. CASE Crash
    <2>1. task' \in [Jobs -> TaskRow] /\ \A j \in Jobs : task'[j].at = "none"
        BY <1>24, Crashing
    <2>2. /\ process' = "down" /\ pending' = <<>> /\ lock' = Free /\ asked' = {}
          /\ handler' = [h \in Handlers |-> Idle] /\ UNCHANGED <<job, scan, scene, edit, settings, lives, lost>>
        BY <1>24 DEF Crash
    <2>3. pending' \in Seq(Jobs) /\ handler' \in [Handlers -> HandlerRow]
        BY <2>2, SceneReviewAssumption DEF Idle, HandlerRow
    <2> QED
        BY <1>1, <2>1, <2>2, <2>3 DEF TypeInv, TypeOK, TasksHaveRows, TaskRow, HandlerRow
<1>25. CASE Start
    <2>1. /\ job' \in Seq(Row) /\ Len(job') = Len(job) /\ DOMAIN job' = Ids /\ pending' \in Seq(Jobs)
        BY <1>25, Starting
    <2>2. /\ process' = "up" /\ lives' = lives + 1 /\ lives < MaxLives /\ scan' = Reconciled /\ lost' = {}
          /\ UNCHANGED <<scene, edit, settings, task, lock, handler, asked>>
        BY <1>25 DEF Start
    <2>3. scan' \in ScanStatus
        BY <1>1, <2>2 DEF Reconciled, TypeOK, ScanStatus
    <2>4. lives' \in 0..MaxLives
        BY <1>1, <2>2, SceneReviewAssumption DEF TypeOK
    <2> QED
        BY <1>1, <2>1, <2>2, <2>3, <2>4 DEF TypeInv, TypeOK, TasksHaveRows, Row, Ids
<1>26. CASE UNCHANGED vars
    BY <1>1, <1>26 DEF vars, TypeInv, TypeOK, TasksHaveRows, Ids
<1> QED
    BY <1>4, <1>5, <1>6, <1>7, <1>8, <1>9, <1>10, <1>11, <1>12, <1>13, <1>15, <1>16, <1>17, <1>18, <1>19, <1>20,
        <1>21, <1>22, <1>23, <1>24, <1>25, <1>26 DEF Next, Advance

---------------------------------------------------------------------------
(* Where the jobs are *)

Holding == {"working", "loaded", "published"}  \* steps a task takes under the lock
Late    == {"chaining", "enqueuing", "finishing"}  \* a scan whose result is reported
Mid     == {"waiting", "stored"} \cup Holding \cup Late
Early   == {"new", "starting"}

\* A job waits in the queue once, without a task and not yet begun.
PendingOnce ==
    \A i \in DOMAIN pending :
        /\ pending[i] \in Ids
        /\ task[pending[i]].at = "none"
        /\ job[pending[i]].state \in {"queued", "cancelled"}
        /\ \A k \in DOMAIN pending : pending[k] = pending[i] => k = i

\* The row of a job says what its task is doing, unless a request that found it
\* queued has made it cancelled; and so does its kind.
StateFits ==
    \A j \in Jobs : /\ task[j].at \in Early => job[j].state \in {"queued", "cancelled"}
                    /\ task[j].at \in Mid => job[j].state \in {"processing", "cancelled"}
KindFits ==
    \A j \in Jobs : /\ task[j].at \in {"stored"} \cup Late => Kind(j) = "scan"
                    /\ task[j].at = "published" => Kind(j) = "blur"
LockHeld == \A j \in Jobs : task[j].at \in Holding => lock = j
AskedHasTask == \A j \in asked : task[j].at # "none"
CancelsHaveRows == \A h \in Handlers : handler[h].does = "cancel" => handler[h].job \in Ids
DownHasNoTasks ==
    process = "down" => /\ pending = <<>>
                        /\ \A j \in Jobs : task[j].at = "none"
                        /\ \A h \in Handlers : handler[h] = Idle

\* An unfinished job is on the queue, or has a task, or a database call lost it.
Accounted == process = "up" => \A j \in Ids : Active(j) => InPending(j) \/ j \in Running \/ j \in lost

RunInv ==
    /\ TypeInv
    /\ PendingOnce
    /\ StateFits
    /\ KindFits
    /\ LockHeld
    /\ AskedHasTask
    /\ CancelsHaveRows
    /\ DownHasNoTasks
    /\ Accounted

LEMMA InitRun == Init => RunInv
<1> SUFFICES ASSUME Init PROVE RunInv
    OBVIOUS
<1>1. TypeInv
    BY InitType
<1>2. NoTask.at = "none" /\ Idle.does = "idle"
    BY DEF NoTask, Idle
<1>3. \A j \in Jobs : task[j].at = "none"
    BY <1>2 DEF Init
<1>4. pending = <<>> /\ asked = {} /\ DOMAIN pending = {} /\ (\A h \in Handlers : handler[h] = Idle) /\ process = "down"
    BY DEF Init
<1>5. PendingOnce /\ AskedHasTask /\ DownHasNoTasks /\ CancelsHaveRows /\ Accounted
    BY <1>2, <1>3, <1>4 DEF PendingOnce, AskedHasTask, DownHasNoTasks, CancelsHaveRows, Accounted
<1>6. StateFits /\ KindFits /\ LockHeld
    BY <1>3 DEF StateFits, KindFits, LockHeld, Early, Mid, Late, Holding
<1> QED
    BY <1>1, <1>5, <1>6 DEF RunInv

\* A step of the task of job j.
LEMMA TaskStepKeepsRun ==
    ASSUME RunInv, NEW j \in Jobs, NEW at, TasksAre(j, at), task[j].at # "none", at # "none",
           \A k \in Ids \ {j} : job'[k] = job[k],
           job'[j].kind = job[j].kind,
           at \in Mid => job'[j].state \in {"processing", "cancelled"},
           at \in Early => job'[j].state \in {"queued", "cancelled"},
           at \in {"stored"} \cup Late => Kind(j) = "scan",
           at = "published" => Kind(j) = "blur",
           at \in Holding => lock' = j,
           \A k \in Jobs \ {j} : lock = k => lock' = k,
           asked' \in SUBSET asked, handler' = handler, process' = process, Ids \in SUBSET DOMAIN job'
    PROVE  StateFits' /\ KindFits' /\ LockHeld' /\ AskedHasTask' /\ CancelsHaveRows' /\ DownHasNoTasks'
<1>1. \A k \in Jobs \ {j} : task'[k] = task[k] /\ (task[k].at # "none" => job'[k] = job[k])
    BY DEF TasksAre, RunInv, TypeInv, TasksHaveRows
<1>2. task'[j].at = at
    BY DEF TasksAre
<1>3. StateFits'
    BY <1>1, <1>2 DEF RunInv, StateFits, Early, Mid, Late, Holding
<1>4. KindFits'
    BY <1>1, <1>2 DEF RunInv, KindFits, Kind, Late
<1>5. LockHeld'
    BY <1>1, <1>2 DEF RunInv, LockHeld
<1>6. AskedHasTask'
    BY <1>1, <1>2 DEF RunInv, AskedHasTask, TypeInv, TypeOK
<1>7. DownHasNoTasks' /\ CancelsHaveRows'
    BY DEF RunInv, DownHasNoTasks, CancelsHaveRows, Ids
<1> QED
    BY <1>3, <1>4, <1>5, <1>6, <1>7

\* The queue stays as it is while tasks and rows that are not in it change.
LEMMA QueueStays ==
    ASSUME RunInv, NEW j \in Jobs, pending' = pending, \A k \in Jobs \ {j} : task'[k].at = task[k].at,
           task[j].at # "none" \/ (task' = task /\ job'[j].state \in {"queued", "cancelled"}),
           Ids \in SUBSET DOMAIN job', \A k \in Ids \ {j} : job'[k] = job[k]
    PROVE  PendingOnce'
<1> SUFFICES ASSUME NEW i \in DOMAIN pending
             PROVE  /\ pending[i] \in DOMAIN job'
                    /\ task'[pending[i]].at = "none"
                    /\ job'[pending[i]].state \in {"queued", "cancelled"}
                    /\ \A k \in DOMAIN pending : pending[k] = pending[i] => k = i
    BY DEF PendingOnce, Ids
<1>1. /\ pending[i] \in Ids /\ task[pending[i]].at = "none" /\ pending[i] \in Jobs
      /\ job[pending[i]].state \in {"queued", "cancelled"}
      /\ \A k \in DOMAIN pending : pending[k] = pending[i] => k = i
    BY DEF RunInv, PendingOnce, TypeInv, TypeOK
<1> QED
    BY <1>1

\* What an id at the end of the queue, or the start of a task, changes of it.
LEMMA QueueEnds ==
    ASSUME TypeInv, NEW n \in Jobs
    PROVE  /\ pending' = Append(pending, n) => InPending(n)' /\ \A i : InPending(i) => InPending(i)'
           /\ /\ 1 \in DOMAIN pending /\ pending[1] = n /\ pending' = Tail(pending)
              => \A i : InPending(i) /\ i # n => InPending(i)'
<1>1. pending \in Seq(Jobs) /\ DOMAIN pending = 1..Len(pending) /\ Len(pending) \in Nat
    BY DEF TypeInv, TypeOK
<1>2. ASSUME pending' = Append(pending, n) PROVE InPending(n)' /\ \A i : InPending(i) => InPending(i)'
    <2>1. /\ DOMAIN pending' = 1..Len(pending) + 1 /\ pending'[Len(pending) + 1] = n
          /\ \A k \in 1..Len(pending) : pending'[k] = pending[k]
        BY <1>1, <1>2
    <2> QED
        BY <1>1, <2>1 DEF InPending
<1>3. ASSUME 1 \in DOMAIN pending, pending[1] = n, pending' = Tail(pending), NEW i, InPending(i), i # n
      PROVE  InPending(i)'
    <2>1. PICK k \in DOMAIN pending : pending[k] = i
        BY <1>3 DEF InPending
    <2>2. k # 1 /\ k - 1 \in 1..Len(pending) - 1
        BY <1>1, <1>3, <2>1
    <2>3. k - 1 \in DOMAIN pending' /\ pending'[k - 1] = pending[(k - 1) + 1]
        BY <1>1, <1>3, <2>2
    <2> QED
        BY <1>1, <2>1, <2>3 DEF InPending
<1> QED
    BY <1>2, <1>3

\* A new row and its place in the queue.
LEMMA QueueGrows ==
    ASSUME RunInv, NEW k \in Kinds, Enqueued(k),
           \A j \in Jobs : task[j].at = "none" => task'[j].at = "none"
    PROVE  PendingOnce'
<1> DEFINE n == Len(job) + 1
           m == Len(pending)
<1>1. /\ n \in Jobs /\ n \notin Ids /\ DOMAIN job' = Ids \cup {n} /\ job'[n].state = "queued"
      /\ \A i \in Ids : job'[i] = job[i]
      /\ pending' = Append(pending, n)
    BY RowAppended DEF RunInv, RowsGrow
<1>2. pending \in Seq(Jobs) /\ m \in Nat /\ DOMAIN pending = 1..m
    BY DEF RunInv, TypeInv, TypeOK
<1> HIDE DEF n
<1>3. /\ DOMAIN pending' = 1..m + 1 /\ pending'[m + 1] = n
      /\ \A i \in 1..m : pending'[i] = pending[i]
    BY <1>1, <1>2
<1>4. task[n].at = "none"
    BY <1>1 DEF RunInv, TypeInv, TasksHaveRows
<1>5. ASSUME NEW i \in 1..m
      PROVE  /\ pending[i] \in Ids /\ task[pending[i]].at = "none" /\ pending[i] \in Jobs /\ pending[i] # n
             /\ job[pending[i]].state \in {"queued", "cancelled"}
             /\ \A l \in 1..m : pending[l] = pending[i] => l = i
    BY <1>1, <1>2 DEF RunInv, PendingOnce
<1> SUFFICES ASSUME NEW i \in 1..m + 1
             PROVE  /\ pending'[i] \in DOMAIN job'
                    /\ task'[pending'[i]].at = "none"
                    /\ job'[pending'[i]].state \in {"queued", "cancelled"}
                    /\ \A l \in 1..m + 1 : pending'[l] = pending'[i] => l = i
    BY <1>3 DEF PendingOnce, Ids
<1>6. CASE i = m + 1
    <2>1. \A l \in 1..m : pending'[l] # n
        BY <1>3, <1>5
    <2>2. \A l \in 1..m + 1 : l = m + 1 \/ l \in 1..m
        BY <1>2
    <2> QED
        BY <1>1, <1>3, <1>4, <1>6, <2>1, <2>2
<1>7. CASE i \in 1..m
    <2>1. \A l \in 1..m + 1 : l = m + 1 \/ l \in 1..m
        BY <1>2
    <2> QED
        BY <1>1, <1>3, <1>5, <1>7, <2>1
<1> QED
    BY <1>2, <1>6, <1>7

\* A new row is accounted for on the queue or among the lost.
LEMMA AccountedGrows ==
    ASSUME RunInv, NEW old, NEW k, RowsGrow(old, k), NEW n, n = Len(job) + 1, process' = process,
           \A i \in Ids : old[i].state \in {"queued", "processing"} =>
                Active(i) /\ (i \in Running => i \in Running'),
           \A i : InPending(i) => InPending(i)',
           lost \in SUBSET lost', InPending(n)' \/ n \in lost'
    PROVE  Accounted'
<1> SUFFICES ASSUME process = "up", NEW i \in DOMAIN job', job'[i].state \in {"queued", "processing"}
             PROVE  InPending(i)' \/ i \in Running' \/ i \in lost'
    BY DEF Accounted, Ids, Active
<1>1. CASE i = n
    BY <1>1
<1>2. CASE i \in Ids
    <2>1. Active(i) /\ (i \in Running => i \in Running')
        BY <1>2 DEF RowsGrow
    <2> QED
        BY <1>2, <2>1 DEF RunInv, Accounted
<1> QED
    BY <1>1, <1>2 DEF RowsGrow

\* A step that writes a row and moves its task.
LEMMA WentKeepsRun ==
    ASSUME RunInv, TypeInv', NEW j \in Ids, NEW at, NEW s, Went(j, at, s), task[j].at # "none", at # "none",
           at \in Mid => s \in {"processing", "cancelled"},
           at \in Early => s \in {"queued", "cancelled"},
           at \in {"stored"} \cup Late => Kind(j) = "scan",
           at = "published" => Kind(j) = "blur",
           at \in Holding => lock' = j,
           at = "over" /\ s \in {"queued", "processing"} => j \in lost',
           \A k \in Jobs \ {j} : lock = k => lock' = k,
           lost \in SUBSET lost',
           asked' \in SUBSET asked, UNCHANGED <<pending, handler, process>>
    PROVE  RunInv'
<1>1. j \in Jobs /\ TasksAre(j, at) /\ RowsAre(j, s)
    BY IdsAreJobs DEF RunInv, Went
<1>2. /\ \A k \in Ids \ {j} : job'[k] = job[k]
      /\ job'[j].kind = job[j].kind /\ job'[j].state = s /\ DOMAIN job' = Ids
    BY <1>1 DEF RowsAre
<1>3. StateFits' /\ KindFits' /\ LockHeld' /\ AskedHasTask' /\ CancelsHaveRows' /\ DownHasNoTasks'
    BY <1>1, <1>2, TaskStepKeepsRun
<1>4. PendingOnce'
    BY <1>1, <1>2, QueueStays DEF TasksAre
<1>5. Accounted'
    <2> SUFFICES ASSUME process = "up", NEW k \in Ids, job'[k].state \in {"queued", "processing"}
                 PROVE  InPending(k)' \/ k \in Running' \/ k \in lost'
        BY <1>2 DEF Accounted, Active, Ids
    <2>1. CASE k = j
        BY <1>1, <1>2, <2>1 DEF TasksAre, Running
    <2>2. CASE k # j
        <3>1. Active(k) /\ k \in Jobs /\ task'[k] = task[k]
            BY <1>1, <1>2, <2>2, IdsAreJobs DEF Active, TasksAre, RunInv
        <3>2. InPending(k) => InPending(k)'
            BY DEF InPending
        <3> QED
            BY <3>1, <3>2 DEF RunInv, Accounted, Running
    <2> QED
        BY <2>1, <2>2
<1> QED
    BY <1>3, <1>4, <1>5 DEF RunInv

\* Every step keeps it.
LEMMA NextKeepsRun == RunInv /\ [Next]_vars => RunInv'
<1> SUFFICES ASSUME RunInv, [Next]_vars PROVE RunInv'
    OBVIOUS
<1>1. TypeInv /\ TypeInv'
    BY NextKeepsType DEF RunInv, AskedHasTask, PendingOnce, CancelsHaveRows
<1>2. Ids \in SUBSET Jobs /\ Free \notin Jobs
    BY <1>1, IdsAreJobs, SceneReviewAssumption DEF Jobs
<1> USE DEF settings, server
<1>3. ASSUME NEW j \in Jobs, NEW s, Ends(j, s)
      PROVE  (\A k \in Jobs \ {j} : lock = k => lock' = k) /\ asked' \in SUBSET asked
    BY <1>3 DEF Ends, LeaveLock
<1>4. ASSUME NEW j \in Jobs, Begin(j) \/ Started(j) PROVE RunInv'
    <2>1. /\ j \in Ids /\ task[j].at \in Early
          /\ \/ Went(j, "over", "cancelled")
             \/ task[j].at = "new" /\ Went(j, "starting", job[j].state)
             \/ Went(j, "waiting", "processing")
        BY <1>1, <1>4, Beginning DEF Early
    <2>2. UNCHANGED <<pending, lock, asked, handler, process, lost>>
        BY <1>4 DEF Begin, Started
    <2>3. job[j].state \in {"queued", "cancelled"} /\ task[j].at # "none"
        BY <2>1 DEF RunInv, StateFits, Early
    <2> QED
        BY <1>1, <2>1, <2>2, <2>3, WentKeepsRun DEF Early, Mid, Late, Holding
<1>5. ASSUME NEW j \in Jobs, Acquire(j) PROVE RunInv'
    <2>1. /\ j \in Ids /\ task[j].at = "waiting" /\ Went(j, "working", job[j].state)
        BY <1>1, <1>5, Beginning
    <2>2. UNCHANGED <<pending, asked, handler, process, lost>> /\ lock = Free /\ lock' = j
        BY <1>5 DEF Acquire
    <2>3. job[j].state \in {"processing", "cancelled"}
        BY <2>1 DEF RunInv, StateFits, Mid
    <2> QED
        BY <1>1, <1>2, <2>1, <2>2, <2>3, WentKeepsRun DEF Late, Early
<1>6. ASSUME NEW j \in Jobs, Load(j) PROVE RunInv'
    <2>1. /\ j \in Ids /\ task[j].at = "working" /\ Went(j, "loaded", job[j].state)
        BY <1>1, <1>6, Beginning
    <2>2. UNCHANGED <<pending, asked, handler, process, lost, lock>>
        BY <1>6 DEF Load
    <2>3. job[j].state \in {"processing", "cancelled"} /\ lock = j
        BY <2>1 DEF RunInv, StateFits, LockHeld, Mid, Holding
    <2> QED
        BY <1>1, <1>2, <2>1, <2>2, <2>3, WentKeepsRun DEF Late, Early
<1>7. ASSUME NEW j \in Jobs, ScanStore(j) PROVE RunInv'
    <2>1. /\ j \in Ids /\ task[j].at = "loaded" /\ Kind(j) = "scan" /\ Went(j, "stored", job[j].state)
        BY <1>1, <1>7, Scanning
    <2>2. UNCHANGED <<pending, asked, handler, process, lost>> /\ lock' = (IF lock = j THEN Free ELSE lock)
        BY <1>7 DEF ScanStore, LeaveLock
    <2>3. job[j].state \in {"processing", "cancelled"}
        BY <2>1 DEF RunInv, StateFits, Mid, Holding
    <2> QED
        BY <1>1, <1>2, <2>1, <2>2, <2>3, WentKeepsRun DEF Late, Holding, Early
<1>8. ASSUME NEW j \in Jobs, ScanReport(j) PROVE RunInv'
    <2>1. /\ j \in Ids /\ task[j].at = "stored"
          /\ \/ Chains /\ Went(j, "chaining", job[j].state)
             \/ ~Chains /\ Went(j, "over", "done")
        BY <1>1, <1>8, Scanning
    <2>2. /\ UNCHANGED <<pending, handler, process, lost>> /\ asked' \in SUBSET asked
          /\ \A k \in Jobs \ {j} : lock = k => lock' = k
        BY <1>3, <1>8 DEF ScanReport
    <2>3. job[j].state \in {"processing", "cancelled"} /\ Kind(j) = "scan"
        BY <2>1 DEF RunInv, StateFits, KindFits, Mid
    <2> QED
        BY <1>1, <1>2, <2>1, <2>2, <2>3, WentKeepsRun DEF Late, Holding, Mid, Early
<1>9. ASSUME NEW j \in Jobs, ChainCheck(j) PROVE RunInv'
    <2>1. /\ j \in Ids /\ task[j].at = "chaining"
          /\ Went(j, "enqueuing", job[j].state) \/ Went(j, "finishing", job[j].state)
        BY <1>1, <1>9, Scanning
    <2>2. UNCHANGED <<pending, handler, process, lost, asked, lock>>
        BY <1>9 DEF ChainCheck
    <2>3. job[j].state \in {"processing", "cancelled"} /\ Kind(j) = "scan"
        BY <2>1 DEF RunInv, StateFits, KindFits, Mid, Late
    <2> QED
        BY <1>1, <1>2, <2>1, <2>2, <2>3, WentKeepsRun DEF Holding, Early
<1>10. ASSUME NEW j \in Jobs, ScanDone(j) \/ BlurRecord(j) \/ ClaudeDone(j) PROVE RunInv'
    <2>1. j \in Ids /\ task[j].at # "none" /\ Went(j, "over", "done")
        BY <1>1, <1>10, Scanning, Blurring
    <2>2. /\ UNCHANGED <<pending, handler, process, lost>> /\ asked' \in SUBSET asked
          /\ \A k \in Jobs \ {j} : lock = k => lock' = k
        BY <1>3, <1>10 DEF ScanDone, BlurRecord, ClaudeDone
    <2> QED
        BY <1>1, <2>1, <2>2, WentKeepsRun DEF Holding, Mid, Late, Early
<1>11. ASSUME NEW j \in Jobs, BlurPublish(j) \/ ClaudeVerdict(j) PROVE RunInv'
    <2>1. /\ j \in Ids /\ task[j].at = "loaded"
          /\ \/ Kind(j) = "blur" /\ Went(j, "published", job[j].state)
             \/ Went(j, "loaded", job[j].state)
        BY <1>1, <1>11, Blurring
    <2>2. UNCHANGED <<pending, handler, process, lost, asked, lock>>
        BY <1>11 DEF BlurPublish, ClaudeVerdict
    <2>3. job[j].state \in {"processing", "cancelled"} /\ lock = j
        BY <2>1 DEF RunInv, StateFits, LockHeld, Mid, Holding
    <2> QED
        BY <1>1, <2>1, <2>2, <2>3, WentKeepsRun DEF Late, Early
<1>12. ASSUME NEW j \in Jobs, Fail(j) PROVE RunInv'
    <2>1. j \in Ids /\ task[j].at # "none" /\ Went(j, "over", "failed")
        BY <1>1, <1>12, Ending
    <2>2. /\ UNCHANGED <<pending, handler, process, lost>> /\ asked' \in SUBSET asked
          /\ \A k \in Jobs \ {j} : lock = k => lock' = k
        BY <1>3, <1>12 DEF Fail
    <2> QED
        BY <1>1, <2>1, <2>2, WentKeepsRun DEF Holding, Mid, Late, Early
<1>13. ASSUME NEW j \in Jobs, Cancel(j) PROVE RunInv'
    <2>1. task[j].at # "none" /\ UNCHANGED <<pending, handler, process, lost>>
        BY <1>13 DEF Cancel, RunInv, AskedHasTask
    <2>2. CASE UNCHANGED <<job, scan, scene, task, lock>>
        <3>1. asked' \in SUBSET asked
            BY <1>3, <1>13 DEF Cancel
        <3> QED
            BY <1>1, <2>1, <2>2, <3>1 DEF RunInv, PendingOnce, StateFits, KindFits, Kind, LockHeld, AskedHasTask,
                CancelsHaveRows, DownHasNoTasks, Accounted, Active, InPending, Running, Ids
    <2>3. CASE j \in Ids /\ Went(j, "over", "cancelled") /\ Ends(j, "cancelled")
        BY <1>1, <1>3, <2>1, <2>3, WentKeepsRun DEF Holding, Mid, Late, Early
    <2> QED
        BY <1>1, <1>13, <2>1, <2>2, <2>3, Ending
<1>14. ASSUME NEW j \in Jobs, Lose(j) PROVE RunInv'
    <2>1. j \in Ids /\ task[j].at # "none" /\ Went(j, "over", job[j].state)
        BY <1>1, <1>14, Ending
    <2>2. /\ UNCHANGED <<pending, handler, process>> /\ asked' \in SUBSET asked /\ lost' = lost \cup {j}
          /\ \A k \in Jobs \ {j} : lock = k => lock' = k
        BY <1>14 DEF Lose, LeaveLock
    <2> QED
        BY <1>1, <2>1, <2>2, WentKeepsRun DEF Holding, Mid, Late, Early
<1>15. ASSUME NEW h \in Handlers, CancelQueued(h) PROVE RunInv'
    <2>1. PICK j \in Jobs : j = handler[h].job /\ j \in Ids
        BY <1>2, <1>15 DEF CancelQueued, RunInv, CancelsHaveRows
    <2>2. RowsAre(j, "cancelled") /\ task' = task
        BY <1>1, <1>15, <2>1, Cancelling
    <2>3. UNCHANGED <<pending, lock, asked, process, lost>> /\ Replies(h)
        BY <1>15 DEF CancelQueued
    <2>4. /\ \A k \in Ids \ {j} : job'[k] = job[k]
          /\ job'[j].kind = job[j].kind /\ job'[j].state = "cancelled" /\ DOMAIN job' = Ids
        BY <2>1, <2>2 DEF RowsAre
    <2>5. PendingOnce'
        BY <2>1, <2>2, <2>3, <2>4, QueueStays
    <2>6. StateFits' /\ KindFits'
        BY <1>1, <2>2, <2>4 DEF RunInv, StateFits, KindFits, Kind, Early, Mid, Late, Holding, TypeInv, TasksHaveRows
    <2>7. LockHeld' /\ AskedHasTask'
        BY <2>2, <2>3 DEF RunInv, LockHeld, AskedHasTask
    <2>8. CancelsHaveRows' /\ DownHasNoTasks'
        <3>1. handler'[h] = Idle /\ \A g \in Handlers \ {h} : handler'[g] = handler[g]
            BY <1>1, <2>3, HandlerSet
        <3> QED
            BY <2>2, <2>3, <2>4, <3>1 DEF RunInv, CancelsHaveRows, DownHasNoTasks, Idle, Ids
    <2>9. Accounted'
        BY <2>2, <2>3, <2>4 DEF RunInv, Accounted, Active, InPending, Running, Ids
    <2> QED
        BY <1>1, <2>5, <2>6, <2>7, <2>8, <2>9 DEF RunInv
<1>16. ASSUME NEW j \in Jobs, AskCancel(j) PROVE RunInv'
    <2>1. /\ asked' = asked \cup {j} /\ task[j].at # "none"
          /\ UNCHANGED <<job, pending, task, lock, process, handler, lost>>
        BY <1>16 DEF AskCancel, Running
    <2> QED
        BY <1>1, <2>1 DEF RunInv, PendingOnce, StateFits, KindFits, Kind, LockHeld, AskedHasTask, CancelsHaveRows,
            DownHasNoTasks, Accounted, Active, InPending, Running, Ids
<1>17. ASSUME NEW j \in Jobs, ChainEnqueues(j) PROVE RunInv'
    <2>1. j \in Ids /\ task[j].at = "enqueuing" /\ TasksAre(j, "finishing")
        BY <1>1, <1>17, Scanning
    <2>2. Enqueued("blur") /\ "blur" \in Kinds /\ UNCHANGED <<lock, asked, handler, process, lost>>
        BY <1>17 DEF ChainEnqueues, Kinds
    <2>3. RowsGrow(job, "blur") /\ pending' = Append(pending, Len(job) + 1)
        BY <1>1, <2>2, RowAppended
    <2>4. job[j].state \in {"processing", "cancelled"} /\ Kind(j) = "scan"
        BY <2>1 DEF RunInv, StateFits, KindFits, Mid, Late
    <2>5. StateFits' /\ KindFits' /\ LockHeld' /\ AskedHasTask' /\ CancelsHaveRows' /\ DownHasNoTasks'
        <3>1. (\A i \in Ids : job'[i] = job[i]) /\ Ids \in SUBSET DOMAIN job'
            BY <2>3 DEF RowsGrow
        <3> QED
            BY <1>2, <2>1, <2>2, <2>4, <3>1, TaskStepKeepsRun DEF Holding, Early
    <2>6. PendingOnce'
        BY <2>1, <2>2, QueueGrows DEF TasksAre
    <2>7. Accounted'
        <3>1. PICK n \in Jobs : n = Len(job) + 1
            BY <2>3 DEF RowsGrow
        <3>2. InPending(n)' /\ \A i : InPending(i) => InPending(i)'
            BY <1>1, <2>3, <3>1, QueueEnds
        <3>3. \A i \in Ids : i \in Running => i \in Running'
            BY <2>1 DEF TasksAre, Running
        <3> QED
            BY <2>2, <2>3, <3>1, <3>2, <3>3, AccountedGrows DEF Active
    <2> QED
        BY <1>1, <2>5, <2>6, <2>7 DEF RunInv
<1>18. ASSUME NEW j \in Jobs, ChainStrands(j) PROVE RunInv'
    <2>1. j \in Ids /\ task[j].at = "enqueuing" /\ TasksAre(j, "over")
        BY <1>1, <1>18, Stranding
    <2>2. PICK s \in {"failed", "cancelled"}, old \in Seq(Row) :
            /\ RowsGrow(old, "blur")
            /\ \A i \in Ids : old[i].kind = job[i].kind
            /\ \A i \in Ids \ {j} : old[i] = job[i]
            /\ old[j].state = s
        BY <1>1, <1>18, Stranding
    <2>3. /\ UNCHANGED <<pending, handler, process>> /\ asked' \in SUBSET asked
          /\ lost' = lost \cup {Len(job) + 1} /\ (\A k \in Jobs \ {j} : lock = k => lock' = k)
        BY <1>18 DEF ChainStrands, LeaveLock
    <2>4. /\ \A i \in Ids \ {j} : job'[i] = job[i]
          /\ job'[j].kind = job[j].kind /\ Ids \in SUBSET DOMAIN job'
        BY <2>1, <2>2 DEF RowsGrow
    <2>5. StateFits' /\ KindFits' /\ LockHeld' /\ AskedHasTask' /\ CancelsHaveRows' /\ DownHasNoTasks'
        BY <2>1, <2>3, <2>4, TaskStepKeepsRun DEF Holding, Early, Mid, Late
    <2>6. PendingOnce'
        BY <2>1, <2>3, <2>4, QueueStays DEF TasksAre
    <2>7. Accounted'
        <3>1. \A i : InPending(i) => InPending(i)'
            BY <2>3 DEF InPending
        <3>2. \A i \in Ids \ {j} : i \in Running => i \in Running'
            BY <2>1 DEF TasksAre, Running
        <3>3. \A i \in Ids : old[i].state \in {"queued", "processing"} => Active(i) /\ (i \in Running => i \in Running')
            BY <2>2, <3>2 DEF Active
        <3> QED
            BY <2>2, <2>3, <3>1, <3>3, AccountedGrows
    <2> QED
        BY <1>1, <2>5, <2>6, <2>7 DEF RunInv
<1>19. ASSUME NEW h \in Handlers, ClickEnqueues(h) \/ ClickStrands(h) PROVE RunInv'
    <2> DEFINE k == handler[h].does
    <2>1. /\ k \in Kinds /\ UNCHANGED <<task, lock, asked, process>> /\ Replies(h)
          /\ \/ Enqueued(k) /\ lost' = lost
             \/ Inserted(k) /\ pending' = pending /\ lost' = lost \cup {Len(job) + 1}
        BY <1>19 DEF ClickEnqueues, ClickStrands, Enqueues
    <2>2. RowsGrow(job, k)
        BY <1>1, <2>1, RowAppended, RowInserted
    <2>3. process # "down"
        BY <2>1 DEF RunInv, DownHasNoTasks, Idle, Kinds
    <2> HIDE DEF k
    <2>4. (\A i \in Ids : job'[i] = job[i]) /\ Ids \in SUBSET DOMAIN job' /\ Len(job) + 1 \in Jobs
        BY <2>2 DEF RowsGrow
    <2>5. PendingOnce'
        <3>1. CASE Enqueued(k)
            BY <2>1, <3>1, QueueGrows
        <3>2. CASE pending' = pending
            BY <2>1, <2>4, <3>2 DEF RunInv, PendingOnce, Ids
        <3> QED
            BY <2>1, <3>1, <3>2
    <2>6. StateFits' /\ KindFits'
        BY <1>1, <2>1, <2>4 DEF RunInv, StateFits, KindFits, Kind, TypeInv, TasksHaveRows, Early, Mid, Late, Holding
    <2>7. CancelsHaveRows' /\ DownHasNoTasks'
        <3>1. handler'[h] = Idle /\ \A g \in Handlers \ {h} : handler'[g] = handler[g]
            BY <1>1, <2>1, HandlerSet
        <3> QED
            BY <2>1, <2>3, <2>4, <3>1 DEF RunInv, CancelsHaveRows, DownHasNoTasks, Idle, Ids
    <2>8. Accounted'
        <3>1. PICK n \in Jobs : n = Len(job) + 1
            BY <2>4
        <3>2. (\A i : InPending(i) => InPending(i)') /\ (InPending(n)' \/ n \in lost')
            <4>1. CASE Enqueued(k)
                BY <1>1, <3>1, <4>1, QueueEnds DEF Enqueued
            <4>2. CASE pending' = pending /\ lost' = lost \cup {Len(job) + 1}
                BY <3>1, <4>2 DEF InPending
            <4> QED
                BY <2>1, <4>1, <4>2
        <3>3. \A i \in Ids : i \in Running => i \in Running'
            BY <2>1 DEF Running
        <3>4. lost \in SUBSET lost'
            BY <2>1
        <3> QED
            BY <2>1, <2>2, <3>1, <3>2, <3>3, <3>4, AccountedGrows DEF Active
    <2> QED
        BY <1>1, <2>1, <2>5, <2>6, <2>7, <2>8 DEF RunInv, LockHeld, AskedHasTask
<1>20. ASSUME \/ \E h \in Handlers, k \in Kinds : Click(h, k)
              \/ \E h \in Handlers, j \in Jobs : FindQueued(h, j)
       PROVE  RunInv'
    <2>1. PICK h \in Handlers :
            \/ \E k \in Kinds : Awaits(h, k, 0)
            \/ \E j \in Ids : Awaits(h, "cancel", j)
        BY <1>20 DEF Click, FindQueued
    <2>2. UNCHANGED <<job, pending, task, lock, asked, process, lost>> /\ process = "up"
        BY <1>20 DEF Click, FindQueued
    <2>3. CancelsHaveRows'
        <3>1. /\ \A g \in Handlers \ {h} : handler'[g] = handler[g]
              /\ handler'[h].does = "cancel" => handler'[h].job \in Ids
            <4>1. handler \in [Handlers -> HandlerRow] /\ "cancel" \notin Kinds
                BY <1>1 DEF TypeInv, TypeOK, HandlerRow, Kinds
            <4>2. ASSUME NEW k \in Kinds, Awaits(h, k, 0)
                  PROVE  (\A g \in Handlers \ {h} : handler'[g] = handler[g]) /\ handler'[h].does # "cancel"
                BY <4>1, <4>2 DEF Awaits
            <4>3. ASSUME NEW j \in Ids, Awaits(h, "cancel", j)
                  PROVE  (\A g \in Handlers \ {h} : handler'[g] = handler[g]) /\ handler'[h].job = j
                BY <4>1, <4>3 DEF Awaits
            <4> QED
                BY <2>1, <4>2, <4>3
        <3> QED
            BY <2>2, <3>1 DEF RunInv, CancelsHaveRows, Ids
    <2> QED
        BY <1>1, <2>2, <2>3 DEF RunInv, PendingOnce, StateFits, KindFits, Kind, LockHeld, AskedHasTask,
            DownHasNoTasks, Accounted, Active, InPending, Running, Ids
<1>21. ASSUME \/ \E s \in Scenes : Review(s, "approved") \/ Review(s, "rejected") \/ AddManual(s)
              \/ ToggleAuto \/ UNCHANGED vars
       PROVE  RunInv'
    <2>1. UNCHANGED <<job, pending, task, lock, asked, process, handler, lost>>
        BY <1>21 DEF ToggleAuto, Review, AddManual, vars
    <2> QED
        BY <1>1, <2>1 DEF RunInv, PendingOnce, StateFits, KindFits, Kind, LockHeld, AskedHasTask, CancelsHaveRows,
            DownHasNoTasks, Accounted, Active, InPending, Running, Ids
<1>22. CASE Dispatch
    <2>1. PICK j \in Jobs : /\ 1 \in DOMAIN pending /\ pending[1] = j
                            /\ TasksAre(j, "new") /\ pending' = Tail(pending)
        BY <1>1, <1>22, Dispatching
    <2>2. UNCHANGED <<job, lock, asked, process, handler, lost>> /\ process = "up"
        BY <1>22 DEF Dispatch
    <2>3. j \in Ids /\ task[j].at = "none" /\ job[j].state \in {"queued", "cancelled"}
        BY <2>1 DEF RunInv, PendingOnce
    <2>4. PendingOnce'
        <3> SUFFICES ASSUME NEW i \in DOMAIN pending'
                     PROVE  /\ pending'[i] \in Ids
                            /\ task'[pending'[i]].at = "none"
                            /\ job[pending'[i]].state \in {"queued", "cancelled"}
                            /\ \A k \in DOMAIN pending' : pending'[k] = pending'[i] => k = i
            BY <2>2 DEF PendingOnce, Ids
        <3>1. /\ i \in Nat /\ i + 1 \in DOMAIN pending /\ pending'[i] = pending[i + 1] /\ i + 1 # 1
              /\ \A k \in DOMAIN pending' :
                    k \in Nat /\ k + 1 \in DOMAIN pending /\ pending'[k] = pending[k + 1]
            BY <1>1, <2>1 DEF TypeInv, TypeOK
        <3>2. /\ pending[i + 1] \in Ids /\ task[pending[i + 1]].at = "none" /\ pending[i + 1] # j
              /\ job[pending[i + 1]].state \in {"queued", "cancelled"}
              /\ \A l \in DOMAIN pending : pending[l] = pending[i + 1] => l = i + 1
            BY <2>1, <3>1 DEF RunInv, PendingOnce
        <3>3. task'[pending[i + 1]] = task[pending[i + 1]]
            BY <1>2, <2>1, <3>2 DEF TasksAre
        <3>4. \A k \in DOMAIN pending' : pending'[k] = pending'[i] => k + 1 = i + 1
            BY <3>1, <3>2
        <3> QED
            BY <3>1, <3>2, <3>3, <3>4
    <2>5. /\ task'[j].at = "new" /\ \A k \in Jobs \ {j} : task'[k] = task[k]
        BY <2>1 DEF TasksAre
    <2>6. StateFits' /\ KindFits' /\ LockHeld'
        BY <2>2, <2>3, <2>5 DEF RunInv, StateFits, KindFits, LockHeld, Kind, Early, Mid, Late, Holding
    <2>7. AskedHasTask' /\ DownHasNoTasks' /\ CancelsHaveRows'
        BY <1>1, <2>2, <2>5 DEF RunInv, AskedHasTask, DownHasNoTasks, CancelsHaveRows, TypeInv, TypeOK, Ids
    <2>8. Accounted'
        <3>1. \A k \in Jobs : InPending(k) /\ k # j => InPending(k)'
            BY <1>1, <2>1, QueueEnds
        <3>2. j \in Running' /\ \A k \in Jobs \ {j} : k \in Running => k \in Running'
            BY <2>5 DEF Running
        <3> QED
            BY <1>2, <2>2, <3>1, <3>2 DEF RunInv, Accounted, Active, Ids
    <2> QED
        BY <1>1, <2>4, <2>6, <2>7, <2>8 DEF RunInv
<1>23. CASE Crash
    <2>1. \A j \in Jobs : task'[j].at = "none"
        BY <1>1, <1>23, Crashing
    <2>2. /\ pending' = <<>> /\ DOMAIN pending' = {} /\ asked' = {} /\ process' = "down" /\ UNCHANGED job
          /\ \A h \in Handlers : handler'[h] = Idle
        BY <1>23 DEF Crash
    <2>3. PendingOnce' /\ AskedHasTask' /\ DownHasNoTasks' /\ CancelsHaveRows' /\ Accounted'
        BY <2>1, <2>2 DEF PendingOnce, AskedHasTask, DownHasNoTasks, CancelsHaveRows, Accounted, Idle
    <2>4. StateFits' /\ KindFits' /\ LockHeld'
        BY <2>1 DEF StateFits, KindFits, LockHeld, Early, Mid, Late, Holding
    <2> QED
        BY <1>1, <2>3, <2>4 DEF RunInv
<1>24. CASE Start
    <2>1. process = "down" /\ process' = "up" /\ UNCHANGED <<task, lock, asked, handler>>
        BY <1>24 DEF Start
    <2>2. (\A j \in Jobs : task[j].at = "none") /\ \A h \in Handlers : handler[h] = Idle
        BY <2>1 DEF RunInv, DownHasNoTasks
    <2>3. /\ DOMAIN job' = Ids
          /\ \A k \in Ids : job'[k].state = IF Active(k) THEN "queued" ELSE job[k].state
          /\ pending' \in Seq(Requeued) /\ Covers(pending', Requeued)
          /\ \A i, k \in DOMAIN pending' : pending'[i] = pending'[k] => i = k
        BY <1>1, <1>24, Starting
    <2>4. PendingOnce'
        <3>1. ASSUME NEW i \in DOMAIN pending' PROVE pending'[i] \in Ids /\ Active(pending'[i])
            BY <2>3 DEF Requeued
        <3> QED
            BY <1>2, <2>1, <2>2, <2>3, <3>1 DEF PendingOnce, Ids
    <2>5. StateFits' /\ KindFits' /\ LockHeld' /\ AskedHasTask' /\ DownHasNoTasks' /\ CancelsHaveRows'
        BY <1>1, <2>1, <2>2 DEF StateFits, KindFits, LockHeld, AskedHasTask, DownHasNoTasks, CancelsHaveRows, Idle,
            Early, Mid, Late, Holding, RunInv
    <2>6. Accounted'
        <3> SUFFICES ASSUME NEW k \in Ids, job'[k].state \in {"queued", "processing"} PROVE InPending(k)'
            BY <2>3 DEF Accounted, Active, Ids
        <3>1. Active(k)
            BY <2>3 DEF Active
        <3> QED
            BY <2>3, <3>1 DEF Covers, Requeued, InPending
    <2> QED
        BY <1>1, <2>4, <2>5, <2>6 DEF RunInv
<1> QED
    BY <1>4, <1>5, <1>6, <1>7, <1>8, <1>9, <1>10, <1>11, <1>12, <1>13, <1>14, <1>15, <1>16, <1>17, <1>18, <1>19,
        <1>20, <1>21, <1>22, <1>23, <1>24 DEF Next, Advance

\* The type invariant, and what it needs, hold throughout.
LEMMA RunInvariant == Spec => []RunInv
BY InitRun, NextKeepsRun, PTL DEF Spec

\* Every variable keeps its type: a queue of at most MaxJobs rows, scenes and
\* tasks with the states the code knows.
THEOREM TypeCorrect == Spec => []TypeOK
<1>1. RunInv => TypeOK
    BY DEF RunInv, TypeInv
<1> QED
    BY <1>1, RunInvariant, PTL

---------------------------------------------------------------------------
(* A title that looks busy has a scan *)

\* A scan that has yet to say how it went.
LiveScan(k) == Kind(k) = "scan" /\ Active(k) /\ task[k].at \notin Late
Busy == {"queued", "scanning"}
BusyHasScan == process = "up" /\ scan \in Busy => \E k \in Ids : LiveScan(k)
BusyInv == RunInv /\ BusyHasScan

\* A step of job j: it is no live scan, or stays one, or the title says how the
\* scan went.
LEMMA WentKeepsBusy ==
    ASSUME BusyInv, NEW j \in Ids, NEW at, NEW s, Went(j, at, s), process' = process,
           \/ scan' \notin Busy
           \/ scan' = scan /\ ~LiveScan(j)
           \/ Kind(j) = "scan" /\ at \notin Late /\ s \in {"queued", "processing"}
           \/ scan' = scan /\ at \notin Late /\ s = job[j].state
    PROVE  BusyHasScan'
<1>1. /\ Ids \in SUBSET Jobs /\ DOMAIN job' = Ids
      /\ job'[j].state = s /\ task'[j].at = at /\ (\A k \in Ids : job'[k].kind = job[k].kind)
      /\ \A k \in Ids \ {j} : job'[k] = job[k] /\ task'[k] = task[k]
    BY IdsAreJobs DEF BusyInv, RunInv, Went, RowsAre, TasksAre
<1>2. \A k \in Ids \ {j} : LiveScan(k) => LiveScan(k)'
    BY <1>1 DEF LiveScan, Kind, Active
<1>3. CASE scan' = scan /\ ~LiveScan(j)
    BY <1>1, <1>2, <1>3 DEF BusyInv, BusyHasScan, Ids
<1>4. CASE Kind(j) = "scan" /\ at \notin Late /\ s \in {"queued", "processing"}
    <2>1. LiveScan(j)'
        BY <1>1, <1>4 DEF LiveScan, Kind, Active, Late
    <2> QED
        BY <1>1, <2>1 DEF BusyHasScan, Ids
<1>5. CASE scan' = scan /\ at \notin Late /\ s = job[j].state
    <2>1. LiveScan(j) => LiveScan(j)'
        BY <1>1, <1>5 DEF LiveScan, Kind, Active, Late
    <2> QED
        BY <1>1, <1>2, <1>5, <2>1 DEF BusyInv, BusyHasScan, Ids
<1> QED
    BY <1>3, <1>4, <1>5 DEF BusyHasScan

\* A step that adds a row.
LEMMA GrowthKeepsBusy ==
    ASSUME BusyInv, NEW k, RowsGrow(job, k), process' = process, k # "scan" => scan' = scan,
           \A i \in Jobs : task'[i] = task[i] \/ (task[i].at \in Late /\ i \in Ids)
    PROVE  BusyHasScan'
<1>1. PICK n \in Jobs :
         /\ n \notin Ids /\ DOMAIN job' = Ids \cup {n}
         /\ job'[n].kind = k /\ job'[n].state = "queued" /\ (\A i \in Ids : job'[i] = job[i])
         /\ Ids \in SUBSET Jobs
    BY IdsAreJobs DEF BusyInv, RunInv, RowsGrow
<1>2. task'[n].at = "none"
    BY <1>1 DEF BusyInv, RunInv, TypeInv, TasksHaveRows
<1>3. CASE k = "scan"
    <2>1. LiveScan(n)'
        BY <1>1, <1>2, <1>3 DEF LiveScan, Kind, Active, Late
    <2> QED
        BY <1>1, <2>1 DEF BusyHasScan, Ids
<1>4. CASE k # "scan"
    <2>1. \A i \in Ids : LiveScan(i) => LiveScan(i)'
        BY <1>1 DEF LiveScan, Kind, Active, Late
    <2> QED
        BY <1>1, <1>4, <2>1 DEF BusyInv, BusyHasScan, Ids
<1> QED
    BY <1>3, <1>4

\* Every step keeps it.
LEMMA NextKeepsBusy == BusyInv /\ [Next]_vars => BusyInv'
<1> SUFFICES ASSUME BusyInv, [Next]_vars PROVE BusyInv'
    OBVIOUS
<1>1. RunInv /\ RunInv' /\ TypeInv
    BY NextKeepsRun DEF BusyInv, RunInv
<1> SUFFICES BusyHasScan'
    BY <1>1 DEF BusyInv
<1>2. Ids \in SUBSET Jobs
    BY <1>1, IdsAreJobs
<1> USE DEF settings, server
<1>3. ASSUME NEW j \in Jobs, Begin(j) PROVE BusyHasScan'
    <2>1. /\ j \in Ids
          /\ \/ job[j].state = "cancelled" /\ Went(j, "over", "cancelled")
             \/ Went(j, "starting", job[j].state)
        BY <1>1, <1>3, Beginning
    <2>2. UNCHANGED <<process, scan>>
        BY <1>3 DEF Begin
    <2> QED
        BY <2>1, <2>2, WentKeepsBusy DEF Late
<1>4. ASSUME NEW j \in Jobs, Started(j) PROVE BusyHasScan'
    <2>1. j \in Ids /\ Went(j, "waiting", "processing")
        BY <1>1, <1>4, Beginning
    <2>2. process' = process /\ (Kind(j) # "scan" => scan' = scan)
        BY <1>4 DEF Started
    <2>3. CASE Kind(j) = "scan"
        BY <2>1, <2>2, <2>3, WentKeepsBusy DEF Late
    <2>4. CASE Kind(j) # "scan"
        BY <2>1, <2>2, <2>4, WentKeepsBusy DEF LiveScan
    <2> QED
        BY <2>3, <2>4
<1>5. ASSUME NEW j \in Jobs, Acquire(j) \/ Load(j) \/ ScanStore(j) PROVE BusyHasScan'
    <2>1. /\ j \in Ids
          /\ \E at \in {"working", "loaded", "stored"} : Went(j, at, job[j].state)
        BY <1>1, <1>5, Beginning, Scanning
    <2>2. UNCHANGED <<scan, process>>
        BY <1>5 DEF Acquire, Load, ScanStore
    <2> QED
        BY <2>1, <2>2, WentKeepsBusy DEF Late
<1>6. ASSUME NEW j \in Jobs, ScanReport(j) PROVE BusyHasScan'
    <2>1. /\ j \in Ids /\ \E at, s : Went(j, at, s)
        BY <1>1, <1>6, Scanning
    <2>2. process' = process /\ scan' \notin Busy
        BY <1>6 DEF ScanReport, Found, Busy
    <2> QED
        BY <2>1, <2>2, WentKeepsBusy
<1>7. ASSUME NEW j \in Jobs, ChainCheck(j) \/ ScanDone(j) PROVE BusyHasScan'
    <2>1. /\ j \in Ids /\ task[j].at \in Late /\ \E at, s : Went(j, at, s)
        BY <1>1, <1>7, Scanning DEF Late
    <2>2. UNCHANGED <<scan, process>>
        BY <1>7 DEF ChainCheck, ScanDone
    <2> QED
        BY <2>1, <2>2, WentKeepsBusy DEF LiveScan
<1>8. ASSUME NEW j \in Jobs, BlurPublish(j) \/ BlurRecord(j) \/ ClaudeVerdict(j) \/ ClaudeDone(j) PROVE BusyHasScan'
    <2>1. /\ j \in Ids /\ \E at, s : Went(j, at, s)
          /\ Kind(j) # "scan"
        BY <1>1, <1>8, Blurring DEF RunInv, KindFits
    <2>2. UNCHANGED <<scan, process>>
        BY <1>8 DEF BlurPublish, BlurRecord, ClaudeVerdict, ClaudeDone
    <2> QED
        BY <2>1, <2>2, WentKeepsBusy DEF LiveScan
<1>9. ASSUME NEW j \in Jobs, Fail(j) PROVE BusyHasScan'
    <2>1. j \in Ids /\ Went(j, "over", "failed")
        BY <1>1, <1>9, Ending
    <2>2. process' = process /\ scan' = IF Kind(j) = "scan" THEN "scan_failed" ELSE scan
        BY <1>9 DEF Fail
    <2> QED
        BY <2>1, <2>2, WentKeepsBusy DEF LiveScan, Busy
<1>10. ASSUME NEW j \in Jobs, Cancel(j) PROVE BusyHasScan'
    <2>1. task[j].at # "none" /\ process' = process
        BY <1>1, <1>10 DEF Cancel, RunInv, AskedHasTask
    <2>2. CASE UNCHANGED <<job, scan, scene, task, lock>>
        BY <2>1, <2>2 DEF BusyInv, BusyHasScan, LiveScan, Kind, Active, Ids
    <2>3. CASE /\ j \in Ids /\ Went(j, "over", "cancelled")
               /\ scan' = IF Kind(j) = "scan" THEN "not_scanned" ELSE scan
        BY <2>1, <2>3, WentKeepsBusy DEF LiveScan, Busy
    <2> QED
        BY <1>1, <1>10, <2>1, <2>2, <2>3, Ending
<1>11. ASSUME NEW j \in Jobs, Lose(j) PROVE BusyHasScan'
    <2>1. j \in Ids /\ Went(j, "over", job[j].state)
        BY <1>1, <1>11, Ending
    <2>2. UNCHANGED <<scan, process>>
        BY <1>11 DEF Lose
    <2> QED
        BY <2>1, <2>2, WentKeepsBusy DEF Late
<1>12. ASSUME NEW h \in Handlers, CancelQueued(h) PROVE BusyHasScan'
    <2>1. PICK j \in Ids : j = handler[h].job
        BY <1>1, <1>12 DEF CancelQueued, RunInv, CancelsHaveRows
    <2>2. /\ RowsAre(j, "cancelled") /\ UNCHANGED <<task, process>>
          /\ scan' = IF Kind(j) = "scan" THEN "not_scanned" ELSE scan
        BY <1>1, <1>12, <2>1, Cancelling DEF CancelQueued
    <2>3. DOMAIN job' = Ids /\ \A k \in Ids \ {j} : LiveScan(k) => LiveScan(k)'
        BY <2>2 DEF RowsAre, LiveScan, Kind, Active
    <2> QED
        BY <2>2, <2>3 DEF BusyInv, BusyHasScan, Busy, LiveScan, Ids
<1>13. ASSUME NEW j \in Jobs, ChainEnqueues(j) PROVE BusyHasScan'
    <2>1. /\ j \in Ids /\ task[j].at \in Late /\ TasksAre(j, "finishing")
        BY <1>1, <1>13, Scanning DEF Late
    <2>2. Enqueued("blur") /\ "blur" \in Kinds /\ process' = process
        BY <1>13 DEF ChainEnqueues, Kinds
    <2>3. RowsGrow(job, "blur") /\ scan' = scan
        BY <1>1, <2>2, RowAppended
    <2> QED
        BY <2>1, <2>2, <2>3, GrowthKeepsBusy DEF TasksAre
<1>14. ASSUME NEW j \in Jobs, ChainStrands(j) PROVE BusyHasScan'
    <2>1. scan' \in {"scan_failed", "not_scanned"}
        BY <1>1, <1>14, Stranding
    <2> QED
        BY <2>1 DEF BusyHasScan, Busy
<1>15. ASSUME NEW h \in Handlers, ClickEnqueues(h) \/ ClickStrands(h) PROVE BusyHasScan'
    <2>1. PICK k \in Kinds : Enqueued(k) \/ Inserted(k)
        BY <1>15 DEF ClickEnqueues, ClickStrands, Enqueues
    <2>2. RowsGrow(job, k) /\ (k # "scan" => scan' = scan)
        BY <1>1, <2>1, RowAppended, RowInserted
    <2>3. UNCHANGED <<task, process>>
        BY <1>15 DEF ClickEnqueues, ClickStrands
    <2> QED
        BY <2>2, <2>3, GrowthKeepsBusy
<1>16. CASE Dispatch
    <2>1. PICK j \in Jobs : TasksAre(j, "new")
        BY <1>1, <1>16, Dispatching
    <2>2. UNCHANGED <<job, scan, process>>
        BY <1>16 DEF Dispatch
    <2>3. \A k \in Ids : LiveScan(k) => LiveScan(k)'
        BY <1>2, <2>1, <2>2 DEF TasksAre, LiveScan, Kind, Active, Late
    <2> QED
        BY <2>2, <2>3 DEF BusyInv, BusyHasScan, Ids
<1>17. CASE Crash
    BY <1>17 DEF Crash, BusyHasScan
<1>18. CASE Start
    <2>1. /\ process = "down" /\ scan' = Reconciled /\ task' = task
        BY <1>18 DEF Start
    <2>2. \A j \in Jobs : task[j].at = "none"
        BY <1>1, <2>1 DEF RunInv, DownHasNoTasks
    <2>3. /\ DOMAIN job' = Ids
          /\ \A k \in Ids : /\ job'[k].kind = job[k].kind
                            /\ job'[k].state = IF Active(k) THEN "queued" ELSE job[k].state
        BY <1>1, <1>18, Starting
    <2>4. scan' \in Busy => ActiveOf("scan") # {}
        BY <2>1 DEF Reconciled, Busy
    <2>5. ASSUME NEW k \in ActiveOf("scan") PROVE k \in Ids /\ LiveScan(k)'
        BY <1>2, <2>1, <2>2, <2>3 DEF ActiveOf, LiveScan, Kind, Active, Late
    <2> QED
        BY <2>3, <2>4, <2>5 DEF BusyHasScan, Ids
<1>19. ASSUME \/ \E j \in Jobs : AskCancel(j)
              \/ \E h \in Handlers, k \in Kinds : Click(h, k)
              \/ \E h \in Handlers, j \in Jobs : FindQueued(h, j)
              \/ \E s \in Scenes : Review(s, "approved") \/ Review(s, "rejected") \/ AddManual(s)
              \/ ToggleAuto \/ UNCHANGED vars
       PROVE  BusyHasScan'
    <2>1. UNCHANGED <<job, scan, task, process>>
        BY <1>19 DEF AskCancel, Click, FindQueued, Review, AddManual, ToggleAuto, vars
    <2> QED
        BY <2>1 DEF BusyInv, BusyHasScan, LiveScan, Kind, Active, Ids
<1> QED
    BY <1>3, <1>4, <1>5, <1>6, <1>7, <1>8, <1>9, <1>10, <1>11, <1>12, <1>13, <1>14, <1>15, <1>16, <1>17, <1>18,
        <1>19 DEF Next, Advance

\* While the server is up, a title that says it is queued or being scanned has an
\* unfinished scan on the queue or at work, or one that a database call left
\* behind, whichever of its jobs ran, died or was cancelled, and however a
\* request's cancel raced the start of the task.
THEOREM StatusHasScan == Spec => []BusyStatusHasScan
<1>1. Init => BusyInv
    BY InitRun DEF Init, BusyInv, BusyHasScan
<1>2. BusyInv => BusyStatusHasScan
    BY DEF BusyInv, RunInv, Accounted, BusyHasScan, BusyStatusHasScan, LiveScan, ActiveOf, Kind, Busy
<1> QED
    BY <1>1, <1>2, NextKeepsBusy, PTL DEF Spec

---------------------------------------------------------------------------
(* What a scan approved is baked *)

\* A scene a scan approved is approved still, and its scan found something.
ByIsApproved ==
    \A s \in Scenes : scene[s].by # 0 =>
        /\ scene[s].status = "approved" /\ hits > 0
        /\ scene[s].by \in Ids /\ Kind(scene[s].by) = "scan"

\* The lock keeps a scan from storing scenes between what a blur loads and what
\* it publishes.
LoadedIsFresh ==
    \A b \in Jobs : task[b].at = "loaded" /\ Kind(b) = "blur" =>
        \A s \in Scenes : scene[s].by # 0 => task[b].seen[s] = "approved"
AllBaked == \A s \in Scenes : scene[s].by # 0 => s \in edit
PublishedIsBaked == \A b \in Jobs : task[b].at = "published" => AllBaked

\* A job that is not done has yet to see to the scenes, or died of them: a scan up
\* to where its blur is enqueued, a blur up to its rename.
Sees(j)     == job[j].state # "done" /\ task[j].at \notin {"finishing", "published"}
Stake(j, s) == Kind(j) = "blur" \/ j = scene[s].by
DueIsOwed   ==
    \A s \in Scenes : scene[s].by # 0 /\ s \notin edit => \E j \in Ids : Stake(j, s) /\ Sees(j)

AutoInv == RunInv /\ ByIsApproved /\ LoadedIsFresh /\ PublishedIsBaked /\ DueIsOwed

\* The strengthening gives the property.
LEMMA OwedIsBaked == AutoInv => AutoIsBaked
BY DEF AutoInv, DueIsOwed, Stake, Sees, AutoIsBaked, Due, Excuses

LEMMA InitAuto == Init => AutoInv
<1> SUFFICES ASSUME Init PROVE AutoInv
    OBVIOUS
<1>1. \A s \in Scenes : scene[s].by = 0
    BY NoSceneType DEF Init
<1> QED
    BY <1>1, InitRun DEF AutoInv, ByIsApproved, LoadedIsFresh, PublishedIsBaked, AllBaked, DueIsOwed

\* A step that neither loads nor publishes for a blur, and approves nothing.
LEMMA FreshStays ==
    ASSUME AutoInv, NoneNewlyBy, edit' = edit,
           \A b \in Jobs : task'[b].at = "loaded" /\ Kind(b)' = "blur" =>
                \/ task[b].at = "loaded" /\ Kind(b) = "blur" /\ task'[b].seen = task[b].seen
                \/ \A s \in Scenes : scene'[s].by # 0 => task'[b].seen[s] = "approved",
           \A b \in Jobs : task'[b].at = "published" => task[b].at = "published"
    PROVE  LoadedIsFresh' /\ PublishedIsBaked'
<1>1. \A s \in Scenes : scene'[s].by # 0 => scene[s].by # 0
    BY DEF NoneNewlyBy
<1>2. LoadedIsFresh'
    BY <1>1 DEF AutoInv, LoadedIsFresh
<1>3. PublishedIsBaked'
    BY <1>1 DEF AutoInv, PublishedIsBaked, AllBaked
<1> QED
    BY <1>2, <1>3

\* A step after which a job that saw to a scene still does, or a blur does.
LEMMA OwedStays ==
    ASSUME AutoInv, NoneNewlyBy, edit' = edit, hits' = hits,
           \A i \in Ids : i \in Ids' /\ Kind(i)' = Kind(i),
           \/ AllBaked
           \/ \E n \in Ids' : Kind(n)' = "blur" /\ Sees(n)'
           \/ \A i \in Ids, s \in Scenes : scene'[s].by # 0 /\ Stake(i, s) /\ Sees(i) => Sees(i)'
    PROVE  ByIsApproved' /\ DueIsOwed'
<1>1. \A s \in Scenes : scene'[s].by # 0 =>
        /\ scene'[s].by = scene[s].by /\ scene[s].by # 0
        /\ scene[s].status = "approved" => scene'[s].status = "approved"
    BY DEF NoneNewlyBy
<1>2. ByIsApproved'
    <2> SUFFICES ASSUME NEW s \in Scenes, scene'[s].by # 0
                 PROVE  /\ scene'[s].status = "approved" /\ hits' > 0
                        /\ scene'[s].by \in Ids' /\ (Kind(scene[s].by) = "scan")'
        BY DEF ByIsApproved
    <2>1. PICK j \in Ids : j = scene[s].by /\ scene[s].status = "approved" /\ hits > 0 /\ Kind(j) = "scan"
        BY <1>1 DEF AutoInv, ByIsApproved
    <2>2. j \in Ids' /\ Kind(j)' = "scan" /\ j = scene'[s].by
        BY <1>1, <2>1
    <2> QED
        BY <1>1, <2>1, <2>2 DEF Kind
<1>3. DueIsOwed'
    <2> SUFFICES ASSUME NEW s \in Scenes, scene'[s].by # 0, s \notin edit
                 PROVE  \E j \in Ids' : (Kind(j)' = "blur" \/ j = scene'[s].by) /\ Sees(j)'
        BY DEF DueIsOwed, Stake
    <2>1. PICK j \in Ids : Stake(j, s) /\ Sees(j)
        BY <1>1 DEF AutoInv, DueIsOwed
    <2>2. j \in Ids' /\ (Kind(j)' = "blur" \/ j = scene'[s].by)
        BY <1>1, <2>1 DEF Stake
    <2>3. ~AllBaked
        BY <1>1 DEF AllBaked
    <2> QED
        BY <2>1, <2>2, <2>3
<1> QED
    BY <1>2, <1>3

\* A step of job j, whose task has not just published.
LEMMA WentKeepsAuto ==
    ASSUME AutoInv, NEW j \in Ids, NEW at, NEW s, Went(j, at, s), NoneNewlyBy, UNCHANGED <<hits, edit>>,
           at # "published",
           at = "loaded" /\ Kind(j) = "blur" => \A c \in Scenes : scene'[c].by # 0 => task'[j].seen[c] = "approved",
           \/ AllBaked
           \/ ~Sees(j)
           \/ s # "done" /\ at # "finishing"
           \/ Kind(j) # "blur" /\ \A c \in Scenes : scene'[c].by # 0 => scene'[c].by # j
           \/ \E k \in Ids \ {j} : Kind(k) = "blur" /\ Sees(k)
    PROVE  ByIsApproved' /\ LoadedIsFresh' /\ PublishedIsBaked' /\ DueIsOwed'
<1>1. /\ Ids \in SUBSET Jobs /\ Ids' = Ids /\ (\A k \in Ids : Kind(k)' = Kind(k))
      /\ job'[j].state = s /\ task'[j].at = at
      /\ \A k \in Ids \ {j} : job'[k] = job[k]
      /\ \A k \in Jobs \ {j} : task'[k] = task[k]
    BY IdsAreJobs DEF AutoInv, RunInv, Went, RowsAre, TasksAre, Ids, Kind
<1>2. \A k \in Ids \ {j} : Sees(k) => Sees(k)'
    BY <1>1 DEF Sees
<1>3. LoadedIsFresh' /\ PublishedIsBaked'
    <2>1. \A b \in Jobs : task[b].at # "none" => b \in Ids
        BY DEF AutoInv, RunInv, TypeInv, TasksHaveRows
    <2>2. \A b \in Jobs : task'[b].at = "published" => task[b].at = "published"
        BY <1>1
    <2>3. ASSUME NEW b \in Jobs, task'[b].at = "loaded", Kind(b)' = "blur"
          PROVE  \/ task[b].at = "loaded" /\ Kind(b) = "blur" /\ task'[b].seen = task[b].seen
                 \/ \A c \in Scenes : scene'[c].by # 0 => task'[b].seen[c] = "approved"
        BY <1>1, <2>1, <2>3
    <2> QED
        BY <2>2, <2>3, FreshStays
<1>4. ByIsApproved' /\ DueIsOwed'
    <2>1. CASE AllBaked
        BY <1>1, <2>1, OwedStays
    <2>2. CASE \E k \in Ids \ {j} : Kind(k) = "blur" /\ Sees(k)
        <3>1. \E n \in Ids' : Kind(n)' = "blur" /\ Sees(n)'
            BY <1>1, <1>2, <2>2
        <3> QED
            BY <1>1, <3>1, OwedStays
    <2>3. CASE ~Sees(j) \/ (s # "done" /\ at # "finishing")
        <3>1. Sees(j) => Sees(j)'
            BY <1>1, <2>3 DEF Sees
        <3> QED
            BY <1>1, <1>2, <3>1, OwedStays
    <2>4. CASE Kind(j) # "blur" /\ \A c \in Scenes : scene'[c].by # 0 => scene'[c].by # j
        <3>1. \A c \in Scenes : scene'[c].by # 0 => ~Stake(j, c)
            BY <2>4 DEF Stake, NoneNewlyBy
        <3> QED
            BY <1>1, <1>2, <3>1, OwedStays
    <2> QED
        BY <1>1, <2>1, <2>2, <2>3, <2>4 DEF Sees
<1> QED
    BY <1>3, <1>4

\* A scan stores scenes under the lock, and has yet to see to them.
LEMMA StoreKeepsAuto ==
    ASSUME AutoInv, NEW j \in Jobs, ScanStore(j)
    PROVE  ByIsApproved' /\ LoadedIsFresh' /\ PublishedIsBaked' /\ DueIsOwed'
<1>1. /\ j \in Ids /\ task[j].at = "loaded" /\ Kind(j) = "scan" /\ Went(j, "stored", job[j].state)
      /\ UNCHANGED <<job, hits, edit>>
    BY Scanning DEF AutoInv, RunInv, ScanStore, settings
<1>2. task'[j].at = "stored" /\ \A k \in Jobs \ {j} : task'[k] = task[k]
    BY <1>1 DEF Went, TasksAre
<1>3. \A s \in Scenes : scene'[s].by # 0 =>
        \/ scene'[s] = scene[s]
        \/ scene'[s].status = "approved" /\ scene'[s].by = j /\ hits > 0
    BY StoredScenes DEF AutoInv, RunInv
<1>4. \A b \in Jobs : task'[b].at \notin {"loaded", "published"}
    BY <1>1, <1>2 DEF AutoInv, RunInv, LockHeld, Holding
<1>5. LoadedIsFresh' /\ PublishedIsBaked'
    BY <1>4 DEF LoadedIsFresh, PublishedIsBaked
<1>6. ByIsApproved'
    <2> SUFFICES ASSUME NEW s \in Scenes, scene'[s].by # 0
                 PROVE  /\ scene'[s].status = "approved" /\ hits > 0
                        /\ scene'[s].by \in Ids /\ job[scene'[s].by].kind = "scan"
        BY <1>1 DEF ByIsApproved, Kind, Ids
    <2>1. CASE scene'[s] = scene[s]
        BY <2>1 DEF AutoInv, ByIsApproved, Kind
    <2>2. CASE scene'[s].status = "approved" /\ scene'[s].by = j /\ hits > 0
        BY <1>1, <2>2 DEF Kind
    <2> QED
        BY <1>3, <2>1, <2>2
<1>7. DueIsOwed'
    <2>1. Sees(j)'
        <3>1. job[j].state \in {"processing", "cancelled"}
            BY <1>1 DEF AutoInv, RunInv, StateFits, Mid, Holding
        <3> QED
            BY <1>1, <1>2, <3>1 DEF Sees
    <2>2. \A i \in Ids : Sees(i) => Sees(i)'
        BY <1>1, <1>2, <2>1, IdsAreJobs DEF Sees, AutoInv, RunInv
    <2> SUFFICES ASSUME NEW s \in Scenes, scene'[s].by # 0, s \notin edit
                 PROVE  \E i \in Ids : (Kind(i) = "blur" \/ i = scene'[s].by) /\ Sees(i)'
        BY <1>1 DEF DueIsOwed, Stake, Kind, Ids
    <2>3. CASE scene'[s] = scene[s]
        BY <2>2, <2>3 DEF AutoInv, DueIsOwed, Stake
    <2>4. CASE scene'[s].by = j
        BY <1>1, <2>1, <2>4
    <2> QED
        BY <1>3, <2>3, <2>4
<1> QED
    BY <1>5, <1>6, <1>7

\* A blur publishes what it loaded, and that was all of it.
LEMMA PublishKeepsAuto ==
    ASSUME AutoInv, NEW j \in Jobs, BlurPublish(j)
    PROVE  ByIsApproved' /\ LoadedIsFresh' /\ PublishedIsBaked' /\ DueIsOwed'
<1>1. /\ j \in Ids /\ task[j].at = "loaded" /\ Kind(j) = "blur" /\ Went(j, "published", job[j].state)
      /\ UNCHANGED <<hits, scene, job>> /\ edit' = Seen(j, {"approved"})
    BY Blurring DEF AutoInv, RunInv, BlurPublish, settings
<1>2. task'[j].at = "published" /\ \A k \in Jobs \ {j} : task'[k] = task[k]
    BY <1>1 DEF Went, TasksAre
<1>3. AllBaked'
    BY <1>1 DEF AutoInv, LoadedIsFresh, AllBaked, Seen
<1>4. ByIsApproved'
    BY <1>1 DEF AutoInv, ByIsApproved, Kind, Ids
<1>5. LoadedIsFresh'
    BY <1>1, <1>2 DEF AutoInv, LoadedIsFresh, Kind
<1> QED
    BY <1>3, <1>4, <1>5 DEF PublishedIsBaked, DueIsOwed, AllBaked

\* A new row is a blur, which sees to the scenes, or takes nothing away.
LEMMA GrowthKeepsAuto ==
    ASSUME AutoInv, NEW old, NEW k, RowsGrow(old, k), UNCHANGED <<scene, edit, hits>>,
           \A i \in Ids : old[i].kind = job[i].kind,
           k = "blur" \/ (old = job /\ task' = task),
           \A i \in Jobs : \/ task'[i] = task[i]
                           \/ i \in Ids /\ task'[i].at \notin {"none", "loaded", "published"}
    PROVE  ByIsApproved' /\ LoadedIsFresh' /\ PublishedIsBaked' /\ DueIsOwed'
<1>1. PICK n \in Jobs :
        /\ n \notin Ids /\ Ids' = Ids \cup {n}
        /\ job'[n].kind = k /\ job'[n].state = "queued" /\ (\A i \in Ids : job'[i] = old[i])
    BY DEF RowsGrow, Ids
<1>2. \A i \in Ids : i \in Ids' /\ Kind(i)' = Kind(i)
    BY <1>1 DEF Kind
<1>3. NoneNewlyBy
    BY DEF NoneNewlyBy
<1>4. LoadedIsFresh' /\ PublishedIsBaked'
    <2>1. \A b \in Jobs : task[b].at # "none" => b \in Ids
        BY DEF AutoInv, RunInv, TypeInv, TasksHaveRows
    <2>2. ASSUME NEW b \in Jobs, task'[b].at = "loaded", Kind(b)' = "blur"
          PROVE  task[b].at = "loaded" /\ Kind(b) = "blur" /\ task'[b].seen = task[b].seen
        BY <1>2, <2>1, <2>2
    <2>3. \A b \in Jobs : task'[b].at = "published" => task[b].at = "published"
        OBVIOUS
    <2> QED
        BY <1>3, <2>2, <2>3, FreshStays
<1>5. CASE k = "blur"
    <2>1. task'[n].at = "none"
        BY <1>1 DEF AutoInv, RunInv, TypeInv, TasksHaveRows
    <2>2. \E i \in Ids' : Kind(i)' = "blur" /\ Sees(i)'
        BY <1>1, <1>5, <2>1 DEF Kind, Sees
    <2> QED
        BY <1>2, <1>3, <1>4, <2>2, OwedStays
<1>6. CASE old = job /\ task' = task
    <2>1. \A i \in Ids : Sees(i) => Sees(i)'
        BY <1>1, <1>6 DEF Sees
    <2> QED
        BY <1>2, <1>3, <1>4, <2>1, OwedStays
<1> QED
    BY <1>5, <1>6

\* A step that writes scenes only, and approves none in a scan's name.
LEMMA ScenesKeepAuto ==
    ASSUME AutoInv, NoneNewlyBy, UNCHANGED <<job, task, edit, hits>>
    PROVE  ByIsApproved' /\ LoadedIsFresh' /\ PublishedIsBaked' /\ DueIsOwed'
<1>1. (\A i \in Ids : i \in Ids' /\ Kind(i)' = Kind(i)) /\ \A i \in Ids : Sees(i) => Sees(i)'
    BY DEF Ids, Kind, Sees
<1>2. LoadedIsFresh' /\ PublishedIsBaked'
    BY FreshStays DEF Kind
<1> QED
    BY <1>1, <1>2, OwedStays

\* A step that loads and publishes nothing, and leaves scenes and rows at least
\* as unfinished as they were.
LEMMA RowsKeepAuto ==
    ASSUME AutoInv, UNCHANGED <<scene, edit, hits>>, Ids' = Ids,
           \A i \in Ids : job'[i].kind = job[i].kind /\ (job[i].state # "done" => job'[i].state # "done"),
           \A i \in Jobs : task'[i] = task[i] \/ task'[i].at \in {"none", "new"}
    PROVE  ByIsApproved' /\ LoadedIsFresh' /\ PublishedIsBaked' /\ DueIsOwed'
<1>1. Ids \in SUBSET Jobs /\ NoneNewlyBy
    BY IdsAreJobs DEF AutoInv, RunInv, NoneNewlyBy
<1>2. (\A i \in Ids : i \in Ids' /\ Kind(i)' = Kind(i)) /\ \A i \in Ids : Sees(i) => Sees(i)'
    BY <1>1 DEF Kind, Sees
<1>3. LoadedIsFresh' /\ PublishedIsBaked'
    <2>1. \A b \in Jobs : task[b].at # "none" => b \in Ids
        BY DEF AutoInv, RunInv, TypeInv, TasksHaveRows
    <2>2. ASSUME NEW b \in Jobs, task'[b].at = "loaded", Kind(b)' = "blur"
          PROVE  task[b].at = "loaded" /\ Kind(b) = "blur" /\ task'[b].seen = task[b].seen
        BY <1>2, <2>1, <2>2
    <2>3. \A b \in Jobs : task'[b].at = "published" => task[b].at = "published"
        OBVIOUS
    <2> QED
        BY <1>1, <2>2, <2>3, FreshStays
<1> QED
    BY <1>1, <1>2, <1>3, OwedStays

\* Every step keeps it.
LEMMA NextKeepsAuto == AutoInv /\ [Next]_vars => AutoInv'
<1> SUFFICES ASSUME AutoInv, [Next]_vars PROVE AutoInv'
    OBVIOUS
<1>1. RunInv /\ RunInv' /\ TypeInv
    BY NextKeepsRun DEF AutoInv, RunInv
<1> SUFFICES ByIsApproved' /\ LoadedIsFresh' /\ PublishedIsBaked' /\ DueIsOwed'
    BY <1>1 DEF AutoInv
<1>2. Ids \in SUBSET Jobs
    BY <1>1, IdsAreJobs
<1>3. scene' = scene => NoneNewlyBy
    BY DEF NoneNewlyBy
<1> DEFINE Kept == ByIsApproved' /\ LoadedIsFresh' /\ PublishedIsBaked' /\ DueIsOwed'
<1> USE DEF server, settings
<1>4. ASSUME NEW j \in Jobs, Begin(j) \/ Started(j) \/ Acquire(j) PROVE Kept
    <2>1. /\ j \in Ids
          /\ \/ job[j].state = "cancelled" /\ Went(j, "over", "cancelled")
             \/ task[j].at = "new" /\ Went(j, "starting", job[j].state)
             \/ Went(j, "waiting", "processing")
             \/ task[j].at = "waiting" /\ Went(j, "working", job[j].state)
        BY <1>1, <1>4, Beginning
    <2>2. UNCHANGED <<hits, scene, edit>>
        BY <1>4 DEF Begin, Started, Acquire
    <2>3. task[j].at \in {"new", "waiting"} => job[j].state # "done"
        BY <1>1 DEF RunInv, StateFits, Early, Mid
    <2> QED
        BY <1>3, <2>1, <2>2, <2>3, WentKeepsAuto
<1>5. ASSUME NEW j \in Jobs, Load(j) PROVE Kept
    <2>1. j \in Ids /\ task[j].at = "working" /\ Went(j, "loaded", job[j].state)
        BY <1>1, <1>5, Beginning
    <2>2. UNCHANGED <<hits, scene, edit>>
        BY <1>5 DEF Load
    <2>3. job[j].state # "done"
        BY <1>1, <2>1 DEF RunInv, StateFits, Mid, Holding
    <2>4. task'[j].seen = [s \in Scenes |-> scene[s].status]
        BY <1>1, <1>5 DEF Load, TypeInv, TypeOK
    <2>5. \A s \in Scenes : scene[s].by # 0 => task'[j].seen[s] = "approved"
        BY <2>4 DEF AutoInv, ByIsApproved
    <2> QED
        BY <1>3, <2>1, <2>2, <2>3, <2>5, WentKeepsAuto
<1>6. ASSUME NEW j \in Jobs, ScanReport(j) PROVE Kept
    <2>1. /\ j \in Ids /\ task[j].at = "stored"
          /\ \/ Chains /\ Went(j, "chaining", job[j].state)
             \/ ~Chains /\ Went(j, "over", "done")
        BY <1>1, <1>6, Scanning
    <2>2. UNCHANGED <<hits, edit>> /\ NoneNewlyBy /\ (~auto => \A s \in Scenes : scene'[s].by # j)
        BY <1>1, <1>6, ReportedScenes DEF ScanReport
    <2>3. job[j].state # "done" /\ Kind(j) = "scan"
        BY <1>1, <2>1 DEF RunInv, StateFits, KindFits, Mid
    <2>4. CASE Chains
        <3>1. Went(j, "chaining", job[j].state)
            BY <2>1, <2>4
        <3> QED
            BY <2>1, <2>2, <2>3, <3>1, WentKeepsAuto
    <2>5. CASE ~Chains
        <3>1. \A s \in Scenes : scene'[s].by # 0 => scene'[s].by # j
            BY <2>2, <2>5 DEF Chains, AutoInv, ByIsApproved, NoneNewlyBy
        <3> QED
            BY <2>1, <2>2, <2>3, <2>5, <3>1, WentKeepsAuto
    <2> QED
        BY <2>4, <2>5
<1>7. ASSUME NEW j \in Jobs, ChainCheck(j) PROVE Kept
    <2>1. /\ j \in Ids /\ task[j].at = "chaining"
          /\ \/ Went(j, "enqueuing", job[j].state)
             \/ ~NoneActive("blur") /\ Went(j, "finishing", job[j].state)
        BY <1>1, <1>7, Scanning
    <2>2. UNCHANGED <<hits, scene, edit>>
        BY <1>7 DEF ChainCheck
    <2>3. job[j].state # "done" /\ Kind(j) = "scan"
        BY <1>1, <2>1 DEF RunInv, StateFits, KindFits, Mid, Late
    <2>4. ~NoneActive("blur") => AllBaked \/ \E k \in Ids \ {j} : Kind(k) = "blur" /\ Sees(k)
        <3>1. ASSUME NEW b \in ActiveOf("blur") PROVE AllBaked \/ \E k \in Ids \ {j} : Kind(k) = "blur" /\ Sees(k)
            <4>1. b \in Ids /\ b \in Jobs /\ Kind(b) = "blur" /\ Active(b) /\ b # j
                BY <1>2, <2>3 DEF ActiveOf, Kind
            <4>2. CASE task[b].at = "published"
                BY <4>1, <4>2 DEF AutoInv, PublishedIsBaked
            <4>3. CASE task[b].at # "published"
                BY <1>1, <4>1, <4>3 DEF Sees, Active, RunInv, KindFits, Late
            <4> QED
                BY <4>2, <4>3
        <3> QED
            BY <3>1 DEF NoneActive
    <2>5. CASE Went(j, "enqueuing", job[j].state)
        BY <1>3, <2>1, <2>2, <2>3, <2>5, WentKeepsAuto
    <2>6. CASE ~NoneActive("blur") /\ Went(j, "finishing", job[j].state)
        BY <1>3, <2>1, <2>2, <2>4, <2>6, WentKeepsAuto
    <2> QED
        BY <2>1, <2>5, <2>6
<1>8. ASSUME NEW j \in Jobs, ScanDone(j) \/ ClaudeDone(j) \/ BlurRecord(j) PROVE Kept
    <2>1. /\ j \in Ids /\ Went(j, "over", "done")
          /\ task[j].at \in {"finishing", "published"} \/ Kind(j) = "claude_verify"
        BY <1>1, <1>8, Scanning, Blurring
    <2>2. UNCHANGED <<hits, edit>> /\ NoneNewlyBy
        BY <1>1, <1>3, <1>8, AppliedScenes DEF ScanDone, ClaudeDone, BlurRecord
    <2>3. CASE task[j].at \in {"finishing", "published"}
        BY <2>1, <2>2, <2>3, WentKeepsAuto DEF Sees
    <2>4. CASE Kind(j) = "claude_verify"
        <3>1. \A s \in Scenes : scene'[s].by # 0 => scene'[s].by # j
            BY <2>2, <2>4 DEF AutoInv, ByIsApproved, NoneNewlyBy
        <3> QED
            BY <2>1, <2>2, <2>4, <3>1, WentKeepsAuto
    <2> QED
        BY <2>1, <2>3, <2>4
<1>9. ASSUME NEW j \in Jobs, ClaudeVerdict(j) PROVE Kept
    <2>1. /\ j \in Ids /\ task[j].at = "loaded" /\ Kind(j) = "claude_verify" /\ Went(j, "loaded", job[j].state)
        BY <1>1, <1>9, Blurring
    <2>2. NoneNewlyBy
        <3>1. PICK s \in task[j].todo, verdict \in {"approved", "rejected", "failed"} :
                scene' = IF verdict \in {"failed", task[j].seen[s]} THEN scene
                         ELSE [scene EXCEPT ![s].status = verdict, ![s].by = 0]
            BY <1>9 DEF ClaudeVerdict
        <3>2. s \in Scenes
            BY <1>1 DEF TypeInv, TypeOK
        <3>3. CASE verdict = "failed"
            BY <1>3, <3>1, <3>3
        <3>4. CASE verdict # "failed"
            <4>1. verdict \in Status
                BY <3>4 DEF Status
            <4> QED
                BY <1>1, <3>1, <3>2, <4>1, OneScene
        <3> QED
            BY <3>3, <3>4
    <2>3. UNCHANGED <<hits, edit>>
        BY <1>9 DEF ClaudeVerdict
    <2>4. job[j].state # "done"
        BY <1>1, <2>1 DEF RunInv, StateFits, Mid, Holding
    <2> QED
        BY <2>1, <2>2, <2>3, <2>4, WentKeepsAuto
<1>10. ASSUME NEW j \in Jobs, Fail(j) PROVE Kept
    <2>1. j \in Ids /\ Went(j, "over", "failed")
        BY <1>1, <1>10, Ending
    <2>2. UNCHANGED <<hits, scene, edit>>
        BY <1>10 DEF Fail
    <2> QED
        BY <1>3, <2>1, <2>2, WentKeepsAuto
<1>11. ASSUME NEW j \in Jobs, Cancel(j) PROVE Kept
    <2>1. task[j].at # "none" /\ UNCHANGED <<hits, edit>>
        BY <1>1, <1>11 DEF Cancel, RunInv, AskedHasTask
    <2>2. CASE UNCHANGED <<job, scan, scene, task, lock>>
        BY <1>3, <2>1, <2>2, ScenesKeepAuto
    <2>3. CASE j \in Ids /\ Went(j, "over", "cancelled")
        <3>1. NoneNewlyBy
            BY <1>1, <1>3, <1>11, AppliedScenes DEF Cancel
        <3> QED
            BY <2>1, <2>3, <3>1, WentKeepsAuto
    <2> QED
        BY <1>1, <1>11, <2>1, <2>2, <2>3, Ending
<1>12. ASSUME NEW j \in Jobs, Lose(j) PROVE Kept
    <2>1. j \in Ids /\ task[j].at \notin {"none", "over"} /\ Went(j, "over", job[j].state)
        BY <1>1, <1>12, Ending
    <2>2. UNCHANGED <<hits, edit>> /\ NoneNewlyBy
        BY <1>1, <1>12, AppliedScenes DEF Lose
    <2>3. job[j].state # "done"
        BY <1>1, <1>2, <2>1 DEF RunInv, StateFits, Early, Mid, Late, Holding, TypeInv, TypeOK, Steps
    <2> QED
        BY <2>1, <2>2, <2>3, WentKeepsAuto
<1>13. ASSUME NEW h \in Handlers, CancelQueued(h) PROVE Kept
    <2>1. PICK j \in Ids : j = handler[h].job
        BY <1>1, <1>13 DEF CancelQueued, RunInv, CancelsHaveRows
    <2>2. RowsAre(j, "cancelled") /\ UNCHANGED <<task, scene, edit, hits>>
        BY <1>1, <1>13, <2>1, Cancelling DEF CancelQueued
    <2>3. /\ Ids' = Ids
          /\ \A i \in Ids : job'[i].kind = job[i].kind /\ (job[i].state # "done" => job'[i].state # "done")
        BY <2>2 DEF RowsAre, Ids
    <2> QED
        BY <2>2, <2>3, RowsKeepAuto
<1>14. ASSUME NEW j \in Jobs, ChainEnqueues(j) PROVE Kept
    <2>1. j \in Ids /\ TasksAre(j, "finishing") /\ Enqueued("blur") /\ UNCHANGED <<scene, edit, hits>>
        BY <1>1, <1>14, Scanning DEF ChainEnqueues
    <2>2. RowsGrow(job, "blur")
        BY <1>1, <2>1, RowAppended DEF Kinds
    <2> QED
        BY <2>1, <2>2, GrowthKeepsAuto DEF TasksAre
<1>15. ASSUME NEW j \in Jobs, ChainStrands(j) PROVE Kept
    <2>1. j \in Ids /\ TasksAre(j, "over") /\ UNCHANGED <<scene, edit, hits>>
        BY <1>1, <1>15, Stranding DEF ChainStrands
    <2>2. PICK old : RowsGrow(old, "blur") /\ \A i \in Ids : old[i].kind = job[i].kind
        BY <1>1, <1>15, Stranding
    <2> QED
        BY <2>1, <2>2, GrowthKeepsAuto DEF TasksAre
<1>16. ASSUME NEW h \in Handlers, ClickEnqueues(h) \/ ClickStrands(h) PROVE Kept
    <2>1. PICK k \in Kinds : Enqueued(k) \/ Inserted(k)
        BY <1>16 DEF ClickEnqueues, ClickStrands, Enqueues
    <2>2. RowsGrow(job, k)
        BY <1>1, <2>1, RowAppended, RowInserted
    <2>3. UNCHANGED <<task, scene, edit, hits>>
        BY <1>16 DEF ClickEnqueues, ClickStrands
    <2> QED
        BY <2>2, <2>3, GrowthKeepsAuto
<1>17. ASSUME NEW s \in Scenes, Review(s, "approved") \/ Review(s, "rejected") \/ AddManual(s) PROVE Kept
    <2>1. UNCHANGED <<job, edit, hits, task>>
        BY <1>17 DEF Review, AddManual
    <2>2. NoneNewlyBy
        <3>1. CASE Review(s, "approved")
            BY <1>1, <3>1, OneScene DEF Review, Status
        <3>2. CASE Review(s, "rejected")
            BY <1>1, <3>2, OneScene DEF Review, Status
        <3>3. CASE AddManual(s)
            BY <1>1, <3>3, OneScene DEF AddManual, Status
        <3> QED
            BY <1>17, <3>1, <3>2, <3>3
    <2> QED
        BY <2>1, <2>2, ScenesKeepAuto
<1>18. CASE Dispatch
    <2>1. PICK j \in Jobs : TasksAre(j, "new")
        BY <1>1, <1>18, Dispatching
    <2>2. UNCHANGED <<job, scene, edit, hits>>
        BY <1>18 DEF Dispatch
    <2> QED
        BY <2>1, <2>2, RowsKeepAuto DEF TasksAre, Ids
<1>19. CASE Crash
    <2>1. \A j \in Jobs : task'[j].at = "none"
        BY <1>1, <1>19, Crashing
    <2>2. UNCHANGED <<job, scene, edit, hits>>
        BY <1>19 DEF Crash
    <2> QED
        BY <2>1, <2>2, RowsKeepAuto DEF Ids
<1>20. CASE Start
    <2>1. UNCHANGED <<task, scene, edit, hits>>
        BY <1>20 DEF Start
    <2>2. /\ Ids' = Ids
          /\ \A i \in Ids : job'[i].kind = job[i].kind /\ (job[i].state # "done" => job'[i].state # "done")
        BY <1>1, <1>20, Starting DEF Ids
    <2> QED
        BY <2>1, <2>2, RowsKeepAuto
<1>21. ASSUME \/ \E j \in Jobs : AskCancel(j)
              \/ \E h \in Handlers, k \in Kinds : Click(h, k)
              \/ \E h \in Handlers, j \in Jobs : FindQueued(h, j)
              \/ ToggleAuto \/ UNCHANGED vars
       PROVE  Kept
    <2>1. UNCHANGED <<job, scene, edit, hits, task>>
        BY <1>21 DEF AskCancel, Click, FindQueued, ToggleAuto, vars
    <2> QED
        BY <1>3, <2>1, ScenesKeepAuto
<1>22. ASSUME NEW j \in Jobs, ScanStore(j) PROVE Kept
    BY <1>22, StoreKeepsAuto
<1>23. ASSUME NEW j \in Jobs, BlurPublish(j) PROVE Kept
    BY <1>23, PublishKeepsAuto
<1> QED
    BY <1>4, <1>5, <1>6, <1>7, <1>8, <1>9, <1>10, <1>11, <1>12, <1>13, <1>14, <1>15, <1>16, <1>17, <1>18, <1>19,
        <1>20, <1>21, <1>22, <1>23 DEF Next, Advance

\* A scene that a scan approved, and nobody has touched since, is in the Edit file
\* or has a job that has yet to see to it or has visibly died, through the scan's
\* chaining, changes of the setting that no scan found off at its end, failing
\* database calls, crashes and a reviewer's own blurs: when its scan and every
\* blur are done, it is baked.
THEOREM ApprovedIsBaked == Spec => []AutoIsBaked
BY InitAuto, NextKeepsAuto, OwedIsBaked, PTL DEF Spec
=============================================================================
