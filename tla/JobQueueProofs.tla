--------------------------- MODULE JobQueueProofs ---------------------------
(* Theorems about JobQueue, for any number of jobs, titles and handlers. *)
EXTENDS JobQueue, TLAPS, FiniteSetTheorems

---------------------------------------------------------------------------
(* Lemmas about the operators of the model *)

\* An order of a finite set of jobs is a sequence of jobs, of just those jobs.
LEMMA OrdersAreSequences ==
    ASSUME NEW S \in SUBSET Jobs, NEW s \in Orders(S)
    PROVE  /\ s \in Seq(Jobs)
           /\ \A i \in DOMAIN s : s[i] \in S
<1>1. IsFiniteSet(S)
    BY JobQueueAssumption, FS_Subset
<1>2. Cardinality(S) \in Nat
    BY <1>1, FS_CardinalityType
<1>3. s \in [1..Cardinality(S) -> S]
    BY DEF Orders
<1> QED
    BY <1>2, <1>3

\* The outcome being saved is a state of a row and a status of a title.
LEMMA OutcomeType ==
    ASSUME NEW j \in Jobs, at[j] \in Saving
    PROVE  Outcome(j) \in FinishedStates /\ Outcome(j) \in TitleStatuses
BY DEF Outcome, Saving, FinishedStates, TitleStatuses

---------------------------------------------------------------------------
(* The type invariant *)

\* A job without a row is nowhere: not in _pending, in no task, in no handler.
\* It is what makes the type invariant inductive: a task writes its row and
\* its title's status, and that needs a row with a title.
Known ==
    \A j \in Jobs : row[j] = NoRow =>
        /\ at[j] = "none"
        /\ \A i \in DOMAIN pending : pending[i] # j
        /\ \A h \in Handlers : call[h].job # j
TypeInv == TypeOK /\ Known

\* No job has a row before the first request.
LEMMA InitType == Init => TypeInv
BY JobQueueAssumption
DEF Init, TypeInv, TypeOK, Known, Row, TitleStatuses, TaskSteps, Call, Idle

\* A job that is somewhere has a row with a title.
LEMMA HasRow ==
    ASSUME TypeInv, NEW j \in Jobs,
           \/ at[j] # "none"
           \/ \E i \in DOMAIN pending : pending[i] = j
           \/ \E h \in Handlers : call[h].job = j
    PROVE  row[j] \in Saved /\ row[j].title \in Titles /\ status[row[j].title] \in TitleStatuses
BY DEF TypeInv, TypeOK, Known, Row, Saved

\* What a handler works on at each of its steps.
LEMMA HandlerWork ==
    ASSUME TypeInv, NEW h \in Handlers
    PROVE  /\ call[h].at \in {"put"} \cup CancelSteps => call[h].job \in Jobs
           /\ call[h].at \in {"put", "insert", "landing"} => call[h].title \in Titles
           /\ call[h].job \in Jobs => row[call[h].job] # NoRow
<1>1. call[h] \in Call
    BY DEF TypeInv, TypeOK
<1>2. CASE call[h] = Idle
    BY <1>2, JobQueueAssumption DEF Idle, CancelSteps
<1>3. CASE call[h] \in Inserting
    BY <1>3, JobQueueAssumption DEF Inserting, CancelSteps
<1>4. CASE call[h] \in Putting \cup Cancelling
    BY <1>4 DEF Putting, Cancelling, CancelSteps, TypeInv, Known
<1> QED
    BY <1>1, <1>2, <1>3, <1>4 DEF Call

\* Writing a row keeps the table well typed and forgets no row.
LEMMA WriteKeepsType ==
    ASSUME TypeInv, NEW j \in Jobs, row[j] \in Saved,
           NEW s \in ActiveStates \cup FinishedStates, NEW late \in BOOLEAN,
           SetRow(j, s, late)
    PROVE  /\ row' \in [Jobs -> Row]
           /\ \A k \in Jobs : row'[k] = NoRow => row[k] = NoRow
<1>1. [state |-> s, title |-> row[j].title, late |-> late /\ s = "processing"] \in Saved
    BY DEF Saved
<1>2. NoRow \notin Saved
    BY DEF NoRow, Saved, ActiveStates, FinishedStates
<1> QED
    BY <1>1, <1>2 DEF SetRow, TypeInv, TypeOK, Row

\* Handlers: each step of a request keeps the types.
LEMMA HandlersKeepType ==
    ASSUME TypeInv, NEW h \in Handlers, Request(h) \/ Handle(h) \/ HandlerRaises(h)
    PROVE  TypeInv'
<1> USE JobQueueAssumption DEF database, tasks, failures
<1> DEFINE CallType == call' \in [Handlers -> Call]
<1>1. ASSUME NEW t \in Titles, EnqueueIfNotActive(h, t) \/ EnqueueDirectly(h, t) PROVE TypeInv'
    <2>1. /\ Await(h, "insert", Nobody, t)
          /\ UNCHANGED <<row, status, pending, at, saw, unwinding, lock, process, lives, accepted, broken, unqueued>>
        BY <1>1 DEF EnqueueIfNotActive, EnqueueDirectly
    <2> QED
        BY <2>1 DEF TypeInv, TypeOK, Known, Await, Call, Inserting
<1>2. ASSUME NEW t \in Titles, CheckReplacement(h, t) PROVE TypeInv'
    BY <1>2 DEF TypeInv, TypeOK, Known, CheckReplacement, Await, Call, Inserting
<1>3. ASSUME NEW j \in Jobs, CancelJob(h, j) PROVE TypeInv'
    <2>1. row[j] # NoRow
        BY <1>3 DEF CancelJob, NoRow, ActiveStates
    <2> QED
        BY <1>3, <2>1 DEF TypeInv, TypeOK, Known, CancelJob, Await, Call, Cancelling, CancelSteps
<1>4. CASE InsertRow(h)
    <2> DEFINE new(j) == [state |-> "queued", title |-> call[h].title, late |-> FALSE]
    <2>1. PICK j \in Jobs : /\ row' = [row EXCEPT ![j] = new(j)]
                            /\ Await(h, "put", j, call[h].title)
        BY <1>4 DEF InsertRow
    <2>2. call[h].title \in Titles
        BY <1>4, HandlerWork DEF InsertRow
    <2>3. new(j) \in Saved /\ new(j) # NoRow
        BY <2>2 DEF Saved, ActiveStates, NoRow
    <2>4. row' \in [Jobs -> Row] /\ \A k \in Jobs : row'[k] = NoRow => row[k] = NoRow /\ k # j
        BY <2>1, <2>3 DEF TypeInv, TypeOK, Row
    <2>5. call' \in [Handlers -> Call] /\ \A g \in Handlers : call'[g].job \in {call[g].job, j}
        BY <2>1, <2>2 DEF TypeInv, TypeOK, Await, Call, Putting
    <2>6. status' \in [Titles -> TitleStatuses]
        BY <1>4, <2>2 DEF InsertRow, TypeInv, TypeOK, TitleStatuses
    <2> QED
        BY <1>4, <2>4, <2>5, <2>6 DEF TypeInv, TypeOK, Known, InsertRow
<1>5. CASE PutPending(h)
    <2>1. call[h].job \in Jobs /\ row[call[h].job] # NoRow
        BY <1>5, HandlerWork DEF PutPending
    <2>2. pending' \in Seq(Jobs) /\ \A i \in DOMAIN pending' : row[pending'[i]] # NoRow
        BY <1>5, <2>1 DEF PutPending, TypeInv, TypeOK, Known
    <2>3. call' \in [Handlers -> Call] /\ \A g \in Handlers : call'[g].job \in {call[g].job, Nobody}
        BY <1>5 DEF PutPending, Reply, TypeInv, TypeOK, Call, Idle
    <2> QED
        BY <1>5, <2>2, <2>3 DEF PutPending, TypeInv, TypeOK, Known
<1>6. CASE CheckRow(h) \/ ReadRow(h)
    <2>1. call[h].job \in Jobs
        BY <1>6, HandlerWork DEF CheckRow, ReadRow, CancelSteps
    <2>2. call' \in [Handlers -> Call] /\ \A g \in Handlers : call'[g].job \in {call[g].job, Nobody}
        BY <1>6, <2>1 DEF CheckRow, ReadRow, Reply, Await, TypeInv, TypeOK, Call, Idle, Cancelling, CancelSteps
    <2> QED
        BY <1>6, <2>2 DEF CheckRow, ReadRow, TypeInv, TypeOK, Known
<1>7. CASE CancelTask(h)
    <2>1. call[h].job \in Jobs
        BY <1>7, HandlerWork DEF CancelTask, CancelSteps
    <2>2. call' \in [Handlers -> Call] /\ \A g \in Handlers : call'[g].job \in {call[g].job, Nobody}
        BY <1>7 DEF CancelTask, Reply, TypeInv, TypeOK, Call, Idle
    <2> QED
        BY <1>7, <2>1, <2>2 DEF CancelTask, TypeInv, TypeOK, Known
<1>8. CASE WriteRow(h)
    <2> DEFINE j == call[h].job
    <2>1. j \in Jobs
        BY <1>8, HandlerWork DEF WriteRow, CancelSteps
    <2>2. row[j] \in Saved /\ row[j].title \in Titles
        BY <2>1, HasRow
    <2>3. row[j].late \in BOOLEAN
        BY <2>2 DEF Saved
    <2>4. SetRow(j, "cancelled", FALSE)
        BY <1>8 DEF WriteRow
    <2>5. row' \in [Jobs -> Row] /\ \A k \in Jobs : row'[k] = NoRow => row[k] = NoRow
        BY <2>1, <2>2, <2>3, <2>4, WriteKeepsType DEF FinishedStates
    <2>6. call' \in [Handlers -> Call] /\ \A g \in Handlers : call'[g].job \in {call[g].job, Nobody}
        BY <1>8 DEF WriteRow, Reply, TypeInv, TypeOK, Call, Idle
    <2>7. status' \in [Titles -> TitleStatuses]
        BY <1>8 DEF WriteRow, SetStatus, TypeInv, TypeOK, TitleStatuses
    <2> QED
        BY <1>8, <2>1, <2>5, <2>6, <2>7 DEF WriteRow, TypeInv, TypeOK, Known
<1>9. CASE ReplacementLanded(h)
    <2>1. call[h].title \in Titles
        BY <1>9, HandlerWork DEF ReplacementLanded
    <2>2. call' \in [Handlers -> Call] /\ \A g \in Handlers : call'[g].job \in {call[g].job, Nobody}
        BY <1>9, <2>1 DEF ReplacementLanded, Reply, Await, TypeInv, TypeOK, Call, Idle, Inserting
    <2>3. status' \in [Titles -> TitleStatuses]
        BY <1>9, <2>1 DEF ReplacementLanded, TypeInv, TypeOK, TitleStatuses
    <2> QED
        BY <1>9, <2>2, <2>3 DEF ReplacementLanded, TypeInv, TypeOK, Known
<1>10. CASE HandlerRaises(h)
    <2>1. broken' \in SUBSET Jobs /\ unqueued' \in SUBSET Titles
        BY <1>10, HandlerWork DEF HandlerRaises, TypeInv, TypeOK
    <2>2. call' \in [Handlers -> Call] /\ \A g \in Handlers : call'[g].job \in {call[g].job, Nobody}
        BY <1>10 DEF HandlerRaises, Reply, TypeInv, TypeOK, Call, Idle
    <2> QED
        BY <1>10, <2>1, <2>2 DEF HandlerRaises, TypeInv, TypeOK, Known
<1> QED
    BY <1>1, <1>2, <1>3, <1>4, <1>5, <1>6, <1>7, <1>8, <1>9, <1>10 DEF Request, Handle

\* The task of a job: each step of _run_job keeps the types.
LEMMA TasksKeepType ==
    ASSUME TypeInv, NEW j \in Jobs, Advance(j) \/ Unwind(j) \/ (j \notin unwinding /\ (Report(j) \/ TaskRaises(j)))
    PROVE  TypeInv'
<1> USE JobQueueAssumption DEF database, tasks, failures, TaskSteps, InsideTry, Heavy, Saving
<1>1. at[j] # "none"
    BY DEF Advance, Unwind, Report, TaskRaises, Load, Begin, Prepare, Acquire, Verify, Succeed, Fail, Save, Step
<1>2. row[j] \in Saved /\ row[j].title \in Titles /\ status[row[j].title] \in TitleStatuses
    BY <1>1, HasRow
<1>3. row[j].late \in BOOLEAN /\ row[j].state \in ActiveStates \cup FinishedStates
    BY <1>2 DEF Saved
<1>4. ASSUME CommitProcessing(j)
      PROVE  /\ row' \in [Jobs -> Row] /\ \A k \in Jobs : row'[k] = NoRow => row[k] = NoRow
             /\ status' \in [Titles -> TitleStatuses]
    <2>1. row' \in [Jobs -> Row] /\ \A k \in Jobs : row'[k] = NoRow => row[k] = NoRow
        BY <1>2, <1>4, WriteKeepsType DEF CommitProcessing, ActiveStates
    <2>2. status' \in [Titles -> TitleStatuses]
        BY <1>4 DEF CommitProcessing, SetStatus, TypeInv, TypeOK, TitleStatuses
    <2> QED
        BY <2>1, <2>2
<1>5. ASSUME at[j] \in Saving, CommitOutcome(j)
      PROVE  /\ row' \in [Jobs -> Row] /\ \A k \in Jobs : row'[k] = NoRow => row[k] = NoRow
             /\ status' \in [Titles -> TitleStatuses]
    <2>1. Outcome(j) \in FinishedStates /\ Outcome(j) \in TitleStatuses
        BY <1>5, OutcomeType
    <2>3. row' \in [Jobs -> Row] /\ \A k \in Jobs : row'[k] = NoRow => row[k] = NoRow
        BY <1>2, <1>5, <2>1, WriteKeepsType DEF CommitOutcome
    <2>4. status' \in [Titles -> TitleStatuses]
        BY <1>5, <2>1 DEF CommitOutcome, SetStatus, TypeInv, TypeOK
    <2> QED
        BY <2>3, <2>4
<1>6. CASE Load(j)
    BY <1>1, <1>2, <1>6 DEF Load, TaskEnds, TypeInv, TypeOK, Known
<1>7. CASE Begin(j)
    BY <1>1, <1>4, <1>7 DEF Begin, Step, TypeInv, TypeOK, Known
<1>8. CASE Prepare(j) \/ Acquire(j) \/ Succeed(j) \/ Fail(j)
    BY <1>1, <1>8 DEF Prepare, Acquire, Succeed, Fail, Step, LeaveLock, TypeInv, TypeOK, Known
<1>9. CASE Verify(j) \/ Report(j)
    <2>1. PICK late \in BOOLEAN : SetRow(j, row[j].state, late)
        BY <1>3, <1>9 DEF Verify, Report
    <2>2. row' \in [Jobs -> Row] /\ \A k \in Jobs : row'[k] = NoRow => row[k] = NoRow
        BY <1>2, <1>3, <2>1, WriteKeepsType
    <2>3. at' \in [Jobs -> TaskSteps] /\ \A k \in Jobs : at'[k] # "none" => at[k] # "none"
        BY <1>9 DEF Verify, Report, Step, TypeInv, TypeOK
    <2>4. UNCHANGED <<status, pending, saw, unwinding, lock, call, process, lives, accepted, broken, unqueued>>
        BY <1>9 DEF Verify, Report
    <2> QED
        BY <2>2, <2>3, <2>4 DEF TypeInv, TypeOK, Known
<1>10. CASE Save(j)
    BY <1>1, <1>5, <1>10 DEF Save, TaskEnds, TypeInv, TypeOK, Known
<1>11. CASE Unwind(j)
    <2>1. CASE TaskEnds(j) /\ UNCHANGED <<database, lock>>
        BY <1>1, <1>11, <2>1 DEF Unwind, TaskEnds, TypeInv, TypeOK, Known
    <2>2. CASE CommitProcessing(j) /\ TaskEnds(j) /\ UNCHANGED lock
        BY <1>1, <1>4, <1>11, <2>2 DEF Unwind, TaskEnds, TypeInv, TypeOK, Known
    <2>3. CASE at[j] \in Saving /\ CommitOutcome(j) /\ TaskEnds(j) /\ UNCHANGED lock
        BY <1>1, <1>5, <1>11, <2>3 DEF Unwind, TaskEnds, TypeInv, TypeOK, Known
    <2>4. CASE /\ at' = [at EXCEPT ![j] = "savingCancelled"]
               /\ LeaveLock(j)
               /\ unwinding' = unwinding \ {j}
               /\ UNCHANGED <<database, saw>>
        BY <1>1, <1>11, <2>4 DEF Unwind, LeaveLock, TypeInv, TypeOK, Known
    <2> QED
        BY <1>11, <2>1, <2>2, <2>3, <2>4 DEF Unwind
<1>12. CASE TaskRaises(j)
    BY <1>1, <1>12 DEF TaskRaises, TaskEnds, LeaveLock, TypeInv, TypeOK, Known
<1> QED
    BY <1>6, <1>7, <1>8, <1>9, <1>10, <1>11, <1>12 DEF Advance

\* Start, stop, crash and dispatch keep the types.
LEMMA ProcessKeepsType ==
    ASSUME TypeInv,
           \/ Dispatch \/ Stop \/ CancelLeftovers \/ Exit \/ Crash \/ Start
           \/ \E t \in Titles : RequestReplacement(t)
    PROVE  TypeInv'
<1> USE JobQueueAssumption DEF database, tasks, failures, TypeInv, TypeOK, Known
<1>1. ASSUME NEW t \in Titles, RequestReplacement(t) PROVE TypeInv'
    BY <1>1 DEF RequestReplacement, TitleStatuses
<1>2. CASE Dispatch
    <2>1. Head(pending) \in Jobs /\ row[Head(pending)] # NoRow
        BY <1>2 DEF Dispatch
    <2>2. pending' \in Seq(Jobs) /\ \A i \in DOMAIN pending' : row[pending'[i]] # NoRow
        BY <1>2 DEF Dispatch
    <2> QED
        BY <1>2, <2>1, <2>2 DEF Dispatch, TaskSteps
<1>3. CASE Stop \/ CancelLeftovers
    BY <1>3 DEF Stop, CancelLeftovers, Running
<1>4. CASE Exit \/ Crash
    <2>1. Vanish
        BY <1>4 DEF Exit, Crash
    <2>2. pending' \in Seq(Jobs) /\ DOMAIN pending' = {}
        BY <2>1 DEF Vanish
    <2>3. call' \in [Handlers -> Call] /\ \A h \in Handlers : call'[h].job = Nobody
        BY <2>1 DEF Vanish, Call, Idle
    <2> QED
        BY <2>1, <2>2, <2>3 DEF Vanish, TaskSteps
<1>5. CASE Start
    <2>1. pending' \in Seq(Jobs) /\ \A i \in DOMAIN pending' : pending'[i] \in Requeued
        BY <1>5, OrdersAreSequences DEF Start, Requeued
    <2>2. /\ row' \in [Jobs -> Row]
          /\ \A k \in Jobs : row'[k] = NoRow => row[k] = NoRow /\ k \notin Requeued
        <3>1. ASSUME NEW k \in Requeued
              PROVE  [state |-> "queued", title |-> row[k].title, late |-> FALSE] \in Saved
            <4>1. row[k] \in Row /\ row[k] # NoRow
                BY DEF Requeued, ActiveStates, NoRow
            <4>2. row[k] \in Saved
                BY <4>1 DEF Row
            <4> QED
                BY <4>2 DEF Saved, ActiveStates
        <3>2. NoRow \notin Saved
            BY DEF NoRow, Saved, ActiveStates, FinishedStates
        <3> QED
            BY <1>5, <3>1, <3>2 DEF Start, Row
    <2>3. status' \in [Titles -> TitleStatuses]
        BY <1>5 DEF Start, Reconciled, TitleStatuses
    <2>4. lives' \in 0..MaxLives
        BY <1>5 DEF Start
    <2> QED
        BY <1>5, <2>1, <2>2, <2>3, <2>4 DEF Start
<1> QED
    BY <1>1, <1>2, <1>3, <1>4, <1>5

\* Every step keeps the type invariant.
LEMMA NextKeepsType == TypeInv /\ [Next]_vars => TypeInv'
<1> SUFFICES ASSUME TypeInv, [Next]_vars PROVE TypeInv'
    OBVIOUS
<1>1. CASE Next
    BY <1>1, HandlersKeepType, TasksKeepType, ProcessKeepsType DEF Next
<1>2. CASE UNCHANGED vars
    BY <1>2 DEF vars, TypeInv, TypeOK, Known
<1> QED
    BY <1>1, <1>2

\* The type invariant holds throughout.
LEMMA TypeInvariant == Spec => []TypeInv
BY InitType, NextKeepsType, PTL DEF Spec

\* Every variable of the queue keeps its type: no task, handler or restart ever
\* works on a job that has no row, or on a row that has no title.
THEOREM TypeCorrect == Spec => []TypeOK
<1>1. TypeInv => TypeOK
    BY DEF TypeInv
<1> QED
    BY <1>1, TypeInvariant, PTL

---------------------------------------------------------------------------
(* What the steps write *)

\* A row is rewritten in place: its title stays and so does every other row.
LEMMA RowWritten ==
    ASSUME TypeInv, NEW j \in Jobs, NEW s, NEW late, SetRow(j, s, late)
    PROVE  /\ row'[j].state = s /\ row'[j].title = row[j].title
           /\ \A k \in Jobs \ {j} : row'[k] = row[k]
BY DEF SetRow, TypeInv, TypeOK

\* What one step of the task of j does to the table, by the kind of step: it
\* moves on, it commits "processing", or it commits its outcome.
MovesOn(j) ==
    /\ row'[j].state = row[j].state /\ status' = status
    /\ \/ at'[j] = "none" /\ (row[j].state = "cancelled" \/ j \in unwinding \cup broken')
       \/ at[j] = "loading" /\ at'[j] = "starting"
       \/ at[j] \in InsideTry /\ at'[j] \in InsideTry \cup Saving
Begins(j) ==
    /\ at[j] = "starting" /\ row'[j].state = "processing"
    /\ status' = status \/ SetStatus(j, "processing")
    /\ at'[j] = "preparing" \/ (at'[j] = "none" /\ j \in unwinding)
Ends(j) ==
    /\ at[j] \in Saving /\ row'[j].state \in FinishedStates
    /\ SetStatus(j, row'[j].state)
    /\ at'[j] = "none"
TaskWrites(j) ==
    /\ at[j] # "none" /\ row'[j].title = row[j].title
    /\ \A k \in Jobs \ {j} : row'[k] = row[k] /\ at'[k] = at[k]
    /\ unwinding' \subseteq unwinding /\ broken \subseteq broken'
    /\ UNCHANGED <<pending, call, process, accepted, unqueued>>
    /\ MovesOn(j) \/ Begins(j) \/ Ends(j)

\* Every step of _run_job is of one of these kinds.
LEMMA TaskStepWrites ==
    ASSUME TypeInv, NEW j \in Jobs, Advance(j) \/ Unwind(j) \/ (j \notin unwinding /\ (Report(j) \/ TaskRaises(j)))
    PROVE  TaskWrites(j)
<1> USE DEF database, tasks, failures, TaskSteps, InsideTry, Heavy, Saving
<1>0. at \in [Jobs -> TaskSteps] /\ row \in [Jobs -> Row] /\ unwinding \subseteq Jobs
    BY DEF TypeInv, TypeOK
<1>1. ASSUME CommitProcessing(j)
      PROVE  /\ row'[j].state = "processing" /\ row'[j].title = row[j].title
             /\ \A k \in Jobs \ {j} : row'[k] = row[k]
             /\ status' = status \/ SetStatus(j, "processing")
    BY <1>1, RowWritten DEF CommitProcessing
<1>2. ASSUME at[j] \in Saving, CommitOutcome(j)
      PROVE  /\ row'[j].state \in FinishedStates /\ row'[j].title = row[j].title
             /\ \A k \in Jobs \ {j} : row'[k] = row[k]
             /\ SetStatus(j, row'[j].state)
    <2>1. Outcome(j) \in FinishedStates
        BY <1>2, OutcomeType
    <2>2. row'[j].state = Outcome(j)
        BY <1>2, RowWritten DEF CommitOutcome
    <2> QED
        BY <1>2, <2>1, <2>2, RowWritten DEF CommitOutcome
<1>3. CASE Load(j)
    BY <1>0, <1>3 DEF Load, TaskEnds, TaskWrites, MovesOn
<1>4. CASE Begin(j)
    BY <1>0, <1>1, <1>4 DEF Begin, Step, TaskWrites, Begins
<1>5. CASE Prepare(j) \/ Acquire(j) \/ Succeed(j) \/ Fail(j)
    BY <1>0, <1>5 DEF Prepare, Acquire, Succeed, Fail, Step, TaskWrites, MovesOn
<1>6. CASE Verify(j) \/ Report(j)
    <2>1. PICK late : SetRow(j, row[j].state, late)
        BY <1>6 DEF Verify, Report
    <2>2. /\ row'[j].state = row[j].state /\ row'[j].title = row[j].title
          /\ \A k \in Jobs \ {j} : row'[k] = row[k]
        BY <2>1, RowWritten
    <2> QED
        BY <1>0, <1>6, <2>2 DEF Verify, Report, Step, TaskWrites, MovesOn
<1>7. CASE Save(j)
    BY <1>0, <1>2, <1>7 DEF Save, TaskEnds, TaskWrites, Ends
<1>8. CASE Unwind(j)
    <2>1. CASE at[j] \in {"loading", "starting"} \cup Saving /\ TaskEnds(j) /\ UNCHANGED <<database, lock>>
        BY <1>0, <1>8, <2>1 DEF Unwind, TaskEnds, TaskWrites, MovesOn
    <2>2. CASE at[j] = "starting" /\ CommitProcessing(j) /\ TaskEnds(j)
        BY <1>0, <1>1, <1>8, <2>2 DEF Unwind, TaskEnds, TaskWrites, Begins
    <2>3. CASE at[j] \in Saving /\ CommitOutcome(j) /\ TaskEnds(j)
        BY <1>0, <1>2, <1>8, <2>3 DEF Unwind, TaskEnds, TaskWrites, Ends
    <2>4. CASE /\ at[j] \in InsideTry
               /\ at' = [at EXCEPT ![j] = "savingCancelled"]
               /\ unwinding' = unwinding \ {j}
               /\ UNCHANGED <<database, saw>>
        BY <1>0, <1>8, <2>4 DEF Unwind, TaskWrites, MovesOn
    <2> QED
        BY <1>8, <2>1, <2>2, <2>3, <2>4 DEF Unwind
<1>9. CASE TaskRaises(j)
    BY <1>0, <1>9 DEF TaskRaises, TaskEnds, TaskWrites, MovesOn
<1> QED
    BY <1>3, <1>4, <1>5, <1>6, <1>7, <1>8, <1>9 DEF Advance

\* Neither a new request nor a step of a handler other than the insert and the
\* write of a cancelled row touches the table of jobs.
LEMMA HandlersLeaveRows ==
    ASSUME NEW h \in Handlers,
           \/ Request(h) \/ PutPending(h) \/ ReplacementLanded(h)
           \/ CheckRow(h) \/ CancelTask(h) \/ ReadRow(h) \/ HandlerRaises(h)
    PROVE  row' = row
BY DEF Request, EnqueueIfNotActive, EnqueueDirectly, CheckReplacement, CancelJob, PutPending,
    ReplacementLanded, CheckRow, CancelTask, ReadRow, HandlerRaises, database, tasks, failures

\* What the insert of a row does: the job had no row and was nowhere.
LEMMA InsertWrites ==
    ASSUME TypeInv, NEW h \in Handlers, InsertRow(h)
    PROVE  \E j \in Jobs :
               /\ row[j] = NoRow /\ at[j] = "none"
               /\ \A i \in DOMAIN pending : pending[i] # j
               /\ \A g \in Handlers : call[g].job # j
               /\ row'[j].state = "queued" /\ row'[j].title = call[h].title
               /\ \A k \in Jobs \ {j} : row'[k] = row[k]
               /\ call' = [call EXCEPT ![h] = [at |-> "put", job |-> j, title |-> call[h].title]]
<1>1. PICK j \in Jobs :
        /\ row[j].state = "none"
        /\ row' = [row EXCEPT ![j] = [state |-> "queued", title |-> call[h].title, late |-> FALSE]]
        /\ call' = [call EXCEPT ![h] = [at |-> "put", job |-> j, title |-> call[h].title]]
    BY Zenon DEF InsertRow, Await
<1>2. row[j] = NoRow
    BY <1>1 DEF TypeInv, TypeOK, Row, Saved, ActiveStates, FinishedStates
<1>3. /\ at[j] = "none"
      /\ \A i \in DOMAIN pending : pending[i] # j
      /\ \A g \in Handlers : call[g].job # j
    BY <1>2 DEF TypeInv, Known
<1>4. /\ row'[j].state = "queued" /\ row'[j].title = call[h].title
      /\ \A k \in Jobs \ {j} : row'[k] = row[k]
    BY <1>1 DEF TypeInv, TypeOK
<1> QED
    BY <1>1, <1>2, <1>3, <1>4

---------------------------------------------------------------------------
(* A job is in one place *)

\* Nothing of a process that is down is left: start() fills an empty queue.
DownIsEmpty ==
    process = "down" =>
        /\ \A j \in Jobs : at[j] = "none"
        /\ \A h \in Handlers : call[h] = Idle

\* NoJobTwice by parts, on which handlers, tasks and the dispatcher act.
PutOnce ==
    \A g \in Handlers : call[g].at = "put" =>
        /\ at[call[g].job] = "none"
        /\ \A i \in DOMAIN pending : pending[i] # call[g].job
        /\ \A h \in Handlers : call[h].at = "put" /\ call[h].job = call[g].job => g = h
PendingOnce ==
    /\ \A a, b \in DOMAIN pending : pending[a] = pending[b] => a = b
    /\ \A i \in DOMAIN pending : at[pending[i]] = "none"
OnceInv == TypeInv /\ DownIsEmpty /\ PutOnce /\ PendingOnce

\* The strengthening gives the invariant.
LEMMA OnceIsNoJobTwice == OnceInv => NoJobTwice
BY HandlerWork DEF OnceInv, TypeInv, TypeOK, PutOnce, PendingOnce, NoJobTwice, InPending, Running

\* Nothing is anywhere before the first start.
LEMMA InitOnce == Init => OnceInv
BY InitType DEF Init, OnceInv, DownIsEmpty, PutOnce, PendingOnce, Idle

\* Every step keeps a job in one place: enqueue takes a row that did not exist,
\* put and dispatch move the id on, and a restart begins with nothing in memory.
LEMMA NextKeepsOnce == OnceInv /\ [Next]_vars => OnceInv'
<1> SUFFICES ASSUME OnceInv, [Next]_vars PROVE OnceInv'
    OBVIOUS
<1>1. TypeInv /\ TypeInv'
    BY NextKeepsType DEF OnceInv
<1> USE JobQueueAssumption DEF database, tasks, failures, DownIsEmpty, PutOnce, PendingOnce
<1>2. ASSUME NEW h \in Handlers, Request(h) PROVE OnceInv'
    <2>1. PICK w \in {"insert", "landing", "checkRow", "readRow"}, j \in Jobs \cup {Nobody}, t \in Titles \cup {Nobody} :
            /\ process = "up"
            /\ Await(h, w, j, t)
            /\ UNCHANGED <<pending, at, process>>
        BY <1>2 DEF Request, EnqueueIfNotActive, EnqueueDirectly, CheckReplacement, CancelJob
    <2> QED
        BY <1>1, <2>1 DEF OnceInv, Await, TypeInv, TypeOK
<1>3. ASSUME NEW h \in Handlers, InsertRow(h) PROVE OnceInv'
    <2>1. PICK j \in Jobs : row[j].state = "none" /\ Await(h, "put", j, call[h].title)
        BY <1>3 DEF InsertRow
    <2>2. row[j] = NoRow
        BY <1>1, <2>1 DEF TypeInv, TypeOK, Row, Saved, ActiveStates, FinishedStates
    <2>3. /\ at[j] = "none"
          /\ \A i \in DOMAIN pending : pending[i] # j
          /\ \A g \in Handlers : call[g].job # j
        BY <1>1, <2>2 DEF TypeInv, Known
    <2>4. process # "down"
        BY <1>3 DEF OnceInv, InsertRow, Idle
    <2> QED
        BY <1>1, <1>3, <2>1, <2>3, <2>4 DEF OnceInv, InsertRow, Await, TypeInv, TypeOK
<1>4. ASSUME NEW h \in Handlers, PutPending(h) PROVE OnceInv'
    <2>1. process # "down"
        BY <1>4 DEF OnceInv, PutPending, Idle
    <2>2. call' = [call EXCEPT ![h] = Idle] /\ pending' = Append(pending, call[h].job)
        BY <1>4 DEF PutPending, Reply
    <2>3. pending \in Seq(Jobs)
        BY <1>1 DEF TypeInv, TypeOK
    <2>4. PendingOnce'
        BY <1>4, <2>2, <2>3 DEF OnceInv, PutPending
    <2>5. PutOnce'
        BY <1>1, <1>4, <2>2, <2>3 DEF OnceInv, PutPending, TypeInv, TypeOK, Idle
    <2> QED
        BY <1>1, <1>4, <2>1, <2>4, <2>5 DEF OnceInv, PutPending
<1>5. ASSUME NEW h \in Handlers, \/ ReplacementLanded(h) \/ CheckRow(h) \/ CancelTask(h) \/ ReadRow(h)
                                 \/ WriteRow(h) \/ HandlerRaises(h)
      PROVE OnceInv'
    <2>1. /\ process # "down"
          /\ UNCHANGED <<pending, at, process>>
          /\ call' \in [Handlers -> Call] /\ call'[h].at # "put"
          /\ \A g \in Handlers \ {h} : call'[g] = call[g]
        <3>1. CASE HandlerRaises(h)
            BY <1>1, <3>1 DEF OnceInv, HandlerRaises, Reply, Idle, TypeInv, TypeOK
        <3>2. CASE ReplacementLanded(h) \/ CheckRow(h)
            BY <1>1, <3>2 DEF OnceInv, ReplacementLanded, CheckRow, Reply, Await, Idle, TypeInv, TypeOK
        <3>3. CASE ReadRow(h)
            BY <1>1, <3>3 DEF OnceInv, ReadRow, Reply, Await, Idle, TypeInv, TypeOK
        <3>4. CASE CancelTask(h) \/ WriteRow(h)
            <4>1. /\ call[h].at # "idle" /\ Reply(h)
                  /\ UNCHANGED <<pending, at, process>>
                BY <3>4 DEF CancelTask, WriteRow
            <4> QED
                BY <1>1, <4>1 DEF OnceInv, Reply, Idle, TypeInv, TypeOK
        <3> QED
            BY <1>5, <3>1, <3>2, <3>3, <3>4
    <2> QED
        BY <1>1, <2>1 DEF OnceInv
<1>6. ASSUME NEW t \in Titles, RequestReplacement(t) PROVE OnceInv'
    BY <1>1, <1>6 DEF RequestReplacement, OnceInv
<1>7. ASSUME NEW j \in Jobs, \/ Advance(j) \/ Unwind(j)
                             \/ j \notin unwinding /\ (Report(j) \/ TaskRaises(j))
      PROVE OnceInv'
    <2>1. /\ at[j] # "none"
          /\ at' \in [Jobs -> TaskSteps] /\ \A k \in Jobs \ {j} : at'[k] = at[k]
          /\ UNCHANGED <<pending, call, process>>
        BY <1>1, <1>7, TaskStepWrites DEF TaskWrites, TypeInv, TypeOK
    <2>2. \A k \in Jobs : at[k] = "none" => at'[k] = "none"
        BY <2>1
    <2>3. \A i \in DOMAIN pending : pending[i] \in Jobs
        BY <1>1 DEF TypeInv, TypeOK
    <2>4. \A g \in Handlers : call[g].at = "put" => call[g].job \in Jobs
        BY <1>1, HandlerWork
    <2> QED
        BY <1>1, <2>1, <2>2, <2>3, <2>4 DEF OnceInv
<1>8. CASE Dispatch
    <2>1. pending \in Seq(Jobs) /\ pending # <<>>
        BY <1>1, <1>8 DEF TypeInv, TypeOK, Dispatch
    <2>2. /\ pending' = Tail(pending)
          /\ at' = [at EXCEPT ![Head(pending)] = "loading"]
          /\ UNCHANGED <<call, process>> /\ process = "up"
        BY <1>8 DEF Dispatch
    <2>3. Head(pending) = pending[1] /\ 1 \in DOMAIN pending /\ Head(pending) \in Jobs
        BY <2>1
    <2>4. \A i \in DOMAIN pending' : i + 1 \in DOMAIN pending /\ pending'[i] = pending[i + 1] /\ i + 1 # 1
        BY <2>1, <2>2
    <2>5. PendingOnce'
        <3>1. \A a, b \in DOMAIN pending' : pending'[a] = pending'[b] => a = b
            <4> SUFFICES ASSUME NEW a \in DOMAIN pending', NEW b \in DOMAIN pending',
                                pending'[a] = pending'[b]
                         PROVE  a = b
                OBVIOUS
            <4>1. a \in Nat /\ b \in Nat
                BY <1>1 DEF TypeInv, TypeOK
            <4>2. a + 1 = b + 1
                BY <2>4 DEF OnceInv
            <4> QED
                BY <4>1, <4>2
        <3>2. \A i \in DOMAIN pending' : pending'[i] # Head(pending) /\ pending'[i] \in Jobs
            BY <2>1, <2>3, <2>4 DEF OnceInv
        <3> QED
            BY <1>1, <2>2, <2>4, <3>1, <3>2 DEF OnceInv, TypeInv, TypeOK
    <2>6. PutOnce'
        BY <1>1, <2>2, <2>3, <2>4 DEF OnceInv, TypeInv, TypeOK
    <2> QED
        BY <1>1, <2>2, <2>5, <2>6 DEF OnceInv
<1>9. CASE Stop \/ CancelLeftovers
    BY <1>1, <1>9 DEF Stop, CancelLeftovers, OnceInv
<1>10. CASE Exit \/ Crash
    BY <1>1, <1>10 DEF Exit, Crash, Vanish, OnceInv, Idle
<1>11. CASE Start
    <2>1. \A a, b \in DOMAIN pending' : pending'[a] = pending'[b] => a = b
        BY <1>11 DEF Start, Orders
    <2>2. pending' \in Seq(Jobs)
        BY <1>1 DEF TypeInv, TypeOK
    <2> QED
        BY <1>1, <1>11, <2>1, <2>2 DEF Start, OnceInv, Idle
<1>12. CASE UNCHANGED vars
    BY <1>1, <1>12 DEF vars, OnceInv
<1> QED
    BY <1>2, <1>3, <1>4, <1>5, <1>6, <1>7, <1>8, <1>9, <1>10, <1>11, <1>12 DEF Next, Handle

\* The strengthened invariant holds throughout.
LEMMA OnceInvariant == Spec => []OnceInv
BY InitOnce, NextKeepsOnce, PTL DEF Spec

\* A job id is at most once in _pending, never there and in a task at the
\* same time, and on its way there in at most one handler: no file is ever
\* processed by two tasks of one job, over any number of restarts.
THEOREM JobsRunOnce == Spec => []NoJobTwice
BY OnceIsNoJobTwice, OnceInvariant, PTL

---------------------------------------------------------------------------
(* The lock *)

\* OneHeavyTask is inductive once the types are known: every way into
\* process_video takes the lock and every way out of it gives it back.
LEMMA NextKeepsLock == OnceInv /\ OneHeavyTask /\ [Next]_vars => OneHeavyTask'
<1> SUFFICES ASSUME OnceInv, OneHeavyTask, [Next]_vars PROVE OneHeavyTask'
    OBVIOUS
<1> USE JobQueueAssumption DEF OnceInv, OneHeavyTask, Heavy, database, tasks
<1>1. ASSUME NEW h \in Handlers, Request(h) \/ Handle(h) \/ HandlerRaises(h) PROVE OneHeavyTask'
    BY <1>1 DEF Request, Handle, EnqueueIfNotActive, EnqueueDirectly, CheckReplacement, CancelJob,
        InsertRow, PutPending, ReplacementLanded, CheckRow, CancelTask, ReadRow, WriteRow, HandlerRaises
<1>2. ASSUME NEW t \in Titles, RequestReplacement(t) PROVE OneHeavyTask'
    BY <1>2 DEF RequestReplacement
<1>3. ASSUME NEW j \in Jobs, Advance(j) PROVE OneHeavyTask'
    <2> USE DEF TypeInv, TypeOK, Step, InsideTry, Saving
    <2>1. CASE Load(j) \/ Save(j)
        BY <2>1 DEF Load, Save, TaskEnds
    <2>2. CASE Begin(j) \/ Prepare(j)
        BY <2>2 DEF Begin, Prepare
    <2>3. CASE Acquire(j)
        BY <2>3 DEF Acquire
    <2>4. CASE Verify(j)
        BY <2>4 DEF Verify
    <2>5. CASE Succeed(j) \/ Fail(j)
        BY <2>5 DEF Succeed, Fail, LeaveLock
    <2> QED
        BY <1>3, <2>1, <2>2, <2>3, <2>4, <2>5 DEF Advance
<1>4. ASSUME NEW j \in Jobs, Unwind(j) PROVE OneHeavyTask'
    <2> USE DEF TypeInv, TypeOK, InsideTry, Saving
    <2>1. CASE at[j] \in {"loading", "starting"} \cup Saving /\ TaskEnds(j) /\ UNCHANGED lock
        BY <2>1 DEF TaskEnds
    <2>2. CASE at' = [at EXCEPT ![j] = "savingCancelled"] /\ LeaveLock(j)
        BY <2>2 DEF LeaveLock
    <2> QED
        BY <1>4, <2>1, <2>2 DEF Unwind
<1>5. ASSUME NEW j \in Jobs, Report(j) \/ TaskRaises(j) PROVE OneHeavyTask'
    BY <1>5 DEF Report, TaskRaises, TaskEnds, LeaveLock, TypeInv, TypeOK
<1>6. CASE Dispatch
    <2>1. Head(pending) \in Jobs /\ at[Head(pending)] = "none"
        BY <1>6 DEF Dispatch, TypeInv, TypeOK, PendingOnce
    <2> QED
        BY <1>6, <2>1 DEF Dispatch, TypeInv, TypeOK
<1>7. CASE Stop \/ CancelLeftovers \/ Start
    BY <1>7 DEF Stop, CancelLeftovers, Start
<1>8. CASE Exit \/ Crash
    BY <1>8 DEF Exit, Crash, Vanish
<1>9. CASE UNCHANGED vars
    BY <1>9 DEF vars
<1> QED
    BY <1>1, <1>2, <1>3, <1>4, <1>5, <1>6, <1>7, <1>8, <1>9 DEF Next

\* HEAVY_PIPELINE_LOCK is held exactly by the task inside process_video, so
\* no two audio jobs are ever inside it together, whatever is cancelled,
\* fails or crashes, and for any number of jobs.
THEOREM HeavyTasksExclude == Spec => []OneHeavyTask
<1>1. Init => OneHeavyTask
    BY JobQueueAssumption DEF Init, OneHeavyTask, Heavy
<1> QED
    BY <1>1, NextKeepsLock, OnceInvariant, PTL DEF Spec

---------------------------------------------------------------------------
(* No job is lost, and every row follows its task *)

\* While the server is up, only a cancellation that was answered with success
\* is waiting to be delivered; stop() cancels everything.
CancelsAreAccepted ==
    /\ process = "up" => unwinding \subseteq accepted
    /\ process = "down" => unwinding = {}

\* A job that waits shows as queued and one whose task has begun as processing,
\* unless its cancellation was answered with success.
RowFollowsTask ==
    \A j \in Jobs : j \notin accepted =>
        /\ InPending(j) \/ BeingPut(j) \/ at[j] \in {"loading", "starting"} => row[j].state = "queued"
        /\ at[j] \in InsideTry \cup Saving => row[j].state = "processing"

PlaceInv == OnceInv /\ CancelsAreAccepted /\ NoJobIsLost /\ RowFollowsTask

\* Nothing waits and nothing runs before the first start.
LEMMA InitPlace == Init => PlaceInv
BY InitOnce DEF Init, PlaceInv, CancelsAreAccepted, NoJobIsLost, RowFollowsTask, InPending, BeingPut,
    InsideTry, Heavy, Saving, Idle

\* A step that touches no row, task or queue, and takes no job to or from its
\* way to _pending, keeps the invariant.
LEMMA QuietStepsKeepPlace ==
    ASSUME PlaceInv, OnceInv', NEW h \in Handlers,
           UNCHANGED <<row, pending, at, process>>,
           accepted \subseteq accepted', unwinding' \subseteq unwinding \cup accepted',
           broken \subseteq broken', process # "down",
           call[h].at # "put", call'[h].at # "put",
           \A g \in Handlers \ {h} : call'[g] = call[g]
    PROVE  PlaceInv'
<1>1. \A j \in Jobs : /\ (InPending(j) <=> InPending(j)') /\ (BeingPut(j) <=> BeingPut(j)')
                      /\ (j \in Running <=> j \in Running')
    BY DEF InPending, BeingPut, Running
<1> QED
    BY <1>1 DEF PlaceInv, CancelsAreAccepted, NoJobIsLost, RowFollowsTask, Owned

\* The steps of the request handlers keep it: enqueue puts what it inserted,
\* and a job whose row is written behind its task's back is accepted.
LEMMA HandlersKeepPlace ==
    ASSUME PlaceInv, OnceInv', NEW h \in Handlers, Request(h) \/ Handle(h) \/ HandlerRaises(h)
    PROVE  PlaceInv'
<1> USE DEF database, tasks, failures
<1>1. TypeInv /\ TypeInv'
    BY DEF PlaceInv, OnceInv
<1>2. process # "down"
    <2>1. Request(h) => process = "up"
        BY DEF Request, EnqueueIfNotActive, EnqueueDirectly, CheckReplacement, CancelJob
    <2>2. Handle(h) \/ HandlerRaises(h) => call[h].at # "idle"
        BY DEF Handle, InsertRow, PutPending, ReplacementLanded, CheckRow, CancelTask, ReadRow, WriteRow, HandlerRaises
    <2> QED
        BY <2>1, <2>2 DEF PlaceInv, OnceInv, DownIsEmpty, Idle
<1>3. CASE Request(h)
    <2>1. PICK w \in {"insert", "landing", "checkRow", "readRow"}, j \in Jobs \cup {Nobody}, t \in Titles \cup {Nobody} :
            /\ call' = [call EXCEPT ![h] = [at |-> w, job |-> j, title |-> t]]
            /\ call[h].at = "idle"
            /\ UNCHANGED <<row, pending, at, unwinding, accepted, broken, process>>
        BY <1>3 DEF Request, EnqueueIfNotActive, EnqueueDirectly, CheckReplacement, CancelJob, Await
    <2>2. call'[h].at # "put" /\ \A g \in Handlers \ {h} : call'[g] = call[g]
        BY <1>1, <2>1 DEF TypeInv, TypeOK
    <2> QED
        BY <1>2, <2>1, <2>2, QuietStepsKeepPlace
<1>4. CASE ReplacementLanded(h) \/ CheckRow(h) \/ CancelTask(h) \/ ReadRow(h)
    <2>1. /\ UNCHANGED <<row, pending, at, process>>
          /\ accepted \subseteq accepted' /\ unwinding' \subseteq unwinding \cup accepted'
          /\ broken' = broken
        BY <1>4 DEF ReplacementLanded, CheckRow, CancelTask, ReadRow
    <2>2. /\ call[h].at # "put" /\ call'[h].at # "put"
          /\ \A g \in Handlers \ {h} : call'[g] = call[g]
        BY <1>1, <1>4 DEF ReplacementLanded, CheckRow, CancelTask, ReadRow, Reply, Await, Idle, TypeInv, TypeOK
    <2> QED
        BY <1>2, <2>1, <2>2, QuietStepsKeepPlace
<1>5. CASE WriteRow(h)
    <2> DEFINE j == call[h].job
    <2>1. j \in Jobs
        BY <1>1, <1>5, HandlerWork DEF WriteRow, CancelSteps
    <2>2. /\ row'[j].state = "cancelled"
          /\ \A k \in Jobs \ {j} : row'[k] = row[k]
        BY <1>1, <1>5, <2>1, RowWritten DEF WriteRow
    <2>3. /\ UNCHANGED <<pending, at, unwinding, process, broken>>
          /\ accepted' = accepted \cup {j}
          /\ call[h].at # "put" /\ call'[h].at # "put"
          /\ \A g \in Handlers \ {h} : call'[g] = call[g]
        BY <1>1, <1>5 DEF WriteRow, Reply, Idle, TypeInv, TypeOK
    <2>4. \A k \in Jobs : /\ (InPending(k) <=> InPending(k)') /\ (BeingPut(k) <=> BeingPut(k)')
                          /\ (k \in Running <=> k \in Running')
        BY <2>3 DEF InPending, BeingPut, Running
    <2>5. NoJobIsLost'
        BY <2>1, <2>2, <2>3, <2>4 DEF PlaceInv, NoJobIsLost, Owned, ActiveStates
    <2>6. RowFollowsTask'
        BY <2>1, <2>2, <2>3, <2>4 DEF PlaceInv, RowFollowsTask
    <2> QED
        BY <2>3, <2>5, <2>6 DEF PlaceInv, CancelsAreAccepted
<1>6. CASE InsertRow(h)
    <2>1. PICK j \in Jobs :
            /\ row[j] = NoRow /\ at[j] = "none"
            /\ \A i \in DOMAIN pending : pending[i] # j
            /\ \A g \in Handlers : call[g].job # j
            /\ row'[j].state = "queued"
            /\ \A k \in Jobs \ {j} : row'[k] = row[k]
            /\ call' = [call EXCEPT ![h] = [at |-> "put", job |-> j, title |-> call[h].title]]
        BY <1>1, <1>6, InsertWrites
    <2>2. UNCHANGED <<pending, at, unwinding, accepted, broken, process>> /\ call[h].at = "insert"
        BY <1>6 DEF InsertRow
    <2>3. /\ call'[h].at = "put" /\ call'[h].job = j
          /\ \A g \in Handlers \ {h} : call'[g] = call[g]
        BY <1>1, <2>1 DEF TypeInv, TypeOK
    <2>4. BeingPut(j)' /\ \A k \in Jobs \ {j} : BeingPut(k)' <=> BeingPut(k)
        BY <2>2, <2>3 DEF BeingPut
    <2>5. \A k \in Jobs : (InPending(k) <=> InPending(k)') /\ (k \in Running <=> k \in Running')
        BY <2>2 DEF InPending, Running
    <2>6. NoJobIsLost'
        BY <2>1, <2>2, <2>4, <2>5 DEF PlaceInv, NoJobIsLost, Owned
    <2>7. RowFollowsTask'
        BY <2>1, <2>2, <2>4, <2>5 DEF PlaceInv, RowFollowsTask, InsideTry, Heavy, Saving
    <2> QED
        BY <2>2, <2>6, <2>7 DEF PlaceInv, CancelsAreAccepted
<1>7. CASE PutPending(h)
    <2>0. PICK j \in Jobs : j = call[h].job
        BY <1>1, <1>7, HandlerWork DEF PutPending
    <2>1. /\ pending \in Seq(Jobs) /\ j \in Jobs
          /\ pending' = Append(pending, j)
          /\ UNCHANGED <<row, at, unwinding, accepted, broken, process>>
          /\ call[h].at = "put" /\ call'[h].at # "put"
          /\ \A g \in Handlers \ {h} : call'[g] = call[g]
        BY <1>1, <1>7, <2>0 DEF PutPending, Reply, Idle, TypeInv, TypeOK
    <2>2. BeingPut(j)
        BY <2>0, <2>1 DEF BeingPut
    <2>3. InPending(j)' /\ \A k \in Jobs \ {j} : InPending(k)' <=> InPending(k)
        <3>1. /\ DOMAIN pending' = 1..(Len(pending) + 1) /\ DOMAIN pending = 1..Len(pending)
              /\ pending'[Len(pending) + 1] = j
              /\ \A i \in DOMAIN pending : pending'[i] = pending[i]
            BY <2>1
        <3>2. Len(pending) \in Nat
            BY <2>1
        <3> QED
            BY <3>1, <3>2 DEF InPending
    <2>4. \A k \in Jobs \ {j} : BeingPut(k)' <=> BeingPut(k)
        BY <2>0, <2>1 DEF BeingPut
    <2>5. \A k \in Jobs : BeingPut(k)' => BeingPut(k)
        BY <2>1 DEF BeingPut
    <2>6. Running' = Running
        BY <2>1 DEF Running
    <2>7. NoJobIsLost'
        BY <2>1, <2>3, <2>4, <2>6 DEF PlaceInv, NoJobIsLost, Owned
    <2>8. RowFollowsTask'
        BY <2>1, <2>2, <2>3, <2>4, <2>5 DEF PlaceInv, RowFollowsTask
    <2> QED
        BY <2>1, <2>7, <2>8 DEF PlaceInv, CancelsAreAccepted
<1>8. CASE HandlerRaises(h)
    <2>1. /\ UNCHANGED <<row, pending, at, unwinding, accepted, process>>
          /\ broken' = IF call[h].at = "put" THEN broken \cup {call[h].job} ELSE broken
          /\ call'[h].at # "put" /\ \A g \in Handlers \ {h} : call'[g] = call[g]
        BY <1>1, <1>8 DEF HandlerRaises, Reply, Idle, TypeInv, TypeOK
    <2>2. \A k \in Jobs : /\ (InPending(k) <=> InPending(k)') /\ (k \in Running <=> k \in Running')
                          /\ BeingPut(k)' => BeingPut(k)
                          /\ BeingPut(k) => BeingPut(k)' \/ k \in broken'
        BY <2>1 DEF InPending, BeingPut, Running
    <2>3. NoJobIsLost'
        BY <2>1, <2>2 DEF PlaceInv, NoJobIsLost, Owned
    <2>4. RowFollowsTask'
        BY <2>1, <2>2 DEF PlaceInv, RowFollowsTask
    <2> QED
        BY <2>1, <2>3, <2>4 DEF PlaceInv, CancelsAreAccepted
<1> QED
    BY <1>3, <1>4, <1>5, <1>6, <1>7, <1>8 DEF Handle

\* The steps of a task keep it: a row leaves "queued" and "processing" only at
\* the end of its task, and no task ends before, unless it was cancelled or a
\* database call raised.
LEMMA TasksKeepPlace ==
    ASSUME PlaceInv, OnceInv', NEW j \in Jobs, TaskWrites(j)
    PROVE  PlaceInv'
<1> USE DEF TaskWrites, InsideTry, Heavy, Saving
<1>1. TypeInv /\ at' \in [Jobs -> TaskSteps]
    BY DEF PlaceInv, OnceInv, TypeInv, TypeOK
<1>2. CancelsAreAccepted'
    BY DEF PlaceInv, CancelsAreAccepted
<1>3. /\ ~InPending(j) /\ ~BeingPut(j)
      /\ \A k \in Jobs : (InPending(k)' <=> InPending(k)) /\ (BeingPut(k)' <=> BeingPut(k))
    BY DEF PlaceInv, OnceInv, PutOnce, PendingOnce, InPending, BeingPut
<1>4. \A k \in Jobs \ {j} : k \in Running' <=> k \in Running
    BY DEF Running
<1>5. NoJobIsLost'
    <2>1. ASSUME process = "up", at'[j] = "none", row'[j].state \in ActiveStates
          PROVE  j \in accepted \cup broken'
        BY <2>1 DEF PlaceInv, CancelsAreAccepted, MovesOn, Begins, Ends, ActiveStates, FinishedStates
    <2>2. at'[j] # "none" => j \in Running'
        BY DEF Running
    <2> QED
        BY <1>3, <1>4, <2>1, <2>2 DEF PlaceInv, NoJobIsLost, Owned
<1>6. RowFollowsTask'
    <2>1. ASSUME j \notin accepted, at'[j] \in {"loading", "starting"}
          PROVE  row'[j].state = "queued"
        BY <2>1 DEF PlaceInv, RowFollowsTask, MovesOn, Begins, Ends
    <2>2. ASSUME j \notin accepted, at'[j] \in InsideTry \cup Saving
          PROVE  row'[j].state = "processing"
        BY <2>2 DEF PlaceInv, RowFollowsTask, MovesOn, Begins, Ends
    <2> QED
        BY <1>3, <2>1, <2>2 DEF PlaceInv, RowFollowsTask
<1> QED
    BY <1>2, <1>5, <1>6 DEF PlaceInv

\* Dispatch, stop, crash and restart keep it: the restart puts every row that
\* was queued or processing into _pending.
LEMMA ProcessKeepsPlace ==
    ASSUME PlaceInv, OnceInv',
           \/ Dispatch \/ Stop \/ CancelLeftovers \/ Exit \/ Crash \/ Start
           \/ \E t \in Titles : RequestReplacement(t)
    PROVE  PlaceInv'
<1> USE DEF database, tasks, failures
<1>1. TypeInv /\ TypeInv'
    BY DEF PlaceInv, OnceInv
<1>2. ASSUME NEW t \in Titles, RequestReplacement(t) PROVE PlaceInv'
    BY <1>2 DEF RequestReplacement, PlaceInv, CancelsAreAccepted, NoJobIsLost, RowFollowsTask,
        Owned, InPending, BeingPut, Running
<1>3. CASE Dispatch
    <2>0. PICK j \in Jobs : j = Head(pending) /\ pending \in Seq(Jobs) /\ pending # <<>>
        BY <1>1, <1>3 DEF TypeInv, TypeOK, Dispatch
    <2>1. /\ pending \in Seq(Jobs) /\ pending # <<>>
          /\ pending' = Tail(pending)
          /\ at' = [at EXCEPT ![j] = "loading"]
          /\ UNCHANGED <<row, unwinding, call, process, accepted, broken>>
        BY <1>3, <2>0 DEF Dispatch
    <2>2. j \in Jobs /\ InPending(j)
        BY <2>0, <2>1 DEF InPending
    <2>3. \A k \in Jobs \ {j} : InPending(k)' <=> InPending(k)
        <3>1. /\ DOMAIN pending = 1..Len(pending) /\ Len(pending) \in Nat \ {0}
              /\ DOMAIN pending' = 1..(Len(pending) - 1)
              /\ \A i \in DOMAIN pending' : pending'[i] = pending[i + 1]
              /\ pending[1] = j
            BY <2>0, <2>1
        <3>2. ASSUME NEW k \in Jobs \ {j}, NEW i \in DOMAIN pending, pending[i] = k
              PROVE  i - 1 \in DOMAIN pending' /\ pending'[i - 1] = k
            BY <3>1, <3>2
        <3> QED
            BY <3>1, <3>2 DEF InPending
    <2>4. InPending(j)' => InPending(j)
        BY <2>2
    <2>5. at'[j] = "loading" /\ \A k \in Jobs \ {j} : at'[k] = at[k]
        BY <1>1, <2>1, <2>2 DEF TypeInv, TypeOK
    <2>6. \A k \in Jobs : BeingPut(k)' <=> BeingPut(k)
        BY <2>1 DEF BeingPut
    <2>7. j \in Running' /\ \A k \in Jobs \ {j} : k \in Running' <=> k \in Running
        BY <2>2, <2>5 DEF Running
    <2>8. NoJobIsLost'
        BY <2>1, <2>3, <2>6, <2>7 DEF PlaceInv, NoJobIsLost, Owned
    <2>9. RowFollowsTask'
        <3>1. j \notin accepted => row[j].state = "queued"
            BY <2>2 DEF PlaceInv, RowFollowsTask
        <3>2. ASSUME NEW k \in Jobs \ {j}, k \notin accepted
              PROVE  /\ InPending(k)' \/ BeingPut(k)' \/ at'[k] \in {"loading", "starting"}
                            => row[k].state = "queued"
                     /\ at'[k] \in InsideTry \cup Saving => row[k].state = "processing"
            BY <2>3, <2>5, <2>6, <3>2 DEF PlaceInv, RowFollowsTask
        <3>3. at'[j] \notin InsideTry \cup Saving
            BY <2>5 DEF InsideTry, Heavy, Saving
        <3> QED
            BY <2>1, <3>1, <3>2, <3>3 DEF RowFollowsTask
    <2> QED
        BY <2>1, <2>8, <2>9 DEF PlaceInv, CancelsAreAccepted
<1>4. CASE Stop \/ CancelLeftovers
    BY <1>4 DEF Stop, CancelLeftovers, PlaceInv, CancelsAreAccepted, NoJobIsLost, RowFollowsTask,
        InPending, BeingPut
<1>5. CASE Exit \/ Crash
    BY <1>5 DEF Exit, Crash, Vanish, PlaceInv, CancelsAreAccepted, NoJobIsLost, RowFollowsTask,
        InPending, BeingPut, InsideTry, Heavy, Saving, Idle
<1>6. CASE Start
    <2>1. /\ \A k \in Jobs : at[k] = "none"
          /\ \A h \in Handlers : call[h] = Idle
          /\ unwinding = {}
        BY <1>6 DEF Start, PlaceInv, OnceInv, DownIsEmpty, CancelsAreAccepted
    <2>2. UNCHANGED <<at, unwinding, call, accepted>> /\ process' = "up"
        BY <1>6 DEF Start
    <2>3. \A k \in Jobs : /\ k \in Requeued => row'[k].state = "queued"
                          /\ k \notin Requeued => row'[k] = row[k]
        BY <1>1, <1>6 DEF Start, TypeInv, TypeOK, Row, Saved, NoRow
    <2>4. \A k \in Jobs : InPending(k)' <=> k \in Requeued
        BY <1>6 DEF Start, Orders, InPending
    <2>5. \A k \in Jobs : ~BeingPut(k)' /\ at'[k] = "none"
        BY <2>1, <2>2 DEF BeingPut, Idle
    <2>6. NoJobIsLost'
        BY <2>2, <2>3, <2>4 DEF NoJobIsLost, Owned, Requeued
    <2>7. RowFollowsTask'
        BY <2>3, <2>4, <2>5 DEF RowFollowsTask, InsideTry, Heavy, Saving
    <2> QED
        BY <2>1, <2>2, <2>6, <2>7 DEF PlaceInv, CancelsAreAccepted
<1> QED
    BY <1>2, <1>3, <1>4, <1>5, <1>6

\* Every step keeps the invariant.
LEMMA NextKeepsPlace == PlaceInv /\ [Next]_vars => PlaceInv'
<1> SUFFICES ASSUME PlaceInv, [Next]_vars PROVE PlaceInv'
    OBVIOUS
<1>1. OnceInv'
    BY NextKeepsOnce DEF PlaceInv
<1>2. ASSUME NEW j \in Jobs, \/ Advance(j) \/ Unwind(j)
                             \/ j \notin unwinding /\ (Report(j) \/ TaskRaises(j))
      PROVE PlaceInv'
    <2>1. TypeInv
        BY DEF PlaceInv, OnceInv
    <2>2. TaskWrites(j)
        BY <1>2, <2>1, TaskStepWrites
    <2> QED
        BY <1>1, <2>2, TasksKeepPlace
<1>3. CASE UNCHANGED vars
    BY <1>1, <1>3 DEF vars, PlaceInv, CancelsAreAccepted, NoJobIsLost, RowFollowsTask,
        Owned, InPending, BeingPut, Running
<1> QED
    BY <1>1, <1>2, <1>3, HandlersKeepPlace, ProcessKeepsPlace DEF Next

\* The invariant holds throughout.
LEMMA PlaceInvariant == Spec => []PlaceInv
BY InitPlace, NextKeepsPlace, PTL DEF Spec

\* While the server is up, every row that shows a queued or running job is
\* waiting in _pending, has a task or is about to be put, over any number of
\* jobs, requests, crashes, restarts and failing database calls, unless its
\* cancellation was accepted or such a call, of its task or of its enqueue,
\* raised in this life of the process.
THEOREM NothingIsLost == Spec => []NoJobIsLost
<1>1. PlaceInv => NoJobIsLost
    BY DEF PlaceInv
<1> QED
    BY <1>1, PlaceInvariant, PTL

---------------------------------------------------------------------------
(* The queue implements JobLifecycle *)

\* Before the first request the table is empty and nothing was asked.
LEMMA InitMapped == Init => Lifecycle!Init
BY DEF Init, Lifecycle!Init, NoRow, ShownState

\* A step that writes the state of one row, or none, changes just that entry of
\* the mapped state.
LEMMA StateMapped ==
    ASSUME TypeInv, TypeInv', NEW j \in Jobs, \A k \in Jobs \ {j} : row'[k] = row[k]
    PROVE  ShownState' = [ShownState EXCEPT ![j] = row'[j].state]
BY DEF ShownState

\* A task's step is Run, End or Overwrite, or leaves the state of the row alone.
LEMMA TaskMapped ==
    ASSUME PlaceInv, TypeInv', NEW j \in Jobs, TaskWrites(j)
    PROVE  Lifecycle!Next \/ UNCHANGED <<ShownState, accepted>>
<1> USE DEF ShownState
<1>1. /\ TypeInv
      /\ \A k \in Jobs \ {j} : row'[k] = row[k]
      /\ accepted' = accepted
    BY DEF PlaceInv, OnceInv, TaskWrites
<1>2. ShownState' = [ShownState EXCEPT ![j] = row'[j].state]
    BY <1>1, StateMapped
<1>3. ShownState[j] = row[j].state
    OBVIOUS
<1>4. CASE MovesOn(j)
    BY <1>1, <1>2, <1>3, <1>4 DEF MovesOn
<1>5. CASE Begins(j)
    <2>1. ShownState' = [ShownState EXCEPT ![j] = "processing"]
        BY <1>2, <1>5 DEF Begins
    <2>2. CASE j \in accepted
        BY <1>1, <2>1, <2>2 DEF Lifecycle!Next, Lifecycle!Overwrite
    <2>3. CASE j \notin accepted
        <3>1. ShownState[j] = "queued"
            BY <1>3, <1>5, <2>3 DEF Begins, PlaceInv, RowFollowsTask
        <3> QED
            BY <1>1, <2>1, <3>1 DEF Lifecycle!Next, Lifecycle!Run
    <2> QED
        BY <2>2, <2>3
<1>6. CASE Ends(j)
    <2>1. row'[j].state \in Lifecycle!Finished
        BY <1>6 DEF Ends, FinishedStates, Lifecycle!Finished
    <2>2. CASE j \in accepted
        BY <1>1, <1>2, <2>1, <2>2 DEF Lifecycle!Next, Lifecycle!Overwrite
    <2>3. CASE j \notin accepted
        <3>1. ShownState[j] = "processing"
            BY <1>3, <1>6, <2>3 DEF Ends, PlaceInv, RowFollowsTask
        <3> QED
            BY <1>1, <1>2, <2>1, <3>1 DEF Lifecycle!Next, Lifecycle!End
    <2> QED
        BY <2>2, <2>3
<1> QED
    BY <1>4, <1>5, <1>6 DEF TaskWrites

\* A handler's step is Submit or Answer, or leaves the lifecycle alone.
LEMMA HandlerMapped ==
    ASSUME PlaceInv, TypeInv', NEW h \in Handlers, Request(h) \/ Handle(h) \/ HandlerRaises(h)
    PROVE  Lifecycle!Next \/ UNCHANGED <<ShownState, accepted>>
<1> USE DEF ShownState
<1>1. TypeInv
    BY DEF PlaceInv, OnceInv
<1>2. CASE InsertRow(h)
    <2>1. PICK j \in Jobs : /\ row[j] = NoRow /\ row'[j].state = "queued"
                            /\ \A k \in Jobs \ {j} : row'[k] = row[k]
        BY <1>1, <1>2, InsertWrites
    <2>2. ShownState[j] = "none" /\ ShownState' = [ShownState EXCEPT ![j] = "queued"]
        BY <1>1, <2>1, StateMapped DEF NoRow
    <2>3. accepted' = accepted
        BY <1>2 DEF InsertRow
    <2> QED
        BY <2>2, <2>3 DEF Lifecycle!Next, Lifecycle!Submit
<1>3. CASE WriteRow(h) \/ CancelTask(h)
    <2>1. PICK j \in Jobs : j = call[h].job /\ row[j] # NoRow
        BY <1>1, <1>3, HandlerWork DEF WriteRow, CancelTask, CancelSteps
    <2>2. ShownState[j] # "none"
        BY <1>1, <2>1 DEF TypeInv, TypeOK, Row, Saved, ActiveStates, FinishedStates
    <2>3. ShownState' \in {ShownState, [ShownState EXCEPT ![j] = "cancelled"]}
        <3>1. CASE WriteRow(h)
            <4>1. SetRow(j, "cancelled", FALSE)
                BY <2>1, <3>1 DEF WriteRow
            <4>2. row'[j].state = "cancelled" /\ \A k \in Jobs \ {j} : row'[k] = row[k]
                BY <1>1, <4>1, RowWritten
            <4> QED
                BY <1>1, <4>2, StateMapped
        <3>2. CASE CancelTask(h)
            BY <3>2 DEF CancelTask, database
        <3> QED
            BY <1>3, <3>1, <3>2
    <2>4. accepted' = accepted \cup {j}
        BY <1>3, <2>1 DEF WriteRow, CancelTask
    <2> QED
        BY <2>2, <2>3, <2>4 DEF Lifecycle!Next, Lifecycle!Answer
<1>4. CASE \/ Request(h) \/ PutPending(h) \/ ReplacementLanded(h) \/ CheckRow(h) \/ ReadRow(h)
           \/ HandlerRaises(h)
    <2>1. row' = row
        BY <1>4, HandlersLeaveRows
    <2>2. accepted' = accepted
        BY <1>4 DEF Request, EnqueueIfNotActive, EnqueueDirectly, CheckReplacement, CancelJob, PutPending,
            ReplacementLanded, CheckRow, ReadRow, HandlerRaises
    <2> QED
        BY <2>1, <2>2
<1> QED
    BY <1>2, <1>3, <1>4 DEF Handle

\* Start is Restart; stop, crash and dispatch leave the lifecycle alone.
LEMMA ProcessMapped ==
    ASSUME PlaceInv, TypeInv',
           \/ Dispatch \/ Stop \/ CancelLeftovers \/ Exit \/ Crash \/ Start
           \/ \E t \in Titles : RequestReplacement(t)
    PROVE  Lifecycle!Next \/ UNCHANGED <<ShownState, accepted>>
<1> USE DEF ShownState
<1>1. TypeInv
    BY DEF PlaceInv, OnceInv
<1>2. CASE Start
    <2>1. \A k \in Jobs : row'[k].state = IF k \in Requeued THEN "queued" ELSE row[k].state
        BY <1>1, <1>2 DEF Start, TypeInv, TypeOK, Row, Saved, NoRow
    <2>2. \A k \in Jobs : (IF k \in Requeued THEN "queued" ELSE row[k].state)
                            = (IF row[k].state = "processing" THEN "queued" ELSE row[k].state)
        BY DEF Requeued, ActiveStates
    <2>3. ShownState' = [k \in Jobs |-> IF ShownState[k] = "processing" THEN "queued" ELSE ShownState[k]]
        BY <2>1, <2>2
    <2>4. accepted' = accepted
        BY <1>2 DEF Start
    <2> QED
        BY <2>3, <2>4 DEF Lifecycle!Next, Lifecycle!Restart
<1>3. ASSUME \/ Dispatch \/ Stop \/ CancelLeftovers \/ Exit \/ Crash
             \/ \E t \in Titles : RequestReplacement(t)
      PROVE  UNCHANGED <<row, accepted>>
    BY <1>3 DEF Dispatch, Stop, CancelLeftovers, Exit, Crash, Vanish, RequestReplacement, database
<1> QED
    BY <1>2, <1>3

\* Every step of the queue is a step of the lifecycle or leaves it alone.
LEMMA NextMapped ==
    PlaceInv /\ PlaceInv' /\ [Next]_vars
        => [Lifecycle!Next]_<<ShownState, accepted>>
<1> SUFFICES ASSUME PlaceInv, PlaceInv', [Next]_vars
             PROVE  Lifecycle!Next \/ UNCHANGED <<ShownState, accepted>>
    OBVIOUS
<1>1. TypeInv /\ TypeInv'
    BY DEF PlaceInv, OnceInv
<1>2. ASSUME NEW j \in Jobs, Advance(j) \/ Unwind(j) \/ (j \notin unwinding /\ (Report(j) \/ TaskRaises(j)))
      PROVE  Lifecycle!Next \/ UNCHANGED <<ShownState, accepted>>
    BY <1>1, <1>2, TaskStepWrites, TaskMapped
<1>3. CASE UNCHANGED vars
    BY <1>3 DEF vars, ShownState
<1> QED
    BY <1>1, <1>2, <1>3, HandlerMapped, ProcessMapped DEF Next

\* The job table follows JobLifecycle: a job runs only after it was queued,
\* ends only after it ran, and never comes back from its end, over crashes,
\* restarts and any interleaving; only a job whose cancellation was answered
\* with success is ever overwritten.
THEOREM ImplementsLifecycle == Spec => FollowsLifecycle
BY InitMapped, NextMapped, PlaceInvariant, PTL DEF Spec, FollowsLifecycle, Lifecycle!Spec

---------------------------------------------------------------------------
(* The library shows what the queue does *)

\* A write that gives one job a finished state and its title that same status
\* leaves every other title as it was.
LEMMA FinishingKeepsStatus ==
    ASSUME TypeInv, StatusHasJob, NEW j \in Jobs, row[j].title \in Titles,
           row'[j].state \in FinishedStates, row'[j].title = row[j].title,
           SetStatus(j, row'[j].state),
           \A k \in Jobs \ {j} : row'[k] = row[k],
           process' = process, unqueued' = unqueued,
           \A h \in Handlers : call[h].at = "insert" => call'[h] = call[h]
    PROVE  StatusHasJob'
<1>1. /\ status'[row[j].title] = row'[j].state
      /\ \A t \in Titles \ {row[j].title} : status'[t] = status[t]
    BY DEF SetStatus, TypeInv, TypeOK
<1>2. \A t \in Titles \ {row[j].title} : t \in ActiveTitles => t \in ActiveTitles'
    BY DEF ActiveTitles
<1> QED
    BY <1>1, <1>2 DEF StatusHasJob, FinishedStates

\* A step that writes neither rows nor statuses, and takes no handler away from
\* its insert, keeps the invariant.
LEMMA QuietStepsKeepStatus ==
    ASSUME StatusHasJob, UNCHANGED <<row, status>>,
           process = "down" => process' = "down", unqueued' = unqueued,
           \A h \in Handlers : call[h].at = "insert" => call'[h] = call[h] \/ process' = "down"
    PROVE  StatusHasJob'
BY DEF StatusHasJob, ActiveTitles

\* The steps of the handlers keep it: a title that is shown as queued before
\* its row is inserted is the one a handler is about to insert.
LEMMA HandlersKeepStatus ==
    ASSUME TypeInv, TypeInv', StatusHasJob, NEW h \in Handlers, Request(h) \/ Handle(h) \/ HandlerRaises(h)
    PROVE  StatusHasJob'
<1> USE DEF database, tasks, failures
<1>1. ASSUME call[h].at # "insert", \/ Request(h) \/ PutPending(h) \/ CheckRow(h)
                                    \/ CancelTask(h) \/ ReadRow(h)
      PROVE  StatusHasJob'
    <2>1. UNCHANGED <<row, status, process, unqueued>>
        BY <1>1 DEF Request, EnqueueIfNotActive, EnqueueDirectly, CheckReplacement, CancelJob, PutPending,
            CheckRow, CancelTask, ReadRow
    <2>2. \A g \in Handlers \ {h} : call'[g] = call[g]
        BY <1>1 DEF Request, EnqueueIfNotActive, EnqueueDirectly, CheckReplacement, CancelJob, PutPending,
            CheckRow, CancelTask, ReadRow, Await, Reply, TypeInv, TypeOK
    <2> QED
        BY <1>1, <2>1, <2>2, QuietStepsKeepStatus
<1>2. ASSUME \/ Request(h) \/ PutPending(h) \/ CheckRow(h) \/ CancelTask(h) \/ ReadRow(h)
      PROVE  call[h].at # "insert"
    BY <1>2 DEF Request, EnqueueIfNotActive, EnqueueDirectly, CheckReplacement, CancelJob, PutPending,
        CheckRow, CancelTask, ReadRow
<1>3. CASE InsertRow(h)
    <2>1. PICK j \in Jobs :
            /\ row[j] = NoRow
            /\ row'[j].state = "queued" /\ row'[j].title = call[h].title
            /\ \A k \in Jobs \ {j} : row'[k] = row[k]
            /\ call' = [call EXCEPT ![h] = [at |-> "put", job |-> j, title |-> call[h].title]]
        BY <1>3, InsertWrites
    <2>2. ActiveTitles \subseteq ActiveTitles' /\ call[h].title \in ActiveTitles'
        BY <2>1 DEF ActiveTitles, ActiveStates, NoRow
    <2>3. /\ status' = [status EXCEPT ![call[h].title] = "queued"]
          /\ process' = process /\ unqueued' = unqueued \ {call[h].title}
          /\ call[h].title \in Titles
        BY <1>3, HandlerWork DEF InsertRow
    <2>4. \A g \in Handlers \ {h} : call'[g] = call[g]
        BY <2>1 DEF TypeInv, TypeOK
    <2>5. \A t \in Titles \ {call[h].title} : status'[t] = status[t]
        BY <2>3 DEF TypeInv, TypeOK
    <2> QED
        BY <2>2, <2>3, <2>4, <2>5 DEF StatusHasJob
<1>4. CASE ReplacementLanded(h)
    <2>1. /\ UNCHANGED <<row, process, unqueued>> /\ call[h].at = "landing"
          /\ call[h].title \in Titles
        BY <1>4, HandlerWork DEF ReplacementLanded
    <2>2. \A g \in Handlers \ {h} : call'[g] = call[g]
        BY <1>4 DEF ReplacementLanded, Await, Reply, TypeInv, TypeOK
    <2>3. CASE UNCHANGED status
        BY <2>1, <2>2, <2>3, QuietStepsKeepStatus
    <2>4. CASE /\ status' = [status EXCEPT ![call[h].title] = "queued"]
               /\ Await(h, "insert", Nobody, call[h].title)
        <3>1. call'[h].at = "insert" /\ call'[h].title = call[h].title
            BY <2>4 DEF Await, TypeInv, TypeOK
        <3>2. \A t \in Titles \ {call[h].title} : status'[t] = status[t]
            BY <2>4 DEF TypeInv, TypeOK
        <3>3. status'[call[h].title] = "queued"
            BY <2>1, <2>4 DEF TypeInv, TypeOK
        <3>4. ActiveTitles' = ActiveTitles
            BY <2>1 DEF ActiveTitles
        <3> QED
            BY <2>1, <2>2, <3>1, <3>2, <3>3, <3>4 DEF StatusHasJob
    <2> QED
        BY <1>4, <2>3, <2>4 DEF ReplacementLanded
<1>5. CASE WriteRow(h)
    <2>1. PICK j \in Jobs : j = call[h].job
        BY <1>5, HandlerWork DEF WriteRow, CancelSteps
    <2>2. row[j].title \in Titles
        BY <2>1, HasRow
    <2>3. /\ row'[j].state = "cancelled" /\ row'[j].title = row[j].title
          /\ \A k \in Jobs \ {j} : row'[k] = row[k]
        BY <1>5, <2>1, RowWritten DEF WriteRow
    <2>4. /\ SetStatus(j, "cancelled") /\ UNCHANGED <<process, unqueued>> /\ call[h].at = "writeRow"
          /\ \A g \in Handlers \ {h} : call'[g] = call[g]
        BY <1>5, <2>1 DEF WriteRow, Reply, TypeInv, TypeOK
    <2> QED
        BY <2>2, <2>3, <2>4, FinishingKeepsStatus DEF FinishedStates
<1>6. CASE HandlerRaises(h)
    <2>1. /\ UNCHANGED <<row, status, process>>
          /\ unqueued' = IF call[h].at = "insert" THEN unqueued \cup {call[h].title} ELSE unqueued
          /\ \A g \in Handlers \ {h} : call'[g] = call[g]
        BY <1>6 DEF HandlerRaises, Reply, TypeInv, TypeOK
    <2>2. ActiveTitles' = ActiveTitles
        BY <2>1 DEF ActiveTitles
    <2> QED
        BY <2>1, <2>2 DEF StatusHasJob
<1> QED
    BY <1>1, <1>2, <1>3, <1>4, <1>5, <1>6 DEF Handle

\* The steps of a task keep it: the status and the row are written together.
LEMMA TasksKeepStatus ==
    ASSUME TypeInv, StatusHasJob, NEW j \in Jobs, TaskWrites(j)
    PROVE  StatusHasJob'
<1>1. row[j].title \in Titles
    BY HasRow DEF TaskWrites
<1>2. /\ row'[j].title = row[j].title /\ UNCHANGED <<call, process, unqueued>>
      /\ \A k \in Jobs \ {j} : row'[k] = row[k]
    BY DEF TaskWrites
<1>3. CASE MovesOn(j)
    <2>1. ActiveTitles' = ActiveTitles
        BY <1>2, <1>3 DEF MovesOn, ActiveTitles
    <2> QED
        BY <1>2, <1>3, <2>1 DEF MovesOn, StatusHasJob
<1>4. CASE Begins(j)
    <2>1. ActiveTitles \subseteq ActiveTitles' /\ row[j].title \in ActiveTitles'
        BY <1>2, <1>4 DEF Begins, ActiveTitles, ActiveStates
    <2>2. \A t \in Titles \ {row[j].title} : status'[t] = status[t]
        BY <1>4 DEF Begins, SetStatus, TypeInv, TypeOK
    <2> QED
        BY <1>2, <2>1, <2>2 DEF StatusHasJob
<1>5. CASE Ends(j)
    BY <1>1, <1>2, <1>5, FinishingKeepsStatus DEF Ends
<1> QED
    BY <1>3, <1>4, <1>5 DEF TaskWrites

\* Every step keeps it.
LEMMA NextKeepsStatus == OnceInv /\ StatusHasJob /\ [Next]_vars => StatusHasJob'
<1> SUFFICES ASSUME OnceInv, StatusHasJob, [Next]_vars PROVE StatusHasJob'
    OBVIOUS
<1>1. TypeInv /\ TypeInv'
    BY NextKeepsType DEF OnceInv
<1> USE DEF database, tasks, failures
<1>2. ASSUME NEW j \in Jobs, \/ Advance(j) \/ Unwind(j)
                             \/ j \notin unwinding /\ (Report(j) \/ TaskRaises(j))
      PROVE StatusHasJob'
    BY <1>1, <1>2, TaskStepWrites, TasksKeepStatus
<1>3. ASSUME NEW t \in Titles, RequestReplacement(t) PROVE StatusHasJob'
    <2>1. /\ UNCHANGED <<row, call, process, unqueued>>
          /\ status' = [status EXCEPT ![t] = "awaiting_mkv"]
        BY <1>3 DEF RequestReplacement
    <2>2. ActiveTitles' = ActiveTitles
        BY <2>1 DEF ActiveTitles
    <2> QED
        BY <1>1, <2>1, <2>2 DEF StatusHasJob, TypeInv, TypeOK
<1>4. CASE Dispatch \/ Stop \/ CancelLeftovers \/ Exit \/ Crash
    BY <1>4, QuietStepsKeepStatus DEF Dispatch, Stop, CancelLeftovers, Exit, Crash, Vanish
<1>5. CASE Start
    <2>1. ActiveTitles' = ActiveTitles
        <3>1. \A k \in Jobs : /\ row'[k].title = row[k].title
                              /\ row'[k].state \in ActiveStates <=> row[k].state \in ActiveStates
            BY <1>1, <1>5 DEF Start, Requeued, ActiveStates, TypeInv, TypeOK, Row, Saved, NoRow
        <3> QED
            BY <3>1 DEF ActiveTitles
    <2>2. \A t \in Titles : status'[t] = IF t \in ActiveTitles THEN "queued"
                                         ELSE IF status[t] = "queued" THEN "not_processed" ELSE status[t]
        BY <1>5 DEF Start, Reconciled
    <2> QED
        BY <2>1, <2>2 DEF StatusHasJob
<1>6. CASE UNCHANGED vars
    BY <1>6, QuietStepsKeepStatus DEF vars
<1> QED
    BY <1>1, <1>2, <1>3, <1>4, <1>5, <1>6, HandlersKeepStatus DEF Next

\* A title the library shows as processing has an unfinished job, and one it
\* shows as queued has one, is about to get it, or lost the handler that was to
\* insert it to a failing database call, whatever the handlers, the tasks and
\* the restarts do in between.
THEOREM StatusIsTrue == Spec => []StatusHasJob
<1>1. Init => StatusHasJob
    BY DEF Init, StatusHasJob
<1> QED
    BY <1>1, NextKeepsStatus, OnceInvariant, PTL DEF Spec
=============================================================================
