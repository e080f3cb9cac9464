------------------------------ MODULE JobQueue ------------------------------
(***************************************************************************)
(* The audio job queue, app.queue.worker.JobQueue, with the request        *)
(* handlers that enqueue and cancel jobs.  One asyncio process runs        *)
(* everything, so an action is the code between two awaits; what the       *)
(* database holds (row, status) survives a crash, everything else does     *)
(* not.                                                                    *)
(*                                                                         *)
(* A job row moves queued -> processing -> done / failed / cancelled.  Its *)
(* task, _run_job, is a coroutine that other code can cancel: the request  *)
(* is recorded by task.cancel() and reaches the coroutine as a             *)
(* CancelledError the next time it runs, wherever it is then suspended.    *)
(***************************************************************************)
EXTENDS Naturals, Sequences, FiniteSets

CONSTANTS
    Jobs,           \* identities of ProcessingJob rows
    Titles,         \* identities of Title rows
    Handlers,       \* request handlers and pollers that run concurrently
    ConcurrencyCap, \* the concurrency_cap setting
    MaxLives,       \* bound: how many times the process is started
    MaxFailures,    \* bound: jobs and titles that failures leave behind in one life
    Free,           \* HEAVY_PIPELINE_LOCK is not held
    Nobody          \* a handler that works on no job, or on no title

ASSUME JobQueueAssumption ==
    /\ IsFiniteSet(Jobs)
    /\ ConcurrencyCap \in Nat \ {0}
    /\ MaxLives \in Nat \ {0}
    /\ MaxFailures \in Nat
    /\ Free \notin Jobs
    /\ Nobody \notin Jobs \cup Titles

VARIABLES
    row,        \* the ProcessingJob table
    status,     \* Title.status
    pending,    \* JobQueue._pending
    at,         \* how far the task of each job is, "none" outside _running
    saw,        \* the title status the task's session loaded before "processing"
    unwinding,  \* tasks whose cancel() was called and not yet delivered
    lock,       \* HEAVY_PIPELINE_LOCK
    call,       \* the request handlers
    process,    \* is the server up
    lives,      \* how many times it was started
    accepted,   \* history: jobs whose cancel was answered with success
    broken,     \* history: jobs that a failed database call of this process left behind
    unqueued    \* history: titles it left behind with a status and no job

database == <<row, status>>
tasks    == <<pending, at, saw, unwinding, lock>>
failures == <<broken, unqueued>>
vars     == <<row, status, pending, at, saw, unwinding, lock, call, process, lives, accepted, broken, unqueued>>

---------------------------------------------------------------------------
(* Types *)

ActiveStates   == {"queued", "processing"}
FinishedStates == {"done", "failed", "cancelled"}
JobStates      == {"none"} \cup ActiveStates \cup FinishedStates
TitleStatuses  == {"not_processed", "queued", "processing", "done", "failed",
                   "cancelled", "awaiting_mkv"}

\* A row's late is "progress_percent is at least 97", which is read of a job that
\* is being processed only and kept for no other.
NoRow == [state |-> "none", title |-> Nobody, late |-> FALSE]
Saved == [state: ActiveStates \cup FinishedStates, title: Titles, late: BOOLEAN]
Row   == {NoRow} \cup Saved

\* Where _run_job is suspended.  It is inside its try block at InsideTry,
\* and inside "async with HEAVY_PIPELINE_LOCK" at Heavy.
Heavy     == {"muxing", "finishing"}
InsideTry == {"preparing", "waiting"} \cup Heavy
Saving    == {"savingDone", "savingFailed", "savingCancelled"}
TaskSteps == {"none", "loading", "starting"} \cup InsideTry \cup Saving

\* What a request handler is waiting to do next.
Idle      == [at |-> "idle", job |-> Nobody, title |-> Nobody]
Inserting == [at: {"insert", "landing"}, job: {Nobody}, title: Titles]
Putting   == [at: {"put"}, job: Jobs, title: Titles]
CancelSteps == {"checkRow", "cancelTask", "readRow", "writeRow"}
Cancelling == [at: CancelSteps, job: Jobs, title: {Nobody}]
Call      == {Idle} \cup Inserting \cup Putting \cup Cancelling

---------------------------------------------------------------------------
(* Helpers *)

Running        == {j \in Jobs : at[j] # "none"}
InPending(j)   == \E i \in DOMAIN pending : pending[i] = j
ActiveJobs(t)  == {j \in Jobs : row[j].state \in ActiveStates /\ row[j].title = t}
ActiveTitles   == {row[j].title : j \in {k \in Jobs : row[k].state \in ActiveStates}}
BeingPut(j)    == \E h \in Handlers : call[h].at = "put" /\ call[h].job = j

\* Every order in which a SELECT without ORDER BY may return the set S.
Orders(S) == {s \in [1..Cardinality(S) -> S] :
                /\ {s[i] : i \in DOMAIN s} = S
                /\ \A a, b \in DOMAIN s : s[a] = s[b] => a = b}

SetRow(j, state, late) ==
    row' = [row EXCEPT ![j] = [state |-> state, title |-> row[j].title,
                               late |-> late /\ state = "processing"]]
SetStatus(j, s) == status' = [status EXCEPT ![row[j].title] = s]
Step(j, from, to) == at[j] = from /\ at' = [at EXCEPT ![j] = to]

\* Handler h goes on to wait at step w, on job j and title t; or it answers.
Await(h, w, j, t) == call' = [call EXCEPT ![h] = [at |-> w, job |-> j, title |-> t]]
Reply(h)          == call' = [call EXCEPT ![h] = Idle]

\* The task of j ends: _run_job returns or raises, and the done callback
\* takes it out of _running.
TaskEnds(j) ==
    /\ at' = [at EXCEPT ![j] = "none"]
    /\ saw' = [saw EXCEPT ![j] = "none"]
    /\ unwinding' = unwinding \ {j}

\* Can a database call still fail?
MayFail == Cardinality(broken) + Cardinality(unqueued) < MaxFailures

\* Leaving "async with HEAVY_PIPELINE_LOCK", normally or with an exception.
KeepLock(j)  == UNCHANGED lock  \* mutant: acquired without async with
LeaveLock(j) == lock' = IF lock = j THEN Free ELSE lock

---------------------------------------------------------------------------
(* Enqueueing *)

\* enqueue_if_not_already_active looks for an active job of the title and
\* returns when there is one (scalar_one_or_none raises when there are more,
\* which ends the handler just the same).
EnqueueIfNotActive(h, t) ==
    /\ process = "up"
    /\ call[h].at = "idle"
    /\ ActiveJobs(t) = {}
    /\ Await(h, "insert", Nobody, t)
    /\ UNCHANGED <<database, tasks, process, lives, accepted, failures>>

\* process_title, process_both_title, save_kept_cues and
\* _search_and_queue_subtitle call JobQueue.enqueue without looking.
EnqueueDirectly(h, t) ==
    /\ process = "up"
    /\ call[h].at = "idle"
    /\ Await(h, "insert", Nobody, t)
    /\ UNCHANGED <<database, tasks, process, lives, accepted, failures>>

\* JobQueue.enqueue up to its commit: the new row and the title's status.
InsertRow(h) ==
    /\ call[h].at = "insert"
    /\ \E j \in Jobs :
        /\ row[j].state = "none"
        /\ row' = [row EXCEPT ![j] = [state |-> "queued", title |-> call[h].title, late |-> FALSE]]
        /\ Await(h, "put", j, call[h].title)
    /\ status' = [status EXCEPT ![call[h].title] = "queued"]
    /\ unqueued' = unqueued \ {call[h].title}
    /\ UNCHANGED <<tasks, process, lives, accepted, broken>>

\* The rest of it, after the refresh: the job id goes to _pending.
PutTitle(h) ==  \* mutant: the title's id is put
    /\ call[h].at = "put"
    /\ pending' = Append(pending, call[h].title)
    /\ Reply(h)
    /\ UNCHANGED <<database, at, saw, unwinding, lock, process, lives, accepted, failures>>
PutPending(h) ==
    /\ call[h].at = "put"
    /\ pending' = Append(pending, call[h].job)
    /\ Reply(h)
    /\ UNCHANGED <<database, at, saw, unwinding, lock, process, lives, accepted, failures>>

\* search_mkv_replacement: the title waits for Sonarr or Radarr to grab an mkv.
RequestReplacement(t) ==
    /\ process = "up"
    /\ status[t] # "awaiting_mkv"
    /\ status' = [status EXCEPT ![t] = "awaiting_mkv"]
    /\ UNCHANGED <<row, tasks, call, process, lives, accepted, failures>>

\* _check_one_replacement finds a title that waits, and asks Sonarr or Radarr.
\* The dispatcher's loop checks one title after the other.
CheckReplacement(h, t) ==
    /\ process = "up"
    /\ call[h].at = "idle"
    /\ status[t] = "awaiting_mkv"
    /\ \A g \in Handlers : call[g].at # "landing"
    /\ Await(h, "landing", Nobody, t)
    /\ UNCHANGED <<database, tasks, process, lives, accepted, failures>>

\* The new file and its subtitle are there: it commits the status "queued",
\* whatever the title's status is by now, and only then calls enqueue.  Or
\* nothing has changed yet.
ReplacementLanded(h) ==
    /\ call[h].at = "landing"
    /\ \/ /\ status' = [status EXCEPT ![call[h].title] = "queued"]
          /\ Await(h, "insert", Nobody, call[h].title)
       \/ /\ UNCHANGED status
          /\ Reply(h)
    /\ UNCHANGED <<row, tasks, process, lives, accepted, failures>>

---------------------------------------------------------------------------
(* The dispatcher *)

\* One turn of the while loop of _dispatch_loop (off-hours: any delay).  The
\* task is "loading" from create_task to the end of its first reads.
Peek ==  \* mutant: the job id is read but not taken out
    /\ process = "up"
    /\ pending # <<>>
    /\ Cardinality(Running) < ConcurrencyCap
    /\ at' = [at EXCEPT ![Head(pending)] = "loading"]
    /\ UNCHANGED <<database, pending, saw, unwinding, lock, call, process, lives, accepted, failures>>
Dispatch ==
    /\ process = "up"
    /\ pending # <<>>
    /\ Cardinality(Running) < ConcurrencyCap
    /\ pending' = Tail(pending)
    /\ at' = [at EXCEPT ![Head(pending)] = "loading"]
    /\ UNCHANGED <<database, saw, unwinding, lock, call, process, lives, accepted, failures>>

---------------------------------------------------------------------------
(* _run_job, one action per await *)

\* Its first reads: a job cancelled while pending is left alone.
Load(j) ==
    /\ at[j] = "loading"
    /\ IF row[j].state = "cancelled"
       THEN TaskEnds(j)
       ELSE /\ at' = [at EXCEPT ![j] = "starting"]
            /\ saw' = [saw EXCEPT ![j] = status[row[j].title]]
            /\ UNCHANGED unwinding
    /\ UNCHANGED <<database, pending, lock, call, process, lives, accepted, failures>>

\* The commit of "processing".  It writes the row whatever the row holds by
\* now; the ORM leaves out a title status the session already saw.
CommitProcessing(j) ==
    /\ SetRow(j, "processing", FALSE)
    /\ IF saw[j] = "processing" THEN UNCHANGED status ELSE SetStatus(j, "processing")
Begin(j) ==
    /\ Step(j, "starting", "preparing")
    /\ CommitProcessing(j)
    /\ saw' = [saw EXCEPT ![j] = "none"]
    /\ UNCHANGED <<pending, unwinding, lock, call, process, lives, accepted, failures>>

\* The subtitle is resolved, and the task asks for the lock.
Prepare(j) ==
    /\ Step(j, "preparing", "waiting")
    /\ UNCHANGED <<database, pending, saw, unwinding, lock, call, process, lives, accepted, failures>>

\* "async with HEAVY_PIPELINE_LOCK" is entered, process_video starts.
Acquire(j) ==
    /\ Step(j, "waiting", "muxing")
    /\ lock = Free
    /\ lock' = j
    /\ UNCHANGED <<database, pending, saw, unwinding, call, process, lives, accepted, failures>>

\* on_speech_progress and on_progress: the speech check runs up to 100 percent
\* and the mux that follows starts again from its own base.
Report(j) ==
    /\ at[j] = "muxing"
    /\ SetRow(j, row[j].state, ~row[j].late)
    /\ UNCHANGED <<status, tasks, call, process, lives, accepted, failures>>

\* on_stage("Verifying output"): from here on progress is at least 97, through
\* the verification, the backup and the swap.
Verify(j) ==
    /\ Step(j, "muxing", "finishing")
    /\ SetRow(j, row[j].state, TRUE)
    /\ UNCHANGED <<status, pending, saw, unwinding, lock, call, process, lives, accepted, failures>>

\* process_video returned.
Succeed(j) ==
    /\ Step(j, "finishing", "savingDone")
    /\ LeaveLock(j)
    /\ UNCHANGED <<database, pending, saw, unwinding, call, process, lives, accepted, failures>>

\* A ProcessingError, a RemuxError or any other Exception inside the try.
Fail(j) ==
    /\ at[j] \in InsideTry \ {"waiting"}
    /\ at' = [at EXCEPT ![j] = "savingFailed"]
    /\ LeaveLock(j)
    /\ UNCHANGED <<database, pending, saw, unwinding, call, process, lives, accepted, failures>>

\* The commit that ends the job, with the job's state and the title's status.
Outcome(j) == CASE at[j] = "savingDone"      -> "done"
                [] at[j] = "savingFailed"    -> "failed"
                [] at[j] = "savingCancelled" -> "cancelled"
CommitOutcome(j) ==
    /\ SetRow(j, Outcome(j), FALSE)
    /\ SetStatus(j, Outcome(j))
Save(j) ==
    /\ at[j] \in Saving
    /\ CommitOutcome(j)
    /\ TaskEnds(j)
    /\ UNCHANGED <<pending, lock, call, process, lives, accepted, failures>>

\* CancelledError is raised where the task is suspended.  Before the try block
\* and in the last commit nothing catches it: the commit in flight took effect
\* or was rolled back, and the task is gone.  Inside the try block the handler
\* goes on to save "cancelled".
Unwind(j) ==
    /\ j \in unwinding
    /\ \/ /\ at[j] \in {"loading", "starting"} \cup Saving
          /\ TaskEnds(j)
          /\ UNCHANGED <<database, lock>>
       \/ /\ at[j] = "starting"
          /\ CommitProcessing(j)
          /\ TaskEnds(j)
          /\ UNCHANGED lock
       \/ /\ at[j] \in Saving
          /\ CommitOutcome(j)
          /\ TaskEnds(j)
          /\ UNCHANGED lock
       \/ /\ at[j] \in InsideTry
          /\ at' = [at EXCEPT ![j] = "savingCancelled"]
          /\ LeaveLock(j)
          /\ unwinding' = unwinding \ {j}
          /\ UNCHANGED <<database, saw>>
    /\ UNCHANGED <<pending, call, process, lives, accepted, failures>>

\* A task with a cancellation to deliver does nothing else.
Advance(j) ==
    /\ j \notin unwinding
    /\ \/ Load(j) \/ Begin(j) \/ Prepare(j) \/ Acquire(j)
       \/ Verify(j) \/ Succeed(j) \/ Fail(j) \/ Save(j)

\* A database call of the task raises: "database is locked", when a long sync
\* keeps SQLite's lock for longer than the 5 seconds a connection waits.  Before
\* the try block and in the last commit nothing catches it.  Inside, the except
\* clause begins by logging title.id, which the rollback has expired and an
\* async session cannot load again, so that it raises too.  The row stays as it
\* is; "async with" gives the lock back.
TaskRaises(j) ==
    /\ MayFail
    /\ at[j] \in {"loading", "starting"} \cup (InsideTry \ {"waiting"}) \cup Saving
    /\ TaskEnds(j)
    /\ LeaveLock(j)
    /\ broken' = broken \cup {j}
    /\ UNCHANGED <<database, pending, call, process, lives, accepted, unqueued>>

---------------------------------------------------------------------------
(* cancel_job *)

\* A job with a task is cancelled through the task, any other through its row.
CancelJob(h, j) ==
    /\ process = "up"
    /\ call[h].at = "idle"
    /\ row[j].state \in ActiveStates
    /\ Await(h, IF j \in Running THEN "checkRow" ELSE "readRow", j, Nobody)
    /\ UNCHANGED <<database, tasks, process, lives, accepted, failures>>

TooLate(j) == row[j].state = "processing" /\ row[j].late
CheckRow(h) ==
    LET j == call[h].job IN
    /\ call[h].at = "checkRow"
    /\ IF row[j].state \notin ActiveStates \/ TooLate(j)
       THEN Reply(h)
       ELSE Await(h, "cancelTask", j, Nobody)
    /\ UNCHANGED <<database, tasks, process, lives, accepted, failures>>

\* task.cancel(), after the session is closed: a finished task ignores it.
CancelTask(h) ==
    LET j == call[h].job IN
    /\ call[h].at = "cancelTask"
    /\ unwinding' = IF j \in Running THEN unwinding \cup {j} ELSE unwinding
    /\ accepted' = accepted \cup {j}
    /\ Reply(h)
    /\ UNCHANGED <<database, pending, at, saw, lock, process, lives, failures>>

ReadRow(h) ==
    /\ call[h].at = "readRow"
    /\ IF row[call[h].job].state # "queued"
       THEN Reply(h)
       ELSE Await(h, "writeRow", call[h].job, Nobody)
    /\ UNCHANGED <<database, tasks, process, lives, accepted, failures>>

\* The row read as queued is committed as cancelled, whatever it holds by now.
\* The job is changed before session.get(Title), which therefore flushes it first
\* (the sessions have autoflush): the title is read under SQLite's write lock and
\* nobody writes it between the read and the commit.  A status that the ORM leaves
\* out because it was read as "cancelled" is "cancelled" when this commits.
WriteRow(h) ==
    LET j == call[h].job IN
    /\ call[h].at = "writeRow"
    /\ SetRow(j, "cancelled", FALSE)
    /\ SetStatus(j, "cancelled")
    /\ accepted' = accepted \cup {j}
    /\ Reply(h)
    /\ UNCHANGED <<tasks, process, lives, failures>>

\* A database call of a handler raises, as one of a task does, and ends it.  In
\* enqueue that is after the commit of the row (the refresh), or before it, when
\* the replacement watcher has already committed the title's status.
HandlerRaises(h) ==
    LET c == call[h] IN
    /\ MayFail
    /\ c.at \in {"insert", "put", "landing", "checkRow", "readRow", "writeRow"}
    /\ Reply(h)
    /\ broken' = IF c.at = "put" THEN broken \cup {c.job} ELSE broken
    /\ unqueued' = IF c.at = "insert" THEN unqueued \cup {c.title} ELSE unqueued
    /\ UNCHANGED <<database, tasks, process, lives, accepted>>

---------------------------------------------------------------------------
(* Start, stop and crash *)

\* stop(): the dispatcher and every task are cancelled; the event loop then
\* runs until they are gone, cancelling whatever is left once more.
Stop ==
    /\ process = "up"
    /\ lives < MaxLives
    /\ process' = "stopping"
    /\ unwinding' = Running
    /\ UNCHANGED <<database, pending, at, saw, lock, call, lives, accepted, failures>>

CancelLeftovers ==
    /\ process = "stopping"
    /\ process' = "closing"
    /\ unwinding' = Running
    /\ UNCHANGED <<database, pending, at, saw, lock, call, lives, accepted, failures>>

\* The process is gone and with it everything that is not in the database.
Vanish ==
    /\ process' = "down"
    /\ pending' = <<>>
    /\ at' = [j \in Jobs |-> "none"]
    /\ saw' = [j \in Jobs |-> "none"]
    /\ unwinding' = {}
    /\ lock' = Free
    /\ call' = [h \in Handlers |-> Idle]
    /\ UNCHANGED <<database, lives, accepted, failures>>
Exit  == process = "closing" /\ Running = {} /\ Vanish
Crash == process # "down" /\ lives < MaxLives /\ Vanish

\* JobQueue.start: active rows are queued again, their titles too, and a
\* title left "queued" without a job goes back to not_processed.
QueuedOnly   == {j \in Jobs : row[j].state = "queued"}          \* mutant
AllUnfinished == {j \in Jobs : row[j].state \in ActiveStates \cup {"failed"}}  \* mutant
Requeued     == {j \in Jobs : row[j].state \in ActiveStates}
NotReconciled ==  \* mutant
    [t \in Titles |-> IF t \in ActiveTitles THEN "queued" ELSE status[t]]
Reconciled == [t \in Titles |->
                 IF t \in ActiveTitles THEN "queued"
                 ELSE IF status[t] = "queued" THEN "not_processed" ELSE status[t]]
Start ==
    /\ process = "down"
    /\ lives < MaxLives
    /\ process' = "up"
    /\ lives' = lives + 1
    /\ row' = [j \in Jobs |-> IF j \in Requeued
                              THEN [state |-> "queued", title |-> row[j].title, late |-> FALSE]
                              ELSE row[j]]
    /\ status' = Reconciled
    /\ pending' \in Orders(Requeued)
    /\ broken' = {} /\ unqueued' = {}
    /\ UNCHANGED <<at, saw, unwinding, lock, call, accepted>>

---------------------------------------------------------------------------
(* Specification *)

Init ==
    /\ row = [j \in Jobs |-> NoRow]
    /\ status = [t \in Titles |-> "not_processed"]
    /\ pending = <<>>
    /\ at = [j \in Jobs |-> "none"]
    /\ saw = [j \in Jobs |-> "none"]
    /\ unwinding = {}
    /\ lock = Free
    /\ call = [h \in Handlers |-> Idle]
    /\ process = "down"
    /\ lives = 0
    /\ accepted = {}
    /\ broken = {} /\ unqueued = {}

Request(h) ==
    \/ \E t \in Titles : EnqueueIfNotActive(h, t) \/ EnqueueDirectly(h, t) \/ CheckReplacement(h, t)
    \/ \E j \in Jobs : CancelJob(h, j)
Handle(h) ==
    \/ InsertRow(h) \/ PutPending(h) \/ ReplacementLanded(h)
    \/ CheckRow(h) \/ CancelTask(h) \/ ReadRow(h) \/ WriteRow(h)

Next ==
    \/ \E h \in Handlers : Request(h) \/ Handle(h) \/ HandlerRaises(h)
    \/ \E t \in Titles : RequestReplacement(t)
    \/ \E j \in Jobs : Advance(j) \/ Unwind(j)
    \/ \E j \in Jobs : j \notin unwinding /\ (Report(j) \/ TaskRaises(j))
    \/ Dispatch \/ Stop \/ CancelLeftovers \/ Exit \/ Crash \/ Start

Spec == Init /\ [][Next]_vars

\* The event loop runs every ready coroutine, the dispatcher polls, and the
\* container is started again; nothing makes a user ask for anything.
Fairness ==
    /\ WF_vars(Start) /\ WF_vars(Dispatch) /\ WF_vars(CancelLeftovers) /\ WF_vars(Exit)
    /\ \A j \in Jobs : WF_vars(Advance(j)) /\ WF_vars(Unwind(j))
    /\ \A h \in Handlers : WF_vars(Handle(h))

FairSpec == Spec /\ Fairness

---------------------------------------------------------------------------
(* Properties *)

TypeOK ==
    /\ row \in [Jobs -> Row]
    /\ status \in [Titles -> TitleStatuses]
    /\ pending \in Seq(Jobs)
    /\ at \in [Jobs -> TaskSteps]
    /\ saw \in [Jobs -> TitleStatuses \cup {"none"}]
    /\ unwinding \in SUBSET Jobs
    /\ lock \in Jobs \cup {Free}
    /\ call \in [Handlers -> Call]
    /\ process \in {"up", "stopping", "closing", "down"}
    /\ lives \in 0..MaxLives
    /\ accepted \in SUBSET Jobs
    /\ broken \in SUBSET Jobs /\ unqueued \in SUBSET Titles

\* A job is in at most one place: once in _pending, or in one task, or on its
\* way to _pending in one handler.  _dispatch_loop registers a task under the
\* job id without looking whether there is one already.
NoJobTwice ==
    /\ \A a, b \in DOMAIN pending : pending[a] = pending[b] => a = b
    /\ \A j \in Jobs : InPending(j) => j \notin Running
    /\ \A g \in Handlers : call[g].at = "put" =>
          /\ ~InPending(call[g].job)
          /\ call[g].job \notin Running
          /\ \A h \in Handlers : call[h].at = "put" /\ call[h].job = call[g].job => g = h

Owned(j) == InPending(j) \/ j \in Running \/ BeingPut(j)

\* While the server is up, a job the table shows as queued or processing is
\* waiting in _pending, has a task, or is about to be put: nothing is lost
\* between the table and memory.  There are two exceptions: a job whose
\* cancel_job was answered with success, and one whose task or enqueue ended in
\* a database call that raised, until the next start, which queues it again.
NoJobIsLost ==
    process = "up" =>
        \A j \in Jobs : row[j].state \in ActiveStates => Owned(j) \/ j \in accepted \cup broken

\* A title the library shows as processing has an active job, and one it shows
\* as queued has one too or a handler is about to insert it (or died with the
\* process, or in a database call that raised, before it could, which start()
\* repairs).
StatusHasJob ==
    \A t \in Titles :
        /\ status[t] = "processing" => t \in ActiveTitles
        /\ status[t] = "queued" => \/ t \in ActiveTitles
                                   \/ process = "down"
                                   \/ t \in unqueued
                                   \/ \E h \in Handlers : call[h].at = "insert" /\ call[h].title = t

\* HEAVY_PIPELINE_LOCK is held exactly by the task inside process_video: no two
\* are inside at once, and no way out of it, cancellation and failure
\* included, leaves the lock taken.
OneHeavyTask == \A j \in Jobs : at[j] \in Heavy <=> lock = j

\* What the table shows of a job follows JobLifecycle.
ShownState == [j \in Jobs |-> row[j].state]
Lifecycle == INSTANCE JobLifecycle WITH state <- ShownState, asked <- accepted
FollowsLifecycle == Lifecycle!Spec

\* Every job that is queued or processing ends, over crashes and restarts,
\* unless a cancellation was answered with success or a database call raised in
\* its task or its enqueue: such a job waits for a start, and from then on it is
\* like any other.
EveryJobEnds ==
    \A j \in Jobs : row[j].state \in ActiveStates ~>
                        (row[j].state \in FinishedStates \/ j \in accepted \cup broken)

\* cancel_job leaves the row to the task: "Let _run_job's own CancelledError
\* handler own the state transition".  So a job whose cancel succeeded is not
\* left queued or processing with no task and no place in _pending.
CancelLeavesNoStrandedJob ==
    process = "up" => \A j \in accepted \ broken : row[j].state \in ActiveStates => Owned(j)

=============================================================================
