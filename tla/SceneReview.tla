----------------------------- MODULE SceneReview -----------------------------
(***************************************************************************)
(* Scene detection for one title: the jobs of SceneJobQueue and the        *)
(* detected scenes they share with the person who reviews them.  A scan    *)
(* finds scenes and may approve them and chain a blur; a blur bakes the    *)
(* approved scenes into the "Vulgarr Edit" file; a Claude pass asks a      *)
(* vision model about every scene that is not rejected; meanwhile the      *)
(* reviewer approves, rejects and adds scenes and starts and cancels jobs. *)
(*                                                                         *)
(* Jobs run one at a time under HEAVY_PIPELINE_LOCK.  The rows and the     *)
(* Edit file survive a crash; tasks, the lock and the queue do not.  How   *)
(* a job gets from the queue to its end is modelled in detail in JobQueue, *)
(* which this queue mirrors; here a task's first reads are one step.       *)
(*                                                                         *)
(* A task whose database call raises, or is cut off by a cancel, outside   *)
(* the try block of _run_job or in one of its handlers ends without        *)
(* writing its row: the job is lost until the next start.                  *)
(***************************************************************************)
EXTENDS Naturals, Sequences, FiniteSets

CONSTANTS
    MaxJobs,   \* bound: jobs in a behaviour
    Scenes,    \* the slots of the title's detected scenes
    Handlers,  \* web requests that can be in the middle of enqueuing or cancelling
    Cap,       \* scene_scan_concurrency_cap
    MaxLives,  \* bound: how many times the process is started
    MaxFailures, \* bound: the jobs lost in one life when a database call raises
    Free       \* HEAVY_PIPELINE_LOCK is not held

ASSUME SceneReviewAssumption ==
    /\ MaxJobs \in Nat
    /\ IsFiniteSet(Scenes)
    /\ Cap \in Nat \ {0}
    /\ MaxLives \in Nat \ {0}
    /\ MaxFailures \in Nat
    /\ Free \notin 1..MaxJobs

VARIABLES
    job,      \* the SceneJob rows, in the order of their ids
    scan,     \* Title.scene_scan_status
    scene,    \* the DetectedScene rows
    edit,     \* the scenes baked into the Vulgarr Edit file
    auto,     \* the setting scene_auto_process
    hits,     \* how many scenes a scan finds in this video
    pending,  \* SceneJobQueue._pending
    task,     \* each job's task: where it is and what it has read
    lock,     \* HEAVY_PIPELINE_LOCK
    handler,  \* each request: what it is about to enqueue, or to cancel
    asked,    \* jobs whose cancel_job passed its check, not yet cancelled
    process,  \* is the server up
    lives,    \* how many times it was started
    lost      \* history: the jobs a database call of this process left behind

settings == <<auto, hits>>
server   == <<process, lives>>
vars     == <<job, scan, scene, edit, auto, hits, pending, task, lock, handler, asked,
              process, lives, lost>>

---------------------------------------------------------------------------
(* Rows *)

Jobs   == 1..MaxJobs
Kinds  == {"scan", "blur", "claude_verify"}
States == {"queued", "processing", "done", "failed", "cancelled"}
Status == {"none", "pending", "approved", "rejected"}  \* "none": no such row
Steps  == {"none", "new", "starting", "waiting", "working", "loaded", "published", "stored",
           "chaining", "enqueuing", "finishing", "over"}
ScanStatus == {"not_scanned", "queued", "scanning", "scanned", "no_scenes_found", "scan_failed"}

Ids          == DOMAIN job
Active(j)    == job[j].state \in {"queued", "processing"}
ActiveOf(k)  == {j \in Ids : job[j].kind = k /\ Active(j)}
Kind(j)      == job[j].kind
WithStatus(S) == {s \in Scenes : scene[s].status \in S}

\* A scene's by is history: the scan that approved it on its own and has not found
\* the setting off since, or 0.
\* Of what a task has read: said, the title already reads "scanning"; auto, the
\* setting when its scan began; seen and todo, the scenes.
NoScene == [status |-> "none", applied |-> FALSE, by |-> 0]
NoTask  == [at |-> "none", said |-> FALSE, auto |-> FALSE, seen |-> [s \in Scenes |-> "none"],
            todo |-> {}, published |-> FALSE]
Running == {j \in Jobs : task[j].at \notin {"none", "over"}}

SetState(j, s) == job' = [job EXCEPT ![j].state = s]
Goes(j, at)    == task' = [task EXCEPT ![j].at = at]
Forgets(j, at) == task' = [task EXCEPT ![j] = [NoTask EXCEPT !.at = at, !.published = task[j].published]]
At(j, at)      == j \in Ids /\ task[j].at = at

\* enqueue_scan, enqueue_blur, enqueue_claude_verify: the row is committed, the
\* id put on the queue; a scan is announced on the title.
NewJob(k) == [kind |-> k, state |-> "queued"]
Inserted(k) ==
    /\ Len(job) < MaxJobs
    /\ job' = Append(job, NewJob(k))
    /\ scan' = IF k = "scan" THEN "queued" ELSE scan
Enqueued(k) == Inserted(k) /\ pending' = Append(pending, Len(job) + 1)

\* A request awaits the database before it enqueues a job of a kind or writes
\* the row of the job it cancels.
Idle            == [does |-> "idle", job |-> 0]
Awaits(h, k, j) == handler' = [handler EXCEPT ![h] = [does |-> k, job |-> j]]
Replies(h)      == handler' = [handler EXCEPT ![h] = Idle]
Enqueues(h)     == handler[h].does \in Kinds

\* Can a database call still raise?
MayFail == Cardinality(lost) < MaxFailures

---------------------------------------------------------------------------
(* Requests *)

\* enqueue_..._if_not_already_active looks for an active job of the kind;
\* Apply looks for an approved scene first ...
AnyKind(k)    == \A j \in Ids : ~Active(j)  \* mutant: the query forgets the kind
NoneActive(k) == ActiveOf(k) = {}
Click(h, k) ==
    /\ process = "up"
    /\ handler[h] = Idle
    /\ NoneActive(k)
    /\ k = "blur" => WithStatus({"approved"}) # {}
    /\ Awaits(h, k, 0)
    /\ UNCHANGED <<job, scan, scene, edit, settings, pending, task, lock, asked, server, lost>>

\* ... and enqueues in another session.
ClickEnqueues(h) ==
    /\ Enqueues(h)
    /\ Enqueued(handler[h].does)
    /\ Replies(h)
    /\ UNCHANGED <<scene, edit, settings, task, lock, asked, server, lost>>

\* The refresh after the commit can raise: the row is there, its id on no queue.
ClickStrands(h) ==
    /\ Enqueues(h) /\ MayFail
    /\ Inserted(handler[h].does)
    /\ lost' = lost \cup {Len(job) + 1}
    /\ Replies(h)
    /\ UNCHANGED <<scene, edit, settings, pending, task, lock, asked, server>>

\* The settings form turns scene_auto_process on or off.
ToggleAuto ==
    /\ process = "up"
    /\ auto' = ~auto
    /\ UNCHANGED <<job, scan, scene, edit, hits, pending, task, lock, handler, asked, server, lost>>

\* approve_scene, approve_all_scenes, reject_scene; add_manual_scenes.
Review(s, status) ==
    /\ process = "up"
    /\ scene[s].status \notin {"none", status}
    /\ scene' = [scene EXCEPT ![s].status = status, ![s].by = 0]
    /\ UNCHANGED <<job, scan, edit, settings, pending, task, lock, handler, asked, server, lost>>
AddManual(s) ==
    /\ process = "up"
    /\ scene[s].status = "none"
    /\ scene' = [scene EXCEPT ![s].status = "approved"]
    /\ UNCHANGED <<job, scan, edit, settings, pending, task, lock, handler, asked, server, lost>>

---------------------------------------------------------------------------
(* Dispatch and the start of a job *)

Dispatch ==
    /\ process = "up"
    /\ pending # <<>>
    /\ Cardinality(Running) < Cap
    /\ pending' = Tail(pending)
    /\ Goes(Head(pending), "new")
    /\ UNCHANGED <<job, scan, scene, edit, settings, lock, handler, asked, server, lost>>

\* _run_job loads the row and the title ...
Begin(j) ==
    /\ At(j, "new")
    /\ task' = [task EXCEPT ![j].at = IF job[j].state = "cancelled" THEN "over" ELSE "starting",
                            ![j].said = job[j].state # "cancelled" /\ scan = "scanning"]
    /\ UNCHANGED <<job, scan, scene, edit, settings, pending, lock, handler, asked, server, lost>>

\* ... and commits that it runs, whatever has become of the row.  The ORM does
\* not write a title status that it loaded as such.
Started(j) ==
    /\ At(j, "starting")
    /\ task' = [task EXCEPT ![j].at = "waiting", ![j].said = FALSE]
    /\ SetState(j, "processing")
    /\ scan' = IF Kind(j) = "scan" /\ ~task[j].said THEN "scanning" ELSE scan
    /\ UNCHANGED <<scene, edit, settings, pending, lock, handler, asked, server, lost>>

\* A scan reads the settings as soon as it has the lock.
Acquire(j) ==
    /\ At(j, "waiting")
    /\ lock = Free
    /\ lock' = j
    /\ task' = [task EXCEPT ![j].at = "working", ![j].auto = Kind(j) = "scan" /\ auto]
    /\ UNCHANGED <<job, scan, scene, edit, settings, pending, handler, asked, server, lost>>

\* What the job selects of the scenes: a scan after all its frames, the pending
\* and rejected ones; a blur the approved ones; Claude those not rejected.
Load(j) ==
    /\ At(j, "working")
    /\ Kind(j) = "blur" => WithStatus({"approved"}) # {}
    /\ task' = [task EXCEPT ![j].at = "loaded", ![j].seen = [s \in Scenes |-> scene[s].status],
                            ![j].todo = IF Kind(j) = "claude_verify"
                                        THEN WithStatus({"pending", "approved"}) ELSE {}]
    /\ UNCHANGED <<job, scan, scene, edit, settings, pending, lock, handler, asked, server, lost>>
Seen(j, S) == {s \in Scenes : task[j].seen[s] \in S}

\* The end of a job's row and task.  A lock it still holds is released: between
\* the release and this commit nothing that takes the lock gets any work done.
LeaveLock(j) == lock' = IF lock = j THEN Free ELSE lock
Ends(j, outcome) ==
    /\ SetState(j, outcome)
    /\ Forgets(j, "over")
    /\ LeaveLock(j)
    /\ asked' = asked \ {j}

---------------------------------------------------------------------------
(* scan_for_scenes and what follows it *)

\* A fresh candidate's status.  Without the Claude filter it is approved or left
\* pending, as the setting was when the scan began; with it, Claude decides.
Verdicts == {"none", "yes", "no", "unknown"}
FreshStatus(j, verdict) ==
    CASE task[j].auto /\ verdict \in {"none", "yes"} -> "approved"
      [] verdict = "no"                      -> "rejected"
      [] OTHER                               -> "pending"

\* One transaction drops the earlier candidates it selected and adds its own.
Dropped(j) == Seen(j, {"pending", "rejected"})
ScanStore(j) ==
    /\ At(j, "loaded") /\ Kind(j) = "scan"
    /\ \E found \in SUBSET (Dropped(j) \cup WithStatus({"none"})), verdict \in Verdicts :
         /\ Cardinality(found) = hits
         /\ LET fresh == FreshStatus(j, verdict) IN
            scene' = [s \in Scenes |->
                        IF s \in found THEN [NoScene EXCEPT !.status = fresh, !.by = IF fresh = "approved" THEN j ELSE 0]
                        ELSE IF s \in Dropped(j) THEN NoScene ELSE scene[s]]
    /\ LeaveLock(j)
    /\ Forgets(j, "stored")
    /\ UNCHANGED <<job, scan, edit, settings, pending, handler, asked, server, lost>>

\* The setting is read again.  With auto-process on by now and something found,
\* the scan is committed as such and a blur is chained to it; else that is all.
JobState == "done"  \* mutant: the job's state is written
Found == IF hits > 0 THEN "scanned" ELSE "no_scenes_found"
Chains == hits > 0 /\ auto
ScanReport(j) ==
    /\ At(j, "stored")
    /\ scan' = Found
    /\ IF Chains
       THEN Goes(j, "chaining") /\ UNCHANGED <<job, lock, asked>>
       ELSE Ends(j, "done")
    /\ scene' = IF auto THEN scene
                ELSE [s \in Scenes |-> [scene[s] EXCEPT !.by = IF @ = j THEN 0 ELSE @]]
    /\ UNCHANGED <<edit, settings, pending, handler, server, lost>>

\* enqueue_blur_if_not_already_active again; two active blurs make it raise.
ChainCheck(j) ==
    /\ At(j, "chaining")
    /\ Cardinality(ActiveOf("blur")) < 2
    /\ Goes(j, IF NoneActive("blur") THEN "enqueuing" ELSE "finishing")
    /\ UNCHANGED <<job, scan, scene, edit, settings, pending, lock, handler, asked, server, lost>>
ChainEnqueues(j) ==
    /\ At(j, "enqueuing")
    /\ Enqueued("blur")
    /\ Goes(j, "finishing")
    /\ UNCHANGED <<scene, edit, settings, lock, handler, asked, server, lost>>
ScanDone(j) ==
    /\ At(j, "finishing")
    /\ Ends(j, "done")
    /\ UNCHANGED <<scan, scene, edit, settings, pending, handler, server, lost>>

---------------------------------------------------------------------------
(* apply_scene_blur *)

\* The verified output replaces the Edit file in one rename ...
BlurPublish(j) ==
    /\ At(j, "loaded") /\ Kind(j) = "blur"
    /\ edit' = Seen(j, {"approved"})
    /\ task' = [task EXCEPT ![j].at = "published", ![j].published = TRUE]
    /\ UNCHANGED <<job, scan, scene, settings, pending, lock, handler, asked, server, lost>>

\* ... and then the rows say so: the scenes that were loaded are applied, and
\* whatever is not approved by now is not.
MarkApplied(j)  == [s \in Scenes |-> [scene[s] EXCEPT !.applied = @ \/ s \in Seen(j, {"approved"})]]
ClearStale(all) == [s \in Scenes |-> [all[s] EXCEPT !.applied = @ /\ all[s].status = "approved"]]
BlurRecord(j) ==
    /\ At(j, "published")
    /\ scene' = ClearStale(MarkApplied(j))
    /\ Ends(j, "done")
    /\ UNCHANGED <<scan, edit, settings, pending, handler, server, lost>>

---------------------------------------------------------------------------
(* reverify_scenes_with_claude *)

\* One scene's verdict is committed before the next is asked for.  The ORM
\* writes a status that differs from the one it loaded; a failed call none.
ClaudeVerdict(j) ==
    /\ At(j, "loaded") /\ Kind(j) = "claude_verify"
    /\ \E s \in task[j].todo, verdict \in {"approved", "rejected", "failed"} :
         /\ task' = [task EXCEPT ![j].todo = @ \ {s}]
         /\ scene' = IF verdict \in {"failed", task[j].seen[s]} THEN scene
                     ELSE [scene EXCEPT ![s].status = verdict, ![s].by = 0]
    /\ UNCHANGED <<job, scan, edit, settings, pending, lock, handler, asked, server, lost>>
ClaudeDone(j) ==
    /\ At(j, "loaded") /\ Kind(j) = "claude_verify"
    /\ task[j].todo = {}
    /\ Ends(j, "done")
    /\ UNCHANGED <<scan, scene, edit, settings, pending, handler, server, lost>>

---------------------------------------------------------------------------
(* Failure and cancellation *)

\* Anything the pipeline does can fail, and so can the chained enqueue.
Fail(j) ==
    /\ \/ task[j].at \in {"working", "loaded"}
       \/ task[j].at = "chaining" /\ (Cardinality(ActiveOf("blur")) > 1 \/ MayFail)
       \/ task[j].at = "enqueuing" /\ MayFail
    /\ Ends(j, "failed")
    /\ scan' = IF Kind(j) = "scan" THEN "scan_failed" ELSE scan
    /\ UNCHANGED <<scene, edit, settings, pending, handler, server, lost>>

\* cancel_job finds a queued row of a job that has no task ...
FindQueued(h, j) ==
    /\ process = "up" /\ j \in Ids
    /\ handler[h] = Idle
    /\ job[j].state = "queued" /\ j \notin Running
    /\ Awaits(h, "cancel", j)
    /\ UNCHANGED <<job, scan, scene, edit, settings, pending, task, lock, asked, server, lost>>

\* ... and makes it cancelled, whatever became of it since.  Its UPDATE is flushed
\* before the title is read, under SQLite's write lock, so the title's status is
\* not stale: a write the ORM skips would change nothing.
CancelQueued(h) ==
    /\ handler[h].does = "cancel"
    /\ SetState(handler[h].job, "cancelled")
    /\ scan' = IF Kind(handler[h].job) = "scan" THEN "not_scanned" ELSE scan
    /\ Replies(h)
    /\ UNCHANGED <<scene, edit, settings, pending, task, lock, asked, server, lost>>

\* A job with a task below 97% is cancelled a few awaits after the check.  A
\* blur that mutes audio too reports half its progress and stays below.
AskCancel(j) ==
    /\ process = "up" /\ j \in Running
    /\ Active(j)
    /\ asked' = asked \cup {j}
    /\ UNCHANGED <<job, scan, scene, edit, settings, pending, task, lock, handler, server, lost>>

\* The cancel of a task that is over does nothing; else its CancelledError is
\* handled.  A blur that has published ends with its loaded scenes applied and
\* the stale ones perhaps not cleared.
Handled(j) == task[j].at \notin {"none", "new", "starting", "over"}
Cancel(j) ==
    /\ j \in asked
    /\ \/ /\ task[j].at = "over"
          /\ asked' = asked \ {j}
          /\ UNCHANGED <<job, scan, scene, task, lock>>
       \/ /\ Handled(j)
          /\ Ends(j, "cancelled")
          /\ scan' = IF Kind(j) = "scan" THEN "not_scanned" ELSE scan
          /\ scene' = IF task[j].at = "published" THEN MarkApplied(j) ELSE scene
    /\ UNCHANGED <<edit, settings, pending, handler, server, lost>>

\* A task ends in a database call, its row as it was: a call that raises before
\* the try block, after it or in a handler, or one in the try block that leaves
\* the handlers with expired rows; or a cancel there.  What apply_scene_blur
\* itself commits last may have got through.
Lose(j) ==
    /\ j \in Ids /\ j \in Running
    /\ j \in asked \/ MayFail
    /\ Forgets(j, "over")
    /\ LeaveLock(j)
    /\ asked' = asked \ {j}
    /\ lost' = lost \cup {j}
    /\ scene' \in {scene} \cup IF task[j].at = "published" THEN {ClearStale(MarkApplied(j))} ELSE {}
    /\ UNCHANGED <<job, scan, edit, settings, pending, handler, server>>

\* A scan's chained enqueue raises, or is cancelled, between the commit of the
\* blur's row and the put of its id: the scan ends, the blur is lost.
ChainStrands(j) ==
    /\ At(j, "enqueuing") /\ Len(job) < MaxJobs
    /\ \/ MayFail /\ scan' = "scan_failed" /\ job' = Append([job EXCEPT ![j].state = "failed"], NewJob("blur"))
       \/ j \in asked /\ scan' = "not_scanned" /\ job' = Append([job EXCEPT ![j].state = "cancelled"], NewJob("blur"))
    /\ Forgets(j, "over")
    /\ LeaveLock(j)
    /\ asked' = asked \ {j}
    /\ lost' = lost \cup {Len(job) + 1}
    /\ UNCHANGED <<scene, edit, settings, pending, handler, server>>

---------------------------------------------------------------------------
(* Crash and restart *)

\* The process dies, or is stopped before its tasks could write anything.
Crash ==
    /\ process = "up"
    /\ lives < MaxLives
    /\ process' = "down"
    /\ pending' = <<>>
    /\ lock' = Free
    /\ asked' = {}
    /\ handler' = [h \in Handlers |-> Idle]
    /\ task' = [j \in Jobs |-> [NoTask EXCEPT !.published = task[j].published]]
    /\ UNCHANGED <<job, scan, scene, edit, settings, lives, lost>>

\* start(): every unfinished job is queued again, whatever its kind the title's
\* status says so, and a status without an unfinished scan is reset.
Requeued   == {j \in Ids : Active(j)}
NotReconciled == IF Requeued # {} THEN "queued" ELSE scan  \* mutant
Reconciled ==
    LET said == IF Requeued # {} THEN "queued" ELSE scan
    IN  IF said \in {"queued", "scanning"} /\ ActiveOf("scan") = {} THEN "not_scanned" ELSE said
InOrder(S) == CHOOSE q \in [1..Cardinality(S) -> S] :
                /\ \A j \in S : \E a \in DOMAIN q : q[a] = j
                /\ \A a, b \in DOMAIN q : a < b => q[a] < q[b]
Start ==
    /\ process = "down"
    /\ lives < MaxLives
    /\ process' = "up"
    /\ lives' = lives + 1
    /\ job' = [j \in Ids |-> IF j \in Requeued THEN [job[j] EXCEPT !.state = "queued"] ELSE job[j]]
    /\ scan' = Reconciled
    /\ pending' = InOrder(Requeued)
    /\ lost' = {}
    /\ UNCHANGED <<scene, edit, settings, task, lock, handler, asked>>

---------------------------------------------------------------------------
(* Specification *)

Init ==
    /\ job = <<>>
    /\ scan = "not_scanned"
    /\ scene = [s \in Scenes |-> NoScene]
    /\ edit = {}
    /\ auto \in BOOLEAN
    /\ hits \in 0..1
    /\ pending = <<>>
    /\ task = [j \in Jobs |-> NoTask]
    /\ lock = Free
    /\ handler = [h \in Handlers |-> Idle]
    /\ asked = {}
    /\ process = "down"
    /\ lives = 0
    /\ lost = {}

Advance(j) ==
    \/ Begin(j) \/ Started(j) \/ Acquire(j) \/ Load(j)
    \/ ScanStore(j) \/ ScanReport(j) \/ ChainCheck(j) \/ ChainEnqueues(j) \/ ScanDone(j)
    \/ BlurPublish(j) \/ BlurRecord(j)
    \/ ClaudeVerdict(j) \/ ClaudeDone(j)

Next ==
    \/ \E j \in Jobs : Advance(j) \/ Fail(j) \/ Lose(j) \/ ChainStrands(j)
    \/ \E j \in Jobs : AskCancel(j) \/ Cancel(j) \/ \E h \in Handlers : FindQueued(h, j)
    \/ \E h \in Handlers : (\E k \in Kinds : Click(h, k)) \/ ClickEnqueues(h) \/ ClickStrands(h) \/ CancelQueued(h)
    \/ ToggleAuto
    \/ \E s \in Scenes : Review(s, "approved") \/ Review(s, "rejected") \/ AddManual(s)
    \/ Dispatch \/ Crash \/ Start

Spec == Init /\ [][Next]_vars

---------------------------------------------------------------------------
(* Properties *)

TypeOK ==
    /\ job \in Seq([kind: Kinds, state: States]) /\ Len(job) <= MaxJobs
    /\ scan \in ScanStatus
    /\ scene \in [Scenes -> [status: Status, applied: BOOLEAN, by: 0..MaxJobs]]
    /\ edit \subseteq Scenes
    /\ auto \in BOOLEAN /\ hits \in Nat
    /\ pending \in Seq(Jobs)
    /\ task \in [Jobs -> [at: Steps, said: BOOLEAN, auto: BOOLEAN, seen: [Scenes -> Status],
                         todo: SUBSET Scenes, published: BOOLEAN]]
    /\ lock \in Jobs \cup {Free}
    /\ handler \in [Handlers -> [does: Kinds \cup {"idle", "cancel"}, job: 0..MaxJobs]]
    /\ asked \subseteq Jobs
    /\ lost \subseteq Jobs
    /\ process \in {"up", "down"}
    /\ lives \in 0..MaxLives

\* The title does not look as if it were being scanned while nothing scans it or
\* is going to: while its status says so there is an unfinished scan whose id is
\* on the queue or that has a task, through cancels that race the task's own
\* commits and through restarts.  Only a job that a database call left behind
\* (lost) keeps the status until the next start.
InPending(j) == \E i \in DOMAIN pending : pending[i] = j
BusyStatusHasScan ==
    process = "up" /\ scan \in {"queued", "scanning"} =>
        \E j \in ActiveOf("scan") : InPending(j) \/ j \in Running \/ j \in lost

\* What auto-process approved ends up blurred: a scene that a scan approved, that
\* nobody has touched since and that is not in the Edit file has an unfinished
\* job that will see to it, its scan or a blur, or one of these has failed or was
\* cancelled for all to see; once they are done, it is baked.  The exception is
\* the code's: a scan that finds the setting off at its end chains nothing and
\* leaves its approvals to the reviewer (by).
Due(s)        == scene[s].status = "approved" /\ scene[s].by # 0 /\ s \notin edit
Excuses(j, s) == job[j].state # "done" /\ (Kind(j) = "blur" \/ j = scene[s].by)
AutoIsBaked   == \A s \in Scenes : Due(s) => \E j \in Ids : Excuses(j, s)

\* apply_scene_blur clears applied_at so that no scene keeps reading as applied
\* when it is not in the file: with no blur between its rename and its commit,
\* or cut off there, every scene marked applied is in the Edit file.
CutOff(j) == task[j].published /\ job[j].state # "done"
AppliedIsBaked ==
    (\A j \in Ids : ~CutOff(j)) => \A s \in Scenes : scene[s].applied => s \in edit

=============================================================================
