# Vulgarr in TLA+

Vulgarr mutes profanity and blurs approved scenes in a private video library.
It is one asyncio process: request handlers, two job queues, pollers and
shielded tasks interleave at every `await`, and share a SQLite database, a media
folder that Sonarr and Radarr write too, and one semaphore. A job takes minutes
to hours, so nearly every decision it takes is old when it acts on it, and
restarts in the middle of a job are normal. These modules are about that: what
the rows, the files and the jobs look like after any interleaving,
cancellation, failure, crash and restart.

Paths below are relative to the repository; `worker.py`, `remux.py` and so on
are under `app/`. Run a model with `tlc -config X.cfg MCModule`, the proofs with
`tlapm JobQueueProofs.tla` and so on.

## The system

| Component | State | Operations | Works with |
|---|---|---|---|
| Audio job queue, `queue/worker.py` | `ProcessingJob` rows, `Title.status`; in memory `_pending`, `_running` | enqueue, dispatch, `_run_job`, `cancel_job`, start, stop, watch for mkv replacements, prune backups | handlers, webhooks and pollers enqueue; runs `process_video` under the heavy lock |
| Heavy lock, `queue/heavy_pipeline_lock.py` | one semaphore | acquire, release | both queues |
| Clean-track swap, `processing.py`, `mux/remux.py`, `mux/tempfiles.py` | the video, its temp files and backups, `clean_track_audio_indices` | probe, plan, mux, verify, back up, rename, undo, sweep | run by the audio queue; imports replace the files under it |
| Scene job queue, `queue/scene_worker.py` | `SceneJob` rows, `scene_scan_status`; in memory `_pending`, `_running` | the same as the audio queue for scan, blur and Claude jobs; a scan chains a blur | heavy lock, scene pipeline |
| Scene pipeline and review, `scenes/pipeline.py`, `routers/scenes.py` | `DetectedScene` rows, the Vulgarr Edit file | scan, blur, Claude pass; approve, reject, add, apply | run by the scene queue; reviewer's requests |
| Vulgarr Edit build, `mux/scene_blur.py` | the job's work directory | plan segments, split, check cuts, re-encode, join, mute, mux, verify, publish | run by a blur job, resumed after a restart |
| Word list, matches, kept cues: `routers/wordlist.py`, `processing.py`, `subtitles/matcher.py` | `WordListEntry`, `wordlist_version`, `MatchedCue`, `KeptCue` | edit a term, bump the version, match, keep a cue | the audio job reads them; the title page writes back what it shows |
| Library sync, pollers and webhooks: `library.py`, `routers/webhooks.py`, `routers/library.py` | `Title` rows, subtitle pollers in memory | upsert, sync, poll for a subtitle, reconcile at start | enqueue into both queues |
| Scene detection, `vision/classifier.py`, `vision/scene_cluster.py` | the scan's checkpoint and its fingerprint | scan by chunks, resume, cluster, look again | run by a scan job, resumed after a restart |
| Subtitles, audio | none | pure functions, inference | called by the jobs |
| Integrations | none | HTTP clients, file lookups | called by sync, webhooks, the replacement watcher |
| Database and settings: `db/`, `routers/settings.py`, `routers/setup.py` | `AppSetting` rows, migrated columns of `Title`, severities of the word list | start-up migrations, `set_setting`, the settings form, import, the wizard | everything reads the settings |
| Sign-in, templates, scrub proxy | sessions, preview files | forms | the user |

What is hard, and what has to hold there:

- **Cancellation anywhere.** `task.cancel()` reaches a coroutine at whatever
  `await` it is suspended. The heavy lock must be released, the row must get
  its final state, and the file must not be left half swapped.
- **Check, await, act.** `cancel_job`, `enqueue_if_not_already_active`, the
  word-list bump, `upsert_title`, a blur's selection of scenes and the
  replacement watcher all decide on a value that may have changed when they write.
- **Crash and restart.** Only rows and files survive. `start()` of each queue
  rebuilds the memory from the rows and repairs the statuses; a blur resumes
  from its work directory and a scan from its checkpoint. A start is itself a
  dozen commits, and may be cut off between any two.
- **Database calls that raise.** SQLite has one writer, the sync keeps the write
  lock from its first flush to its commit (`library.py:140-146`), and a
  connection waits 5 seconds for it (`db/session.py:168` sets no timeout and no
  WAL). Then any other commit raises "database is locked". The first commit of
  each `_run_job` is before its `try` and the last one after it.
- **Positions instead of identities.** Clean tracks are remembered by index,
  match rows by recycled row id, work files by segment number.
- **Two queues and shielded tasks.** A swap goes on after its run is cancelled
  and its lock released.

`PROJECT.json` lists each hazard at its line and the properties that watch it.

## Modules

### JobLifecycle and JobQueue: the audio queue

`JobLifecycle` is what the queue promises of a row: queued, processing, ended
once; a restart puts running jobs back; only a job whose cancellation was
answered with success may leave that order. `JobQueue` is the code and is
checked to implement it (`FollowsLifecycle`, mapping each row to its state and
the history variable `accepted` to `asked`).

| Variable | Code |
|---|---|
| `row`, `status` | the `ProcessingJob` table, `Title.status`; `late` is "progress at least 97" |
| `pending`, `at` | `_pending`; where the task of each job is suspended, `"none"` when it is not in `_running` |
| `saw` | the title status in the task's identity map, which decides whether the ORM writes it |
| `unwinding` | tasks with an undelivered `CancelledError` |
| `lock` | `HEAVY_PIPELINE_LOCK` |
| `call` | request handlers and pollers between two awaits of `enqueue`, `cancel_job` or `_check_one_replacement` |
| `process`, `lives` | up, stopping, the loop closing, down; number of starts |
| `broken`, `unqueued` | history, since the start: jobs, and titles with a status, that a database call which raised left behind |

Each action is the code between two awaits. `Unwind` is the delivery of a
cancellation: before the `try` and in the last commit nothing catches it, inside
the `try` the handler saves `cancelled`; a commit in flight has either taken
effect or not. `TaskRaises` is a database call of the task that raises: before
the `try` (`worker.py:410`) and after it (560) nothing catches that, and inside
it the `except` clause logs `title.id` first, which the rollback has expired and an async session
cannot load again, so that it raises as well. The row stays as it was, with
no task. `HandlerRaises` is the same for a request, which may have inserted its
row and not put its id, or committed a status and inserted no row. `WriteRow` writes
the title's status whatever the ORM thinks of it, and that is right: `cancel_job`
assigns `job.state` before it loads the title (`worker.py:207-210`), the sessions
have autoflush, so the load comes after an UPDATE and therefore under SQLite's
write lock, and a status that is not written because it was loaded as
`cancelled` cannot have changed by the commit. The dispatcher's replacement watcher, which waits for Sonarr or
Radarr and then enqueues, is one of the handlers; it does not hold up `Dispatch`
while it waits, which the code's loop does and a delay of `Dispatch` covers.

### CleanSwap: the files of one title

Files are a sequence of audio tracks and whether they were written to the end.
A run remembers what `_run_job` loaded (`path`, `known`) and what the probe saw
(`drop`, `tracks`). The shielded `_finalize_swap` is a process of its own
(`swap`): the move is a copy and an unlink in a thread (another filesystem, the
documented deployment), then the rename, or the undo when it fails. `Sweep`
removes any temp file but the one ffmpeg is writing: the code goes by an hour of
age, and any other file may be that old. `CloseLoop` is what the closing event
loop does to a shielded task, whose thread still finishes its move. `Import` is
a Sonarr or Radarr upgrade, with or without clearing the recorded indices
(webhook and replacement watcher).

### SceneReview: scene jobs and the reviewer

`job` is the `SceneJob` table in id order, `task` what each job has read of the
title, the setting and the scenes, `edit` the scenes that are in the Vulgarr Edit
file. A job's selection (`Load`) and its last commit (`ScanStore`, `BlurRecord`,
`ClaudeVerdict`) are steps apart, and the reviewer acts in between. So are the
reads of a start and its commit (`Begin`, `Started`), and those of a request that
cancels a queued row and its commit (`FindQueued`, `CancelQueued`). `auto` is
the setting `scene_auto_process`: the form toggles it at any time (`ToggleAuto`),
a scan reads it when it has the lock (`pipeline.py:176`, kept in its task) to
approve what it finds, and again at its end (`scene_worker.py:410`) to chain a
blur. What the classifier finds and what Claude says are choices.

A database call that raises or is cut off by a cancellation outside the `try`
of `_run_job`, or in one of its handlers, leaves the row as it is (`Lose`,
`ClickStrands`, `ChainStrands`; `scene_worker.py:314`, 441, 462). `lost` is history: the jobs
left behind so since the start. Two more fields are history only: a scene's `by`
names the scan that approved it, until somebody touches the scene or that scan
finds the setting off, and `published` on a task says that it renamed its output.

### BlurBuild: building and resuming the Edit file

Time is cells, each longer than the tolerances of the checks; a film is the
sequence of cells it plays, each blurred or not. `Plan` is
`plan_video_segments` with `merge_intervals`; `CutsMade` is the segment muxer
(external: it cuts at the first place it can at or after each requested time);
`Complaints` are the three cut checks in the order of the code; `CutIsBad` is
the retry, with the keyframe learnt, the drift limit and the wipe. `dir` is the
work directory with its fingerprint (`for`), and a piece under its final name is
taken as done, as `_run_atomic` makes it. `Fails` is the fallback to the whole
file, then failure. The attempt ends in two commits: that of `apply_scene_blur`
(`Record`), which the `try` of `_run_job` covers, and that of `_run_job`
(`Save`), which it does not. `Lose` is a commit that raises or is
cancelled there, before the `try` or while a failure is handled
(`scene_worker.py:314`, 460, 462): the row stays queued or processing, with no task
until the next start (`lost`).

### MuteChoices: what is muted and who decides

The word list and its version change in two commits; a job reads the version
when enqueued, the kept cues when it starts and the words after the speech
check; the title page holds row ids as old as the page. `list.block` is where
SQLite numbers the rows of the last run: the ids are reused when no other title
has later rows.

### TitleSync: the title rows and everybody who writes them

Imports announced by Sonarr and Radarr, subtitles announced by Bazarr, the
sync, the subtitle pollers, the replacement watcher and the two search buttons.

| Variable | Code |
|---|---|
| `title`, `active` | the committed `Title` rows (id of the item, path, status); titles with an unfinished audio job |
| `arr`, `subs` | external: the file Sonarr or Radarr has for each item, the subtitles on disk |
| `hooks` | webhooks sent and not handled; one sent while the process is down is lost |
| `task` | a request handler or poller between two awaits, with the row it loaded (`saw`) |
| `sync` | the sync's list, its entry, and `draft`, what it has flushed and not committed |
| `watch` | the title `_check_one_replacement` asks about |

`upsert_title` is a select (`UpsertSelect`), a wait for the subtitle lookup in a
thread, and a write (`UpsertWrite`) of the columns that differ from what was
loaded, as the ORM does it; a path of another row breaks the unique constraint
and ends the caller. From its first flush the sync holds SQLite's write lock
(`Locked`), so that any other commit fails. `excused` and `quiet` are history.

### SceneCluster and SceneScan: from frames to scenes

`SceneScan` is one scan job over any number of attempts. `lines` are the
timestamps that can be read back from the checkpoint, `torn` that its last line
was cut short; `Load` takes over the trusted prefix (`_resumable_prefix`) and
`Rewrite` writes it back; up to `Concurrency` frames are under way, and their
scores are appended in any order. Settings may change between attempts, a chunk
may not decode, a frame may fail. Frames are counted from the start of each chunk,
and the first chunk starts where the last attempt's frames ended, so they lie on
`Grid(interval)`, which is one row of frames only when the interval divides the
chunk (`Divides`); the form accepts any interval from 0.5 seconds up. Then `ClusterScenes` makes candidates of the
scores, `Look` is one round of `_refine_candidate_boundary`, and all scenes are
committed at the end. What the classifier says is a choice. `SceneCluster` has
the pure functions, beside a reference definition of a scene that has no runs
and no order of evaluation: which frames count, and which belong together. The passes
of `cluster_scenes` and `merge_intervals` are folds of a step each (`NextFrame`,
`NextRun`, `NextWindow`).
Times are whole units of the dense interval.

### AppSettings: migrations and settings

`Startup` is the order of the commits of `init_db`, `stage` the next one. The
initial states are the databases that each earlier release left behind
(`Brought`: which release brought which keys) and the empty one. `chosen` is
history: what the user decided since, to compare with after later starts. A save
of the form or of an imported configuration is one commit per key (`SaveStep`)
from the first key that is checked against another; its judgment of the login
mode uses what it read at its start. Fields that are judged together are one
Boolean (`sso`, `claudeFields`).

## Runs

| Run | Instance | Shows |
|---|---|---|
| `jobqueue_safety` | 2 jobs, 1 title, 2 handlers, cap 2, 2 lives, 1 failing call per life; symmetric; 2.7M states | `NoJobTwice`, `NoJobIsLost`, `StatusHasJob`, `OneHeavyTask`, `FollowsLifecycle` |
| `jobqueue_liveness` | the same with 1 handler; 626K states | `EveryJobEnds` |
| `swap` | 2 runs, 2 paths (the second file has a track more), backups on or off, crashes, 2 lives; 286K states | `KeepsOriginals`, `NoStackedTracks`, `Recoverable`, `DoneMeansClean`, `VideoComesBack` |
| `swap_lost` | 1 run, 1 path, no crash | **violated**: a graceful shutdown leaves no video |
| `swap_tracks` | 2 runs, 1 upgrade, 1 life | **violated**: an original track of the new file is dropped |
| `scene` | 1 scene, 1 request at a time, 2 jobs of any kind, cap 2, 2 lives, 1 failing call per life; 2.7M states | `BusyStatusHasScan`, `AutoIsBaked` |
| `blur` | 6 cells, 4 keyframe layouts, 3 sets of approvals, a track added, 3 lives; 517K states | `PlanIsExact`, `PiecesFitFingerprint`, `EditIsRight`, `JobEnds` |
| `mute_choices` | 2 words, 2 cues, 1 editor, 3 jobs, 1 bump; 2.3M states | `UpToDateIsCurrent`, `KeepsAreHonoured` |
| `title_sync` | 2 episodes, one known and upgraded from mp4 to mkv, one new; 2 tasks, 1 sync, 1 button, 2 lives; 551K states | `UpgradeKeepsTitle`, `WaitingIsWatched`, `QuietSyncRepairs` |
| `scene_scan` | 6 units in chunks of 3, intervals 1, 2 and 3, 2 frames at once, 1 that may fail, 2 crashes; 935K states | `OnlyFirstSkipped`, `GapsAreShort`, `CheckpointFitsStamp`, `ClusteringIsExact`, `SceneIsWhole`, `ScanIsDone` |
| `scene_lossy` | 5 units in chunks of 4, intervals 1 and 2 | **violated**: a resumed scan never classifies the first frame |
| `app_settings` | every earlier release, 3 forms and 1 file, 2 savers, 3 starts, 2 acts; 1.5M states | `ChoicesAreKept`, `UpgradeIsCarriedOver`, `WizardIsForNewcomers`, `SettledIsUsable` |

Every passing run also checks its module's `TypeOK`. The operators marked
"mutant" in the modules are plausible bugs; each property has one that breaks it.

**Bounds.** They are named constants: `MaxLives` (starts of the process),
`MaxStarts`, `MaxCrashes`, `MaxFailures` (database calls that raise and leave a
job behind, in one life), `MaxJobs`, `MaxTries`, `MaxTracks`, `MaxVersion`,
`MaxBlock`, `MaxRows`, `MaxPolls`, `MaxSyncs`, `MaxAsks`, `MaxActs`. Two jobs of one
title already give a duplicate, an overlap of swaps and a lock that is wanted
twice; two handlers give a check and an act of another request in between; two
lives give a crash and what comes after it, and three let a crash meet a wipe of
what an earlier crash left. Two upgrades or three runs add no new pair of
actors. Six cells hold two scenes, a copied stretch before, between and after
them, and a boundary that moves. The layouts are chosen so that a probed
keyframe is not cut at, one is missing, one has no clean references, and none
can be cut at. One failing call strands a job, and the other job, the other
handler and the restart meet what it left; two scene jobs are a scan and its blur,
or two that cancel and race each other, and three are in the wider searches. Two episodes and three rows leave room for the orphan row that
an early Bazarr webhook makes, and a sync that meets it. Six units in
chunks of three give the scan two chunks, a grid in one row (1, 3) and one that starts
anew between two frames (2: frames 0, 2, 3, 5), and every set of scores on up to
six frames to cluster; two crashes let a checkpoint that was rewritten
once be cut off again. Three starts are two that are cut off and one that serves.

**Wider searches, not kept as runs.** BlurBuild with every set of keyframes and
cuts on six cells (1.58M states) has no violation of `EditIsRight` when the cut
probes work; with `MayMiss = TRUE`, two missed cuts whose lengths cancel out
publish the wrong footage. MuteChoices with two editors violates
`UpToDateIsCurrent`: a delayed `bump_wordlist_version` writes an older version
back (`db/session.py:606`), so a title built from the older list is not called
outdated. BlurBuild with a crash also in the middle of the final wipe of a failed or
finished attempt keeps its invariants (1.46M states, without liveness). SceneReview with two scenes (`Scenes <- TwoScenes`), two jobs,
one life, cap 1 and no failing call violates `AppliedIsBaked`; with two symmetric requests
and cap 1 it keeps its invariants (3.8M states), and with three jobs and cap 1 a
search of 15.7M states, to depth 28, found no violation before it was stopped. CleanSwap with
`TagsStick = FALSE` keeps the other properties of its run (286K states), but
`NoStackedTracks` without its premise `TagsStick` is violated: a run cancelled or killed
between its swap and its last commit has recorded no index, and the next run
stacks a second clean track on the first. CleanSwap with three runs and three
tracks in the second file stacks two clean tracks on it: a run drops an original
by the stale indices and is cancelled before its last commit, and the next drops
another original in place of the clean track. `NoStackedTracks` therefore speaks
of the first file. TitleSync with a file for both episodes (`Holds <- MCShared`, 3.5M
states) violates `UpgradeKeepsTitle`, number 10 of the list below; `WaitingIsWatched` and
`QuietSyncRepairs` hold there. `AutoIsBaked`, `KeepsAreHonoured`, `NoStackedTracks` and `Recoverable` state in
their premises what they leave out, and why.

**Fairness.** `JobQueue!FairSpec` has weak fairness of the dispatcher's loop, of
each task's next step and of the delivery of its cancellation, of each handler's
next step, and of the container's restart: the event loop runs whatever is
ready, `_dispatch_loop` catches its errors and goes on, and
`docker-compose.yml:10` restarts the container unless it was stopped. Nothing makes a
user act or a database call fail, and acquiring the lock needs only weak fairness since a task that
waits for it is not overtaken for ever by a finite number of jobs.
`BlurBuild!FairSpec` has weak fairness of the attempt and of the restart,
`CleanSwap!FairSpec` only of the swap's own steps. `SceneScan!Spec` has weak
fairness of the scan as a whole, its restart by the queue included; crashes
are bounded by `MaxCrashes` and need none. The other runs are safety only.

Deadlock is not checked: the jobs, lives and versions of an instance run out,
and a system with nothing asked of it rests.

## Where code and text disagree

Three have a run of their own, kept as an expected violation:

1. The shield of the swap does not survive the shutdown it was made for
   (`remux.py:461-463`, run `swap_lost`, `VideoNeverMissing`).
2. Clean-track indices survive an upgrade through the webhook
   (`remux.py:168-172`, `library.py:108-128`, run `swap_tracks`,
   `EveryFileKeepsOriginals`).
3. A resumed scan may skip the first frame of the film: the trusted prefix
   tolerates a distance of 1.5 intervals from its start, where a frame is due
   (`classifier.py:216-219` and 226-231, run `scene_lossy`, `NothingSkipped`).

Seven more are stated in their modules and not kept as runs. Each fails when its
name is added to the configuration of its module's passing run, as INVARIANT, or
as PROPERTY where it is an action formula, and what is said in brackets is set:

4. `JobQueue!CancelLeavesNoStrandedJob` (`JobQueue_safety.cfg`): a cancellation
   outside `_run_job`'s `try` strands its row (`worker.py:197-199`).
5. `SceneReview!AppliedIsBaked` (`SceneReview_safety.cfg` with
   `Scenes <- TwoScenes`, `Cap = 1`, `MaxLives = 1`, `MaxFailures = 0`): a scene approved again
   during a blur keeps an old `applied_at` (`pipeline.py:507-511`).
6. `BlurBuild!WorkIsKept` (PROPERTY in `BlurBuild_safety.cfg`): a first plan
   with a bad cut makes every resumed blur start over (`scene_blur.py:46-47` and
   1524-1535).
7. `MuteChoices!KeptStaysKept` (PROPERTY in `MuteChoices_safety.cfg`): a title
   page opened before a reprocess changes other cues than it shows
   (`matched_cues_list.html:5`, `routers/library.py:1930`).
8. `TitleSync!ReplacementIsPickedUp` (`TitleSync_safety.cfg`): when a webhook or
   a sync moves a title to the mkv it waits for, the watcher sees nothing new and
   the title waits for ever (`worker.py:319`, `search_mkv_replacement`'s
   docstring in `routers/library.py`).
9. `AppSettings!SomebodyCanSignIn` (`AppSettings_safety.cfg`): an imported
   configuration with the mode `password` carries no password, and a crash or a
   second save between the commits of the form leaves a mode without its
   credentials (`routers/settings.py:188-193`).
10. `TitleSync!UpgradeKeepsTitle` (`TitleSync_safety.cfg` with `Holds <- MCShared`, where
   the mkv holds both episodes): an item found by no id takes the row it finds by
   its path, whosever it is, so a file with a known episode and a new one, which
   Sonarr's listing names once for each, passes the row with its history from one
   to the other at every sync, where the comments speak of a backfill on a row
   without an id (`library.py:64-72` and 114-120, `sonarr.py:84-99`).

Met while modelling, and stated as the premise of a property or a constant
rather than as a property:

- A database call that raises at the wrong place strands a job: its row says
  queued or processing, no task has it and no queue, and nothing looks at it again
  until the next start. While it stands there its title gets no other job from the buttons
  that look for an active one. In the audio queue that is the commit before the
  `try` and the one after it (`worker.py:410`, 560), any call inside the `try` that
  rolls the session back, and the refresh of `enqueue` (230); in the scene queue
  the same (`scene_worker.py:314`, 441, 445, 462, 149 and 212), for a cancelled
  call as well as for one that raises. `NoJobIsLost`, `StatusHasJob`, `EveryJobEnds`,
  `BusyStatusHasScan` and `JobEnds` name it as their exception (`broken`,
  `unqueued`, `lost`).
- The settings form takes any frame interval from 0.5 seconds up
  (`routers/settings.py:218`), but frames are counted anew from the start of each
  chunk of 300 seconds (`classifier.py:361-364`, 401). At 8 seconds they lie at 288,
  296, 300, 308: when 308 is in the checkpoint and 300 is still being classified
  at a crash, 308 is within 1.5 intervals of 296, the prefix is trusted
  (`classifier.py:225-232`) and 300 is never classified. `OnlyFirstSkipped` is
  therefore about intervals that divide the chunk (`Divides`), and `GapsAreShort`
  says for all others how much can be left out: no frame with an outcome is more
  than one and a half intervals from the one before it.
- `scene_auto_process` is read when a scan approves its scenes and once more when
  it would chain a blur. Turned off in between, it leaves scenes approved that no job is going to bake;
  `AutoIsBaked` leaves them out (`by`).
- Some containers drop the title tag (`remux.py:171-173` says so). Then only the
  recorded index tells of a clean track, and a run that is cancelled or killed between
  its swap and its last commit has recorded none: the next run stacks a second
  clean track. `NoStackedTracks` has the premise `TagsStick`.
- An item without a row whose two first upserts overlap gets two, and every
  later select by its id raises. So does a path that another row has: after a
  Bazarr webhook that overtook Sonarr's, or when a double episode's one file
  is to go to two rows, every sync is rolled back (`TitleSync!Blocked`).
- A padding of 0 is accepted by the settings form (`routers/settings.py:223`)
  and never widens, so a second look whose hits touch its edge does not end
  (`pipeline.py:141`, `SceneScan!ScanAssumption`).
- A later pass of the second look whose extraction fails counts as one that
  found nothing, so the fraction and the scores of the earlier pass are lost,
  where the docstring at `pipeline.py:103-106` keeps them. The boundary is kept,
  which is what `SceneScan` models.
- A fresh install that dies between `init_db`'s defaults and its last commits
  looks like an upgrade to its next start and skips the wizard
  (`WizardIsForNewcomers` asks for a `smooth` first start).
- The deprecated `clean_track_audio_index` is never cleared: after a replacement
  clears `clean_track_audio_indices`, the next start copies the old index over
  it (`db/session.py:123-131`).

`JobLifecycle` allows what point 4 and `cancel_job`'s late write do to a row
whose cancellation was accepted, and `NoJobIsLost` and `EveryJobEnds` except
those jobs and the ones that a failing database call stranded; for all others
they hold. `Recoverable`, `DoneMeansClean` and
`VideoComesBack` except two swaps that overlap after a cancellation when one of
them is undone (`SwapsCollide`).

## Proofs

Eight modules, each for every value of the constants, from the assumption of its
module and the hypotheses named below. Where an argument counts (the pieces of a
plan, the rows of a queue), induction is by the least counterexample
(`LeastNumber`, from the well-foundedness of the naturals).

**`JobQueueProofs`** (any finite set of jobs, any titles and handlers, any cap,
any number of restarts):

- `TypeCorrect`: `[]TypeOK`. `TypeOK` is not inductive: a task writes its row
  and its title's status, which needs a row. `TypeInv` adds `Known`, that a job
  without a row is in no queue, task or handler. `HandlerWork` and
  `WriteKeepsType` are the lemmas its cases rest on.
- `JobsRunOnce`: `[]NoJobTwice`. `OnceInv` adds to `TypeInv` that nothing is in
  memory while the process is down (`DownIsEmpty`: `start()` fills an empty
  queue), and, split by where the job is, that it is nowhere else (`PutOnce`,
  `PendingOnce`). `enqueue` inserts a row that did not exist, so `Known` says no
  one has its id yet; `put` and `Dispatch` move it on; `Orders` has no repeats.
- `HeavyTasksExclude`: `[]OneHeavyTask`, inductive given `OnceInv`: `Dispatch`
  must not restart a task that holds the lock, which is `NoJobTwice`.
- `NothingIsLost`: `[]NoJobIsLost`. `PlaceInv` adds to `OnceInv` that a task with
  an undelivered cancellation belongs to a job whose cancellation was accepted
  (`CancelsAreAccepted`), and that the row of any other job follows its task:
  queued until `_run_job` commits, processing until its outcome (`RowFollowsTask`).
  A failing call takes the task away from the row, and then the job is in
  `broken` until the start that queues it again.
- `ImplementsLifecycle`: `Spec => FollowsLifecycle`. Step by step under
  `row[j].state`: a task's commit is a begin or an end, a start is a restart, the
  late write of `cancel_job` and the accepted cancellation are the exceptions the
  lifecycle names, and everything else stutters. It needs `PlaceInv`, which says
  what state the row is in when a task writes it.
- `StatusIsTrue`: `[]StatusHasJob`, inductive given `OnceInv`: the commit that
  ends a job writes the title's status with it, a failing call writes neither, and
  the start puts both back. Only a status whose handler failed before it inserted
  the row (`unqueued`) is without a job until then.

**`SceneScanProofs`** (any length of the film, any intervals and chunk size, any
number of frames at once, any flaky frames and any number of crashes):

- `CheckpointIsUsable`: `[]CheckpointFitsStamp`, `NoLongGap`: `[]GapsAreShort`, and
  `ResumeSkipsNothingElse`: `[]OnlyFirstSkipped`. All come from one inductive
  invariant. `Stamped` says that from `Load` on the stamp is the attempt's interval
  and that a new stamp finds an empty checkpoint; `OnTheGrid`, that chunks start
  and frames lie where whole chunks and whole intervals lead (`Reached`, which
  within the film is `Grid`); `NoGap`, that the frames with an outcome, and those
  waiting for one, are `Short` up to the next chunk: each follows another, or the
  start of the film, within 1.5 intervals, and they reach up to less than one
  interval before the chunk. The steps that matter are `Load`, where a trusted prefix is short up to
  where the scan goes on (`TrustedIsShort`), and `Decode`, where the frames of
  a chunk carry that on from its start to its end (`ChunkIsShort`). When the
  interval divides the chunk, all that lies on the grid is a whole number of intervals
  apart (`GridIsRow`), and then a frame missing between two others is a gap of two
  intervals (`RowHasNoHole`), which gives the third theorem. It leaves out the first
  frame, since the code trusts a prefix that begins with the second.
- `CandidatesAreTheScenes`: `[]ClusteringIsExact`, for any frames, on one grid or
  not. It is about the operators (`ClusterIsReference`). A
  fold over a list is a sequence of accumulators, one per element (`FoldExists`,
  `RunsUnfold`, `WindowsUnfold`, `MergeUnfolds`), so each of the three passes has
  an invariant kept by one more element. After some frames `RunsSoFar` holds
  their runs, in order, no two of one run apart: `SameRunNext` is the step from one
  frame to the next, where the tolerance of 2.5 intervals counts. After
  some runs `WindowsSoFar` holds the windows of the real ones, and after some
  windows `GroupsSoFar` holds the maximal groups of them without a gap, the last
  of which may go on (`GroupsAtBreak`, `GroupsGoOn`). Two frames that count are in one scene of the
  reference exactly when no window between theirs begins a group (`OneSceneIs`),
  which makes scenes of the groups (`GroupsAreScenes`) and groups of the scenes
  (`ScenesAreGroups`).
- `TypeCorrect`: `[]TypeOK`. `LInv` adds to it that there is a candidate when one
  is looked at, that the scores are forgotten by then, and `ClusteringIsExact`;
  the candidates are windows of the film because cluster_scenes returns pairs of
  its frames (`ClusterIsReference`).
- `ScenesAreWhole`: `[]SceneIsWhole`, inductive given `LInv`. A wider window holds
  the first (`WindowGrows`), so a complete look sees what the first one saw; and
  a search that ends with its hits more than 1.5 dense intervals from both edges had the
  frames beyond them in its window (`FoundIsWhole`).

**`AppSettingsProofs`** (any savers, forms, files, starts and acts):

- `TypeCorrect`, `ChoicesSurvive`, `UpgradeArrives`, `OnlyNewcomersSetUp`,
  `UndisturbedSaveIsUsable`: the five invariants of the run. `IInv` ties each
  flag to the step that sets it (`Flags`), keeps a choice together with the flag
  that protects it (`Kept`: nothing could be chosen before its migration ran),
  says of each migration what is in the database before, between and after its
  commits (`Carried`, `Newcomer`: a flag that is set has its work behind it, and
  work without its flag is done again to the same effect, `MappedTwice`), and
  what a save that is alone has stored so far (`Saving`). `StartUpSettings`,
  `SaveSettings` and `OtherSettings` say once what each step does to the
  settings, so that the other lemmas need not open `db`.

**`TitleSyncProofs`** (any items, files, handlers, pollers, syncs and starts):

- `TypeCorrect`: `[]TypeOK`; `KeptItemsHaveOneTitle`: an item of the library has
  exactly one title if it is in `Kept`, connected by no chain of shared files with
  an item that is not in the library; and `TitlesAreKept`: `[]UpgradeKeepsTitle`,
  when that is every item of the library (`Separate`). For the others it is false
  (number 10 of the list above). All come from one inductive invariant. `GoodRows` says
  that the rows such items began with keep
  their items and files of theirs, and that no other row has either; but the
  step that matters is a write, of what was read long before. So the invariant
  says of every writer between its select and its write that its row is the one
  row of a kept item, or none of them for another item, or that it knows only a
  path and writes back the path it has read (`GoodWrite`); of the sync the same
  about the draft it has flushed (`GoodSync`); and of the watcher that the item it
  asks about belongs to its row (`GoodWatch`). `SelectIsGood` establishes that,
  `Keeps` (what no write takes from another row) lets it survive everyone else's
  steps, and `WriteIsGood` uses it.
- `WaitingHasPoller`: `[]WaitingIsWatched`, from `WaitInv` on top of it. What
  could go wrong is a poller that ends for another row than the one that has its
  file, because the file changed hands between its select and its write. So
  `WatchesFor` says when a poller counts: the row it is about to write, enqueue or
  reset is this row, or its write is bound to fail on the unique path, which
  excuses the title. It needs `Unique` of the committed rows and of the sync's
  draft, and of a search that the path it goes on with is still its row's
  (`GoodSearch`).
- `QuietSyncLists`: `QuietSyncRepairs`, a property of steps, from `RepairInv`: in a
  sync that is alone every row is as it was, or as Sonarr has it for an item whose entry
  was flushed, and each of those has a title (`Repaired`). So an item that turns
  out ambiguous was so before (`StaysAmbiguous`), a path that is taken was
  taken before or went to another item's row first (`FlushBlocked`), and at the
  commit everything is visited. The proof corrected the property: `Blocked` had
  asked for a row of *both* items that got one file, and a new episode that takes
  the file before the known one stops the sync as well. The run has one item
  for each file and could not tell.

**`MuteChoicesProofs`** (any words, cues, jobs and versions):

- `TypeCorrect`: `[]TypeOK`; `TypeInv` adds that only a job that is being
  processed has a task, and that jobs are asked for in order.
- `UpToDateIsTrue`: `[]UpToDateIsCurrent` under `OneEditor`, one edit of the word
  list at a time; with two it is false (see the wider searches). `LockInv` says
  that one run at a time is under the lock and that the track of a run that has
  swapped is its own. `CurrentInv` says that no title and no job has a
  version that is still to come (`VersionsAreOld`), that an edit under way is about
  to write the next one (`BumpIsFresh`), and that between edits a run that matched
  under the current version has the words that are enabled (`WordsAreCurrent`).
- `KeepsAreBuiltIn`: `[]KeepsAreHonoured`. `KeptInv`: a run under the lock has read the
  choices there are, or a later job is yet to read them, since saving choices asks
  for one (`KeptIsRead`); when the latest job is done and no swapped track waits
  for its rows, list and track are built from the choices (`DoneIsBuilt`).

**`SceneReviewProofs`** (any scenes, jobs, requests, cap and restarts):

- `TypeCorrect`: `[]TypeOK`, of `RunInv`: queue, tasks and rows agree, the lock is
  held by the one task in a heavy step, nothing is in memory while it is down.
- `StatusHasScan`: `[]BusyStatusHasScan`. That an unfinished job is on the queue, has
  a task or was left behind by a database call is part of `RunInv` (`Accounted`);
  what a request writes over a started job is a cancelled row whose task still
  says how it went (`StateFits`). The strengthening excludes a scan that
  has already said how it went (`LiveScan`), since its row stays active a commit
  longer than the title's status.
- `ApprovedIsBaked`: `[]AutoIsBaked`, however the setting is toggled. While
  something that a scan approved is not in the Edit file, a job that is not done
  has yet to see to it, or died of it (`DueIsOwed`): the scan until it has chained
  a blur or found the setting off, which ends the claim, and a blur until its
  rename. That a blur renames what was approved is `LoadedIsFresh`: the lock
  keeps scans from storing between its load and its rename.

**`CleanSwapProofs`** (any runs, imports, tracks and restarts):

- `TypeCorrect`: `[]TypeOK`, of `RunInv`: each step of a run goes with a step of
  its swap and its own temp file, and only the lock's holder is in a heavy step.
- `OriginalsStay`: `[]KeepsOriginals`. `OneFileInv`: as long as the title has had
  one file, every video, temp and backup is that file's tracks followed by clean
  ones (`Good`), and whatever a run is about to drop comes after them
  (`DropsLater`). Stale indices are harmless here: an index was recorded as the
  place after the kept tracks.
- `OneCleanTrack`: `[]NoStackedTracks`, whose premise is `TagsStick`, that the
  container keeps the title tag; without it nothing tells the clean track of a
  killed run from an original. `OneFileInv` adds that there is at most one clean track and that a
  plan drops exactly it, or was made when there was none: then the verification
  of the number of tracks fails for a plan that is old.
- `DoneIsClean`: `[]DoneMeansClean`. `SwapInv`: what was swapped in is clean, and
  so is what another run may restore over it, unless the two swaps overlap.
- `OriginalIsSomewhere`: `[]Recoverable`. `OriginalInv`: the source of a run that
  builds is whole or away, a backup in use is whole, and one of the two is there
  at every step of the move, the rename and the undo.

The last two hold unless swaps collide (`SwapsCollide`), as their statements say.

**`BlurBuildProofs`** (any length, windows, keyframes, layouts, tries and lives):

- `TypeCorrect`: `[]TypeOK`, of `TypeInv`: an attempt goes by its stages, works in
  a directory of its own request, and what a stage takes up is there.
- `PlansAreExact`: `[]PlanIsExact`. A plan is made of the segments between
  consecutive edges in order (`InOrderLists`, of a set listed by rank), each
  inside or outside the merged windows (`SegmentIsWanted`), and joined they are
  the film from the first edge to the last (`PlanPlaysAll`, by the least segment
  at which they are not).
- `PiecesFit`: `[]PiecesFitFingerprint`, inductive given `TypeInv`: a directory is
  wiped before it takes another fingerprint, a wipe that is cut off only loses
  files, and what `Encoded` makes
  follows the windows of the attempt, which are those of the fingerprint.
- `EditsAreRight`: `[]EditIsRight`, for `~MayMiss`: when every probe of a cut
  answers (with missed cuts it is false, see "Wider searches"). `EditInv` says
  what earlier attempts may have left and why it does no harm. Either the cuts of
  the first plan pass their checks, and do so at every attempt (`Clean1st`): then
  all copies in the directory are this plan's, and a scene's piece is what the
  plan wants, or the whole film that an attempt without keyframes wrote under
  the same name. Or they never pass: then nothing is taken before the pieces are
  wiped, and what is there after it belongs to the plan at hand. A copy without a
  complaint is what the plan wants but for the end of the last one, which no
  check looks at (`CopyIsGood`). So a join is right, or too long, or too short
  (`JoinIsRight`), and `verify_blurred_output` turns the last two down. The
  invariant was checked with TLC before it was proved, and lists what
  `_run_atomic` and the reuse of pieces rely on without saying so. The proof
  needs that `NoFile` is neither a film nor a request (`NoFileAssumption`).

Every invariant of a passing run is a theorem. Only model-checked: liveness under
fairness (`EveryJobEnds`, `VideoComesBack`, `JobEnds`, `ScanIsDone`), which with
`ENABLED` is out of the prover's reach.

## Not modelled

Retention of backups by age and the off-hours window; model inference, ffmpeg's
filters, subtitle text and the HTTP clients, which are choices of the
environment; how a cue is compared with a term; sessions and the SSO redirects,
previews and the pages themselves, which share no state with the jobs that could
interleave; the backfill of the episode grouping columns, which are for display.

## Plan

Done: `JobLifecycle`, `JobQueue`, `CleanSwap`, `SceneReview`, `BlurBuild`,
`MuteChoices`, `TitleSync`, `SceneCluster`, `SceneScan`, `AppSettings` and the
theorems above. Next, in order:

1. `HeavyPipeline`: an abstract queue with a lock that `JobQueue` and
   `SceneReview` both implement, and the two over one lock.
2. The off-hours window, backup retention, severity levels,
   `plan_audio_streams` and `is_kept_match`, each against a reference definition
   over bounded inputs.
