------------------------------ MODULE CleanSwap ------------------------------
(***************************************************************************)
(* How one title's video file gets its clean track: the file side of       *)
(* process_video and remux_with_clean_track, with everything that can      *)
(* interrupt it.  A run probes the video, plans which audio tracks to      *)
(* drop, lets ffmpeg write a temp file next to the video, verifies it,     *)
(* moves the video to a backup, renames the temp file into place and       *)
(* records on the Title row where the clean track is.                      *)
(*                                                                         *)
(* The move and the rename happen in a task of their own that is shielded  *)
(* from the run's cancellation, and the move in a thread no one can stop.  *)
(* Files survive a crash; runs, tasks and threads do not.                  *)
(***************************************************************************)
EXTENDS Naturals, Sequences, FiniteSets

CONSTANTS
    Runs,           \* executions of _run_job for this title
    Paths,          \* 1..n: the paths the title's file has had, one per import
    Originals,      \* the audio tracks of the file imported at each path
    Clean,          \* a clean track this program made
    TagsStick,      \* does the container keep the clean track's title tag
    BackupSettings, \* the values backups_enabled may have
    MaxLives,       \* bound: how many times the process is started
    MayCrash,       \* may the process die without shutting down
    Free            \* HEAVY_PIPELINE_LOCK is not held

OriginalSet(p) == {Originals[p][i] : i \in DOMAIN Originals[p]}

ASSUME CleanSwapAssumption ==
    /\ IsFiniteSet(Paths) /\ 1 \in Paths /\ Paths = 1..Cardinality(Paths)
    /\ \A p \in Paths : Originals[p] \in Seq(OriginalSet(p)) \ {<<>>} /\ Clean \notin OriginalSet(p)
    /\ TagsStick \in BOOLEAN
    /\ BackupSettings \subseteq BOOLEAN
    /\ MaxLives \in Nat \ {0}
    /\ MayCrash \in BOOLEAN
    /\ Free \notin Runs

VARIABLES
    video,    \* the file at each path
    temp,     \* the temp file of each run
    backup,   \* the backup made by each run
    path,     \* Title.video_path
    known,    \* Title.clean_track_audio_indices
    state,    \* ProcessingJob.state of each run
    run,      \* each run: where it is and what it remembers
    swap,     \* the shielded task of each run
    lock,     \* HEAVY_PIPELINE_LOCK
    asked,    \* runs whose cancel_job passed its check, not yet cancelled
    process,  \* is the server up
    lives     \* how many times it was started

files == <<video, temp, backup>>
title == <<path, known>>
vars  == <<video, temp, backup, path, known, state, run, swap, lock, asked, process, lives>>

---------------------------------------------------------------------------
(* Files *)

\* A file: its audio tracks, and whether it was written to its end.
Track  == {Clean} \cup UNION {OriginalSet(p) : p \in Paths}
File   == [tracks: Seq(Track), whole: BOOLEAN]
NoFile == [tracks |-> <<>>, whole |-> FALSE]
Exists(f)      == f # NoFile
Fresh(tracks)  == [tracks |-> tracks, whole |-> TRUE]
Partial(f)     == [f EXCEPT !.whole = FALSE]
TrackSet(f)    == {f.tracks[i] : i \in DOMAIN f.tracks}

---------------------------------------------------------------------------
(* plan_audio_streams *)

\* The tracks to drop: the recorded indices that exist in this file, or else
\* the tracks whose title tag says they are clean.
Tagged(tracks)         == IF TagsStick THEN {i \in DOMAIN tracks : tracks[i] = Clean} ELSE {}
RecordedOnly(tracks, indices) == indices \cap DOMAIN tracks  \* mutant: without the tags
Stale(tracks, indices) == LET valid == indices \cap DOMAIN tracks
                          IN  IF valid # {} THEN valid ELSE Tagged(tracks)

\* What ffmpeg writes: every track but the dropped ones, then the clean track.
\* It drops by position, whatever is there when it opens the file.
Kept(tracks, drop)   == LET keep == {i \in DOMAIN tracks : i \notin drop}
                            nth(k) == CHOOSE i \in keep : Cardinality({x \in keep : x < i}) = k - 1
                        IN  [k \in 1..Cardinality(keep) |-> tracks[nth(k)]]
AppendList(tracks, drop) == Append(Kept(tracks, drop), <<Clean>>)  \* mutant: for extend
Remuxed(tracks, drop) == Append(Kept(tracks, drop), Clean)

---------------------------------------------------------------------------
(* Runs *)

States   == {"queued", "processing", "done", "failed", "cancelled"}
\* In remux_with_clean_track, in order; the cancel check refuses from "verifying" on.
Steps    == {"new", "waiting", "probing", "planned", "building", "verifying", "staging",
             "swapping", "tidying", "saving", "over"}
Early    == {"waiting", "probing", "planned", "building"}
Heavy    == Steps \ {"new", "waiting", "saving", "over"}
Swaps    == {"none", "copying", "unlinking", "replacing", "restoring", "swapped", "failed", "cut"}
InFlight == {"copying", "unlinking", "replacing", "restoring"}

NoRun == [at |-> "new", path |-> 1, known |-> {}, drop |-> {}, tracks |-> 0, keep |-> TRUE]

Goes(r, to)   == run' = [run EXCEPT ![r].at = to]
Step(r, a, b) == run[r].at = a /\ Goes(r, b)
LeaveLock(r)  == lock' = IF lock = r THEN Free ELSE lock

\* The run is over: its row gets its final state.
Ends(r, outcome) ==
    /\ state' = [state EXCEPT ![r] = outcome]
    /\ Goes(r, "over")
    /\ LeaveLock(r)
    /\ asked' = asked \ {r}

\* _run_job loads the Title row once; what it remembers of it is never refreshed.
Begin(r) ==
    /\ process = "up"
    /\ run[r].at = "new"
    /\ run' = [run EXCEPT ![r].at = "waiting", ![r].path = path, ![r].known = known]
    /\ state' = [state EXCEPT ![r] = "processing"]
    /\ UNCHANGED <<files, title, swap, lock, asked, process, lives>>

Acquire(r) ==
    /\ Step(r, "waiting", "probing")
    /\ lock = Free
    /\ lock' = r
    /\ UNCHANGED <<files, title, state, swap, asked, process, lives>>

\* remove_orphaned_temp_files leaves every temp file younger than an hour, so
\* the one ffmpeg is writing is safe and any other one may go.
Sweep(r) ==
    \E swept \in SUBSET {s \in Runs : run[s].path = run[r].path /\ run[s].at # "building"} :
        temp' = [s \in Runs |-> IF s \in swept THEN NoFile ELSE temp[s]]

\* The existence check, the sweep, the probe and the plan.
Probe(r) ==
    LET tracks == video[run[r].path].tracks IN
    /\ run[r].at = "probing"
    /\ Exists(video[run[r].path])
    /\ Sweep(r)
    /\ \E keep \in BackupSettings :
         run' = [run EXCEPT ![r] = [@ EXCEPT !.at = "planned", !.drop = Stale(tracks, run[r].known),
                                             !.tracks = Len(tracks), !.keep = keep]]
    /\ UNCHANGED <<video, backup, title, state, swap, lock, asked, process, lives>>

\* ffmpeg opens the video and starts on a temp file of its own.  What it makes
\* of a truncated video has another length, and ends in Fail.
Build(r) ==
    LET source == video[run[r].path] IN
    /\ Step(r, "planned", "building")
    /\ source.whole
    /\ temp' = [temp EXCEPT ![r] = Partial(Fresh(Remuxed(source.tracks, run[r].drop)))]
    /\ UNCHANGED <<video, backup, title, state, swap, lock, asked, process, lives>>

\* ffmpeg exits, and on_stage commits a progress of 97.
Built(r) ==
    /\ Step(r, "building", "verifying")
    /\ temp' = [temp EXCEPT ![r].whole = TRUE]
    /\ UNCHANGED <<video, backup, title, state, swap, lock, asked, process, lives>>

\* verify_output counts the streams against the probe and decodes the new one.
Verified(r) ==
    /\ temp[r].whole
    /\ Len(temp[r].tracks) = run[r].tracks + 1 - Cardinality(run[r].drop)
Verify(r) ==
    /\ Step(r, "verifying", "staging")
    /\ Verified(r)
    /\ UNCHANGED <<files, title, state, swap, lock, asked, process, lives>>

\* The shielded task is started, and its thread on the move.
BeginSwap(r) ==
    /\ Step(r, "staging", "swapping")
    /\ swap' = [swap EXCEPT ![r] = "copying"]
    /\ UNCHANGED <<files, title, state, lock, asked, process, lives>>

\* The shielded task came back: the backup goes when backups are disabled.
NotAwaited(r) ==  \* mutant: the task is started and forgotten
    /\ Step(r, "swapping", "tidying")
    /\ UNCHANGED <<files, title, state, swap, lock, asked, process, lives>>
Swapped(r) ==
    /\ Step(r, "swapping", "tidying")
    /\ swap[r] = "swapped"
    /\ UNCHANGED <<files, title, state, swap, lock, asked, process, lives>>
Tidy(r) ==
    /\ Step(r, "tidying", "saving")
    /\ backup' = IF run[r].keep THEN backup ELSE [backup EXCEPT ![r] = NoFile]
    /\ LeaveLock(r)
    /\ UNCHANGED <<video, temp, title, state, swap, asked, process, lives>>

\* The last commit.  The ORM writes the indices when they differ from those
\* the run loaded, on whatever file the Title row is about by now.
LastKept(r) == {run[r].tracks - Cardinality(run[r].drop)}  \* mutant: off by one
NewIndex(r) == {run[r].tracks - Cardinality(run[r].drop) + 1}
Record(r)   == known' = IF NewIndex(r) = run[r].known THEN known ELSE NewIndex(r)
Save(r) ==
    /\ run[r].at = "saving"
    /\ Record(r)
    /\ Ends(r, "done")
    /\ UNCHANGED <<files, path, swap, process, lives>>

\* A failure.  The temp file is unlinked when ffmpeg exits with an error and
\* when the verification fails; it stays when ffmpeg ran into its time limit,
\* and when the shielded task failed and did not unlink it itself.
Fail(r) ==
    /\ \/ /\ run[r].at \in {"probing", "planned", "building", "staging"}
          /\ UNCHANGED temp
       \/ /\ run[r].at \in {"building", "verifying"}
          /\ temp' = [temp EXCEPT ![r] = NoFile]
       \/ /\ run[r].at = "swapping" /\ swap[r] = "failed"
          /\ UNCHANGED temp
    /\ Ends(r, "failed")
    /\ UNCHANGED <<video, backup, title, swap, process, lives>>

---------------------------------------------------------------------------
(* _finalize_swap, in its own task *)

\* shutil.move to another filesystem: copy to the end, then unlink the source.
CopyAside(r) ==
    /\ swap[r] = "copying"
    /\ Exists(video[run[r].path])
    /\ backup' = [backup EXCEPT ![r] = video[run[r].path]]
    /\ swap' = [swap EXCEPT ![r] = "unlinking"]
    /\ UNCHANGED <<video, temp, title, state, run, lock, asked, process, lives>>

UnlinkSource(r) ==
    /\ swap[r] = "unlinking"
    /\ Exists(video[run[r].path])
    /\ video' = [video EXCEPT ![run[r].path] = NoFile]
    /\ swap' = [swap EXCEPT ![r] = "replacing"]
    /\ UNCHANGED <<temp, backup, title, state, run, lock, asked, process, lives>>

\* The move fails (the source is gone, the disk is full): nothing catches it.
MoveFails(r) ==
    /\ \/ /\ swap[r] = "copying"
          /\ \/ UNCHANGED backup
             \/ /\ Exists(video[run[r].path])
                /\ backup' = [backup EXCEPT ![r] = Partial(video[run[r].path])]
       \/ /\ swap[r] = "unlinking"
          /\ UNCHANGED backup
    /\ swap' = [swap EXCEPT ![r] = "failed"]
    /\ UNCHANGED <<video, temp, title, state, run, lock, asked, process, lives>>

\* tmp_path.replace(video_path).
Replace(r) ==
    /\ swap[r] = "replacing"
    /\ Exists(temp[r])
    /\ video' = [video EXCEPT ![run[r].path] = temp[r]]
    /\ temp' = [temp EXCEPT ![r] = NoFile]
    /\ swap' = [swap EXCEPT ![r] = "swapped"]
    /\ UNCHANGED <<backup, title, state, run, lock, asked, process, lives>>

\* It fails: the backup is copied back, then it and the temp file are unlinked.
BackupGone(r) ==  \* mutant: the backup is unlinked before it was copied back
    /\ swap[r] = "replacing"
    /\ video' = [video EXCEPT ![run[r].path] = Partial(backup[r])]
    /\ backup' = [backup EXCEPT ![r] = NoFile]
    /\ swap' = [swap EXCEPT ![r] = "restoring"]
    /\ UNCHANGED <<temp, title, state, run, lock, asked, process, lives>>
LostTempUnseen(r) ==  \* mutant: a temp file that is gone is not an error
    /\ swap[r] = "replacing"
    /\ Exists(temp[r])
    /\ video' = [video EXCEPT ![run[r].path] = Partial(backup[r])]
    /\ swap' = [swap EXCEPT ![r] = "restoring"]
    /\ UNCHANGED <<temp, backup, title, state, run, lock, asked, process, lives>>
ReplaceFails(r) ==
    /\ swap[r] = "replacing"
    /\ video' = [video EXCEPT ![run[r].path] = Partial(backup[r])]
    /\ swap' = [swap EXCEPT ![r] = "restoring"]
    /\ UNCHANGED <<temp, backup, title, state, run, lock, asked, process, lives>>
Restore(r) ==
    /\ swap[r] = "restoring"
    /\ video' = [video EXCEPT ![run[r].path] = backup[r]]
    /\ backup' = [backup EXCEPT ![r] = NoFile]
    /\ temp' = [temp EXCEPT ![r] = NoFile]
    /\ swap' = [swap EXCEPT ![r] = "failed"]
    /\ UNCHANGED <<title, state, run, lock, asked, process, lives>>
\* The restore is best effort: when it fails too, backup and temp file stay.
RestoreFails(r) ==
    /\ swap[r] = "restoring"
    /\ swap' = [swap EXCEPT ![r] = "failed"]
    /\ UNCHANGED <<files, title, state, run, lock, asked, process, lives>>

SwapSucceeds(r) == CopyAside(r) \/ UnlinkSource(r) \/ Replace(r) \/ Restore(r)
SwapFails(r)    == MoveFails(r) \/ ReplaceFails(r) \/ RestoreFails(r)

---------------------------------------------------------------------------
(* Cancellation *)

\* cancel_job passes its check while progress is below 97 ...
AskCancel(r) ==
    /\ process = "up"
    /\ run[r].at \in Early
    /\ asked' = asked \cup {r}
    /\ UNCHANGED <<files, title, state, run, swap, lock, process, lives>>

\* ... and cancels the task some awaits later.  The temp file is unlinked while
\* ffmpeg runs and during the verification; a started swap goes on without
\* the run; a cancelled last commit may have taken effect.
Cancelled(r) ==
    /\ run[r].at \notin {"new", "over"}
    /\ \/ /\ temp' = IF run[r].at \in {"building", "verifying"} THEN [temp EXCEPT ![r] = NoFile] ELSE temp
          /\ UNCHANGED known
          /\ Ends(r, "cancelled")
       \/ /\ run[r].at = "saving"
          /\ Record(r)
          /\ Ends(r, "done")
          /\ UNCHANGED temp
    /\ UNCHANGED <<video, backup, path, swap, process, lives>>
Cancel(r) == r \in asked /\ Cancelled(r)

---------------------------------------------------------------------------
(* Imports *)

\* Sonarr or Radarr imports a new file and deletes the old one.  The webhook's
\* upsert_title writes the new path and nothing about clean tracks, the
\* replacement watcher of JobQueue clears them.
Import(clears) ==
    /\ process = "up"
    /\ path + 1 \in Paths
    /\ path' = path + 1
    /\ video' = [video EXCEPT ![path + 1] = Fresh(Originals[path + 1]), ![path] = NoFile]
    /\ known' = IF clears THEN {} ELSE known
    /\ UNCHANGED <<temp, backup, state, run, swap, lock, asked, process, lives>>

---------------------------------------------------------------------------
(* Start, stop and crash *)

\* stop() cancels every run; then the event loop closes and cancels every task
\* that is left, the shielded one included.
Stop ==
    /\ process = "up"
    /\ lives < MaxLives
    /\ process' = "stopping"
    /\ asked' = {r \in Runs : run[r].at \notin {"new", "over"}}
    /\ UNCHANGED <<files, title, state, run, swap, lock, lives>>

\* Only the thread goes on, to the end of its move.
LastMove(r) ==
    \/ /\ swap[r] = "copying"
       /\ Exists(video[run[r].path])
       /\ backup' = [backup EXCEPT ![r] = video[run[r].path]]
       /\ video' = [video EXCEPT ![run[r].path] = NoFile]
    \/ /\ swap[r] = "unlinking"
       /\ video' = [video EXCEPT ![run[r].path] = NoFile]
       /\ UNCHANGED backup
    \/ /\ swap[r] = "restoring"
       /\ video' = [video EXCEPT ![run[r].path] = backup[r]]
       /\ backup' = [backup EXCEPT ![r] = NoFile]
    \/ /\ swap[r] \in {"copying", "replacing"}
       /\ UNCHANGED <<video, backup>>
\* A restore cut short has failed.
CutShort(r) == CASE swap[r] = "restoring"          -> "failed"
                 [] swap[r] \in InFlight \ {"restoring"} -> "cut"
                 [] OTHER                          -> swap[r]
CloseLoop(r) ==
    /\ process = "stopping"
    /\ asked = {}
    /\ LastMove(r)
    /\ swap' = [swap EXCEPT ![r] = CutShort(r)]
    /\ UNCHANGED <<temp, title, state, run, lock, asked, process, lives>>

Gone ==
    /\ process' = "down"
    /\ swap' = [r \in Runs |-> CutShort(r)]
    /\ lock' = Free
    /\ asked' = {}
    /\ run' = [r \in Runs |-> IF run[r].at = "new" THEN run[r] ELSE [run[r] EXCEPT !.at = "over"]]
    /\ UNCHANGED <<files, title, state, lives>>
Exit  == process = "stopping" /\ asked = {} /\ (\A r \in Runs : swap[r] \notin InFlight) /\ Gone
Crash == MayCrash /\ process # "down" /\ lives < MaxLives /\ Gone

\* start(): the temp files next to the video of a job still "processing" are
\* removed; the job itself runs again, as another run.
Start ==
    /\ process = "down"
    /\ lives < MaxLives
    /\ process' = "up"
    /\ lives' = lives + 1
    /\ LET dead == {r \in Runs : state[r] = "processing"} IN
       /\ temp' = [r \in Runs |-> IF dead # {} /\ run[r].path = path THEN NoFile ELSE temp[r]]
       /\ state' = [r \in Runs |-> IF r \in dead THEN "queued" ELSE state[r]]
    /\ UNCHANGED <<video, backup, title, run, swap, lock, asked>>

---------------------------------------------------------------------------
(* Specification *)

Init ==
    /\ video = [p \in Paths |-> IF p = 1 THEN Fresh(Originals[1]) ELSE NoFile]
    /\ temp = [r \in Runs |-> NoFile]
    /\ backup = [r \in Runs |-> NoFile]
    /\ path = 1
    /\ known = {}
    /\ state = [r \in Runs |-> "queued"]
    /\ run = [r \in Runs |-> NoRun]
    /\ swap = [r \in Runs |-> "none"]
    /\ lock = Free
    /\ asked = {}
    /\ process = "down"
    /\ lives = 0

Advance(r) ==
    /\ r \notin asked \/ process = "up"
    /\ \/ Begin(r) \/ Acquire(r) \/ Probe(r) \/ Build(r) \/ Built(r) \/ Verify(r)
       \/ BeginSwap(r) \/ Swapped(r) \/ Tidy(r) \/ Save(r) \/ Fail(r)

Next ==
    \/ \E r \in Runs : Advance(r) \/ AskCancel(r) \/ Cancel(r) \/ SwapSucceeds(r) \/ SwapFails(r) \/ CloseLoop(r)
    \/ \E clears \in BOOLEAN : Import(clears)
    \/ Stop \/ Exit \/ Crash \/ Start

Spec == Init /\ [][Next]_vars

\* The shielded task and its thread are scheduled like everything else on the
\* event loop; nothing makes a run, an import or a failure happen.
Fairness == \A r \in Runs : WF_vars(SwapSucceeds(r) \/ SwapFails(r))
FairSpec == Spec /\ Fairness

---------------------------------------------------------------------------
(* Properties *)

TypeOK ==
    /\ video \in [Paths -> File]
    /\ temp \in [Runs -> File]
    /\ backup \in [Runs -> File]
    /\ path \in Paths
    /\ known \in SUBSET (Nat \ {0})
    /\ state \in [Runs -> States]
    /\ run \in [Runs -> [at: Steps, path: Paths, known: SUBSET (Nat \ {0}),
                         drop: SUBSET (Nat \ {0}), tracks: Nat, keep: BOOLEAN]]
    /\ swap \in [Runs -> Swaps]
    /\ lock \in Runs \cup {Free}
    /\ asked \subseteq Runs
    /\ process \in {"up", "stopping", "down"}
    /\ lives \in 0..MaxLives

Count(f)       == Cardinality({i \in DOMAIN f.tracks : f.tracks[i] = Clean})

\* Reprocessing never drops an original audio track: as long as the title has
\* had one file, whatever video is in place has all the tracks it came with.
KeepsOriginals ==
    path = 1 /\ video[1].whole => OriginalSet(1) \subseteq TrackSet(video[1])

\* The docstring of plan_audio_streams claims it of every file the title gets.
EveryFileKeepsOriginals ==
    \A p \in Paths : video[p].whole => OriginalSet(p) \subseteq TrackSet(video[p])

\* Reprocessing replaces the clean track of the run before instead of stacking
\* another one on it, however the runs were cancelled, killed or overlapped, under
\* two premises.  The container keeps the title tag: if it drops it, a run that is
\* cancelled or killed between its swap and its last commit leaves a clean track
\* that neither an index nor a tag tells of, and the next run adds another.  And
\* the title has had one file: by the indices of an earlier one a run drops an
\* original and is cancelled before its last commit, the next one drops another
\* original and not the clean track.
NoStackedTracks == TagsStick /\ path = 1 => Count(video[1]) <= 1

\* The case the next three leave out.  A run cancelled in its swap gives the lock
\* away, and the next run's swap overlaps its own; if one of the two is undone,
\* the other can unlink the restored video after copying half of it aside, or
\* lose its own result to the restore.
Undone(r) == swap[r] \in {"restoring", "failed"}
Overlap(r, s) == r # s /\ state[r] = "cancelled" /\ swap[r] # "none" /\ swap[s] # "none"
SwapsCollide  == \E r, s \in Runs : Overlap(r, s) /\ (Undone(r) \/ Undone(s))

\* No crash, cancellation or failure loses an original track for good: at every
\* moment it is in a whole file, the video itself or a backup of it.
Recoverable ==
    path = 1 /\ ~SwapsCollide =>
        \E f \in {video[1]} \cup {backup[r] : r \in Runs} :
            f.whole /\ OriginalSet(1) \subseteq TrackSet(f)

\* A job that says "done" has left the clean track in its video, whatever later
\* runs do to it.
DoneMeansClean ==
    ~SwapsCollide =>
        \A r \in Runs : state[r] = "done" /\ video[run[r].path].whole => Clean \in TrackSet(video[run[r].path])

\* While the server stays up, the title's video, once moved aside, comes back
\* whole, the clean version or the original; only when the rename and then its
\* undoing failed it is left to its backup.
VideoComesBack ==
    \A r \in Runs :
        swap[r] = "replacing" /\ process = "up"
            ~> \/ video[run[r].path].whole
               \/ swap[r] = "failed" /\ backup[r].whole
               \/ SwapsCollide
               \/ process # "up"

\* The comment on the shield: whatever cancels the run, the file ends up swapped
\* in or restored, so with no swap under way the title's video is there.
VideoNeverMissing ==
    (\A r \in Runs : swap[r] \notin InFlight) => Exists(video[path])

=============================================================================
