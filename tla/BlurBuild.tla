------------------------------ MODULE BlurBuild ------------------------------
(***************************************************************************)
(* How a blur job builds a title's "Vulgarr Edit" file (app.mux.scene_blur *)
(* under app.scenes.pipeline.apply_scene_blur) and resumes after a crash.  *)
(* The video is split at keyframes, the segments with an approved scene    *)
(* are re-encoded and all of them joined again; when that fails or its     *)
(* output does not verify, the whole file is re-encoded instead.           *)
(*                                                                         *)
(* Every finished piece stays in the job's work directory under its real   *)
(* name until the job ends, and the next attempt at the job, after a       *)
(* restart, takes a piece that exists as done.                             *)
(*                                                                         *)
(* Time is cut into cells 0..Duration-1, each longer than the tolerances   *)
(* of the checks.  Footage is the sequence of cells a file plays, each     *)
(* marked as blurred or not.                                               *)
(***************************************************************************)
EXTENDS Naturals, Sequences, FiniteSets, SequencesExt

CONSTANTS
    Duration,  \* the length of the video, in cells
    Videos,    \* what its keyframes may be, see Video
    Requests,  \* what may be approved: windows to blur, and whether some are muted
    MaxTracks, \* bound: how many audio tracks the file may come to have
    MaxDrift,  \* _MAX_BOUNDARY_RETRY_DRIFT_SECONDS
    MaxTries,  \* how often the cut points are checked (20 in the code)
    MayMiss,   \* may the probe of a cut fail, which counts as finding nothing
    MaxLives,  \* bound: how many times the process is started
    NoFile     \* the file does not exist

Window == [start: Nat, end: Nat]

ASSUME BlurBuildAssumption ==
    /\ Duration \in Nat \ {0}
    /\ Requests \subseteq [windows: SUBSET Window, mute: BOOLEAN]
    /\ MaxTracks \in Nat \ {0}
    /\ MaxDrift \in Nat
    /\ MaxTries \in Nat \ {0}
    /\ MayMiss \in BOOLEAN
    /\ MaxLives \in Nat \ {0}

VARIABLES
    video,    \* its keyframes, and where a stream copy can really be cut
    tracks,   \* how many audio tracks the file has
    approved, \* what is approved now
    job,      \* the state of the job's row
    run,      \* the attempt in progress
    dir,      \* the job's work directory
    tmp,      \* the temp file next to the video
    edit,     \* the Vulgarr Edit file
    up,       \* is the server up
    lives,    \* how many times it was started
    lost      \* did a task of this process end without writing the row

sources == <<video, tracks, approved>>
server  == <<up, lives, lost>>
vars    == <<video, tracks, approved, job, run, dir, tmp, edit, up, lives, lost>>

---------------------------------------------------------------------------
(* Footage and windows *)

Cells == 0..(Duration - 1)

Footage(from, to, blurred) ==
    [i \in 1..(to - from) |-> [cell |-> from + i - 1, blur |-> (from + i - 1) \in blurred]]

Frame == [cell: Cells, blur: BOOLEAN]
Film  == Seq(Frame)
ASSUME NoFileAssumption == NoFile \notin Requests \cup Film

\* A window is padded and may end after the video.
Within(windows) == {c \in Cells : \E w \in windows : w.start <= c /\ c < w.end}
PastEnd(windows) ==  \* mutant: a window may take the file past its end
    Footage(0, Duration + Cardinality({w \in windows : w.end > Duration}), Within(windows))
Wanted(windows) == Footage(0, Duration, Within(windows))

Distance(a, b) == IF a < b THEN b - a ELSE a - b

---------------------------------------------------------------------------
(* plan_video_segments *)

ClampedEnd(w, keys, c) ==  \* mutant: the end is taken back to a keyframe
    /\ c < w.start => \A k \in keys : k <= w.start => k <= c
    /\ \E k \in keys \cup {Duration} : c < k /\ k <= w.end
\* Is cell c between the last keyframe at or before the window's start and the
\* first at or after its end?  Without one, the video's start or end is taken.
Expanded(w, keys, c) ==
    /\ c < w.start => \A k \in keys : k <= w.start => k <= c
    /\ c >= w.end  => \A k \in keys : k >= w.end   => k > c
Covered(windows, keys) == {c \in Cells : \E w \in windows : Expanded(w, keys, c)}

\* merge_intervals with a gap of 0: ranges that touch or overlap are one.
Edges(S) == {0, Duration} \cup {c \in Cells \ {0} : (c \in S) # (c - 1 \in S)}
InOrder[S \in SUBSET (0..Duration)] ==
    [i \in 1..Cardinality(S) |-> CHOOSE x \in S : Cardinality({y \in S : y < x}) = i - 1]

Plan(windows, keys) ==
    LET in   == Covered(windows, keys)
        edge == InOrder[Edges(in)]
    IN  [i \in 1..(Len(edge) - 1) |->
           [from |-> edge[i], to |-> edge[i + 1], reencode |-> edge[i] \in in,
            blur |-> IF edge[i] \in in THEN Within(windows) \cap edge[i]..(edge[i + 1] - 1) ELSE {}]]

SceneBounds(plan) == UNION {{plan[i].from, plan[i].to} : i \in {k \in DOMAIN plan : plan[k].reencode}}

---------------------------------------------------------------------------
(* The segment muxer (ffmpeg) and the checks of what it produced *)

\* Of video v it starts a new file at the first place it can cut at or after each
\* requested time, one file at a time, and makes fewer files if it runs out:
\* it cuts at c when a requested time is due, more of them being at or before
\* c than cuts were made before c.
Due(plan, c) == Cardinality({i \in DOMAIN plan : plan[i].from > 0 /\ plan[i].from <= c})
CutsMade(v, plan) ==
    LET made[c \in 0..Duration] ==  \* the cuts made before c
          IF c = 0 THEN {}
          ELSE UNION {m \cup {d \in {c - 1} \cap v.cuts : Cardinality(m) < Due(plan, d)} :
                        m \in {made[c - 1]}}
    IN  made[Duration]
SplitCopies(v, plan) ==
    LET bound == InOrder[{0, Duration} \cup CutsMade(v, plan)]
    IN  [i \in 1..(Len(bound) - 1) |-> Footage(bound[i], bound[i + 1], {})]

\* What the checks of copy segment i find bad, in their order: its file starts
\* or ends elsewhere than planned, or at a place where a decoder would lack a
\* reference (RASL after the cut, a CRA before it).  Each names the boundary to
\* give up, and the keyframes learnt: only where a file really starts is one.
Complaints(v, plan, files, i) ==
    LET seg   == plan[i]
        start == files[i][1].cell
        end   == Last(files[i]).cell + 1
        Bad(wrong, b, keys) == IF wrong THEN <<[boundary |-> b, keys |-> keys]>> ELSE <<>>
    IN  IF seg.reencode \/ i \notin DOMAIN files THEN <<>>
        ELSE Bad(seg.from > 0 /\ start \in v.unclean, seg.from, {})
          \o Bad(seg.from > 0 /\ start # seg.from, seg.from, {start})
          \o Bad(seg.to < Duration /\ end # seg.to, seg.to, {})
          \o Bad(seg.to < Duration /\ end \in v.unclean, seg.to, {})
AllComplaints(v, plan, files) ==
    FlattenSeq([i \in DOMAIN plan |-> Complaints(v, plan, files, i)])

---------------------------------------------------------------------------
(* State *)

\* New files take the place of old ones of the same number.
Over(new, old) == [i \in DOMAIN new \cup DOMAIN old |-> IF i \in DOMAIN new THEN new[i] ELSE old[i]]
Piece(i, film) == [k \in {i} |-> film]

Video == [keys: SUBSET Cells, cuts: SUBSET (1..(Duration - 1)), unclean: SUBSET Cells]

NoFiles  == <<>>
EmptyDir == [for |-> NoFile, copy |-> NoFiles, fixed |-> NoFiles, reencode |-> NoFiles,
             joined |-> NoFile, whole |-> NoFile, muted |-> 0, audio |-> 0]
NoRun    == [at |-> "none", request |-> NoFile, keys |-> {}, plan |-> <<>>, first |-> {},
             paths |-> <<>>, tries |-> 0, whole |-> FALSE]

At(s)    == run.at = s
Stage(s) == run' = [run EXCEPT !.at = s]
Windows  == run.request.windows

\* Where an attempt waits for ffmpeg, for ffprobe or for a commit.
Building == {"opening", "keyframes", "split", "check", "produce", "reencode", "audio", "audioJoin",
             "mux", "verify"}
Working  == {"probing", "publish", "recording"} \cup Building
Stages   == {"none", "clean", "saving", "failing", "savingFailed"} \cup Working

\* The attempt by segments failed: try again with the whole file.  The attempt
\* with the whole file failed: so did the job.
TryAgain ==  \* mutant: every failure falls back once more
    /\ run' = [NoRun EXCEPT !.at = "opening", !.request = run.request, !.whole = TRUE]
    /\ tmp' = NoFile
Fails ==
    /\ run' = IF run.whole \/ ~(run.at \in Building)
              THEN [run EXCEPT !.at = "failing"]
              ELSE [NoRun EXCEPT !.at = "opening", !.request = run.request, !.whole = TRUE]
    /\ tmp' = NoFile

---------------------------------------------------------------------------
(* The job *)

\* _run_job under the heavy lock: apply_scene_blur selects what is approved.
\* A row whose task ended before its first commit waits for the next start.
Begin ==
    /\ up /\ ~lost
    /\ job = "queued"
    /\ job' = "processing"
    /\ run' = [NoRun EXCEPT !.at = IF approved.windows = {} THEN "failing" ELSE "probing",
                            !.request = approved]
    /\ UNCHANGED <<sources, dir, tmp, edit, server>>

\* apply_blur sweeps old temp files and probes the video.
Probe ==
    /\ At("probing")
    /\ Stage("opening")
    /\ UNCHANGED <<sources, job, dir, tmp, edit, server>>

\* build_blurred_video: a directory left by another plan is wiped.
AnyDir   == [dir EXCEPT !.for = run.request]  \* mutant: what is there is taken over
FreshDir == IF dir.for = run.request THEN dir ELSE [EmptyDir EXCEPT !.for = run.request]
Open ==
    /\ At("opening")
    /\ dir' = FreshDir
    /\ Stage(IF run.whole THEN "reencode" ELSE "keyframes")
    /\ UNCHANGED <<sources, job, tmp, edit, server>>

\* The keyframe probe and the plan; a failed probe counts as no keyframes.
PlanSegments ==
    /\ At("keyframes")
    /\ \E keys \in {video.keys, {}} :
         \E plan \in {Plan(Windows, keys)} :
         run' = [run EXCEPT !.keys = keys, !.plan = plan, !.first = SceneBounds(plan),
                   !.at = IF dir.joined # NoFile THEN "audio"
                          ELSE IF Len(plan) > 1 THEN "split" ELSE "produce"]
    /\ UNCHANGED <<sources, job, dir, tmp, edit, server>>

\* _split_copy_segments, always done over.
Split ==
    /\ At("split")
    /\ dir' = [dir EXCEPT !.copy = Over(SplitCopies(video, run.plan), dir.copy)]
    /\ Stage("check")
    /\ UNCHANGED <<sources, job, tmp, edit, server>>

\* One round of the checks.  Every probe may fail, so any complaint may turn
\* out to be the first, or none.
Found == LET all == AllComplaints(video, run.plan, dir.copy) IN
         {all[i] : i \in IF MayMiss THEN DOMAIN all ELSE DOMAIN all \cap {1}}
CutsAreGood ==
    /\ At("check")
    /\ MayMiss \/ Found = {}
    /\ Stage("produce")
    /\ UNCHANGED <<sources, job, dir, tmp, edit, server>>

TooFar(b) == \A o \in run.first : Distance(b, o) > MaxDrift
\* A bad boundary is no longer taken for a keyframe, the file is planned
\* again, and the pieces of the old plan are removed.
Wiped == [dir EXCEPT !.copy = NoFiles, !.fixed = NoFiles, !.reencode = NoFiles]
CutIsBad ==
    /\ At("check")
    /\ \E bad \in Found :
       \E keys \in {(run.keys \ {bad.boundary}) \cup bad.keys} :
       \E plan \in {Plan(Windows, keys)} :
         IF TooFar(bad.boundary)
         THEN Fails /\ UNCHANGED dir
         ELSE /\ dir' = Wiped
              /\ IF run.tries + 1 = MaxTries
                 THEN Fails
                 ELSE /\ run' = [run EXCEPT !.keys = keys, !.plan = plan, !.tries = @ + 1,
                                   !.at = IF Len(plan) > 1 THEN "split" ELSE "check"]
                      /\ UNCHANGED tmp
    /\ UNCHANGED <<sources, job, edit, server>>

---------------------------------------------------------------------------
(* Producing, joining, muxing *)

Next1 == Len(run.paths) + 1  \* the segment whose turn it is
Turn(reencode) == At("produce") /\ Next1 \in DOMAIN run.plan /\ run.plan[Next1].reencode = reencode
Take(piece) == run' = [run EXCEPT !.paths = Append(@, piece)]

\* A scene's segment: taken if its file exists, else encoded.
Encoded(seg) == Footage(seg.from, seg.to, seg.blur)
ProduceScene ==
    /\ Turn(TRUE)
    /\ IF Next1 \in DOMAIN dir.reencode
       THEN Take(dir.reencode[Next1]) /\ UNCHANGED dir
       ELSE LET piece == Encoded(run.plan[Next1]) IN
            /\ dir' = [dir EXCEPT !.reencode = Over(Piece(Next1, piece), @)]
            /\ Take(piece)
    /\ UNCHANGED <<sources, job, tmp, edit, server>>

\* A copied segment: its timestamps are put right, in a file that is taken as
\* done if it exists.
ProduceCopy ==
    /\ Turn(FALSE)
    /\ \/ /\ Next1 \in DOMAIN dir.fixed
          /\ Take(dir.fixed[Next1])
          /\ UNCHANGED <<dir, tmp>>
       \/ /\ Next1 \in DOMAIN dir.copy \ DOMAIN dir.fixed
          /\ dir' = [dir EXCEPT !.fixed = Over(Piece(Next1, dir.copy[Next1]), @)]
          /\ Take(dir.copy[Next1])
          /\ UNCHANGED tmp
       \/ /\ Next1 \notin DOMAIN dir.copy \cup DOMAIN dir.fixed
          /\ Fails
          /\ UNCHANGED dir
    /\ UNCHANGED <<sources, job, edit, server>>

Join ==
    /\ At("produce")
    /\ Len(run.paths) = Len(run.plan)
    /\ dir' = [dir EXCEPT !.joined = FlattenSeq(run.paths)]
    /\ Stage("audio")
    /\ UNCHANGED <<sources, job, tmp, edit, server>>

\* _build_video_whole_file_reencode
ReencodeAll ==
    /\ At("reencode")
    /\ dir' = [dir EXCEPT !.whole = IF @ # NoFile THEN @ ELSE Wanted(Windows)]
    /\ Stage("audio")
    /\ UNCHANGED <<sources, job, tmp, edit, server>>

\* With something to mute, the audio is split into muted and copied pieces, each
\* with the tracks the video has; pieces that are there are kept ...
MuteAudio ==
    /\ At("audio")
    /\ IF run.request.mute /\ dir.audio = 0
       THEN /\ dir' = [dir EXCEPT !.muted = IF @ = 0 THEN tracks ELSE @]
            /\ Stage("audioJoin")
       ELSE /\ UNCHANGED dir
            /\ Stage("mux")
    /\ UNCHANGED <<sources, job, tmp, edit, server>>

\* ... and joined, which asks of them every track the video has now.
JoinAudio ==
    /\ At("audioJoin")
    /\ IF dir.muted < tracks
       THEN Fails /\ UNCHANGED dir
       ELSE /\ dir' = [dir EXCEPT !.audio = tracks]
            /\ Stage("mux")
            /\ UNCHANGED tmp
    /\ UNCHANGED <<sources, job, edit, server>>

\* _mux_final_output maps every audio track the video has now.
LacksTracks == run.request.mute /\ dir.audio < tracks
Mux ==
    /\ At("mux")
    /\ IF LacksTracks
       THEN Fails
       ELSE /\ tmp' = IF run.whole THEN dir.whole ELSE dir.joined
            /\ Stage("verify")
    /\ UNCHANGED <<sources, job, dir, edit, server>>

\* verify_blurred_output compares the durations.
AnyLength == TRUE  \* mutant
RightLength == Len(tmp) = Duration
Verify ==
    /\ At("verify")
    /\ IF RightLength THEN Stage("publish") /\ UNCHANGED tmp ELSE Fails
    /\ UNCHANGED <<sources, job, dir, edit, server>>

\* The temp file takes the name of the Vulgarr Edit, and the directory goes.
Publish ==
    /\ At("publish")
    /\ edit' = [request |-> run.request, footage |-> tmp]
    /\ tmp' = NoFile
    /\ Stage("clean")
    /\ UNCHANGED <<sources, job, dir, server>>
Clean ==
    /\ At("clean") \/ At("failing")
    /\ dir' = EmptyDir
    /\ Stage(IF At("clean") THEN "recording" ELSE "savingFailed")
    /\ UNCHANGED <<sources, job, tmp, edit, server>>

\* apply_scene_blur commits the Edit's path and the scenes' applied_at, within
\* the try, and _run_job the row's state, after it.
Record ==
    /\ At("recording")
    /\ Stage("saving")
    /\ UNCHANGED <<sources, job, dir, tmp, edit, server>>
Save ==
    /\ At("saving") \/ At("savingFailed")
    /\ job' = IF At("saving") THEN "done" ELSE "failed"
    /\ run' = NoRun
    /\ UNCHANGED <<sources, dir, tmp, edit, server>>

---------------------------------------------------------------------------
(* What else happens *)

\* ffmpeg fails, a decode check finds errors, a commit raises.
Fail ==
    /\ run.at \in Working
    /\ Fails
    /\ UNCHANGED <<sources, job, dir, edit, server>>

\* A cancelled attempt leaves its directory behind; a queued row is just marked.
Cancel ==
    /\ up
    /\ run.at \in Working \/ job = "queued"
    /\ job' = "cancelled"
    /\ run' = NoRun
    /\ tmp' = NoFile
    /\ UNCHANGED <<sources, dir, edit, server>>

\* The task ends and the row stays as it is: a commit is cancelled or raises
\* before the try, after it or in a handler, where nothing writes the row
\* any more.  No task takes it up again before the next start.  A wipe that
\* was begun goes on in its thread.
Lose ==
    /\ up /\ ~lost
    /\ \/ job = "queued" /\ UNCHANGED dir
       \/ run.at \in Working \cup {"saving", "failing", "savingFailed"} /\ UNCHANGED dir
       \/ At("failing") /\ dir' = EmptyDir
    /\ lost' = TRUE
    /\ run' = NoRun
    /\ tmp' = NoFile
    /\ UNCHANGED <<sources, job, edit, up, lives>>

\* The reviewer changes what is approved.
Review ==
    /\ approved' \in Requests \ {approved}
    /\ UNCHANGED <<video, tracks, job, run, dir, tmp, edit, server>>

\* An audio job, which needs the heavy lock too, adds a track to the file.
AddTrack ==
    /\ up
    /\ run.at = "none"
    /\ tracks < MaxTracks
    /\ tracks' = tracks + 1
    /\ UNCHANGED <<video, approved, job, run, dir, tmp, edit, server>>

\* The process dies.  In the middle of wiping the directory, any of its files
\* may be gone.
HalfWiped ==
    [for: {dir.for, NoFile}, copy: {NoFiles}, fixed: {dir.fixed, NoFiles},
     reencode: {Restrict(dir.reencode, S) : S \in SUBSET DOMAIN dir.reencode},
     joined: {dir.joined, NoFile}, whole: {dir.whole, NoFile}, muted: {dir.muted, 0}, audio: {dir.audio, 0}]
Crash ==
    /\ up
    /\ lives < MaxLives
    /\ up' = FALSE
    /\ run' = NoRun
    /\ \/ UNCHANGED dir
       \/ At("opening") /\ dir.for # run.request /\ dir' \in HalfWiped
    /\ lost' = FALSE
    /\ UNCHANGED <<sources, job, tmp, edit, lives>>

\* SceneJobQueue.start: the job is queued again and its temp file swept.
Start ==
    /\ ~up
    /\ up' = TRUE
    /\ lives' = lives + 1
    /\ IF job = "processing"
       THEN job' = "queued" /\ tmp' = NoFile
       ELSE UNCHANGED <<job, tmp>>
    /\ UNCHANGED <<sources, run, dir, edit, lost>>

---------------------------------------------------------------------------
(* Specification *)

Init ==
    /\ video \in Videos
    /\ tracks = 1
    /\ approved \in Requests
    /\ job = "queued"
    /\ run = NoRun
    /\ dir = EmptyDir
    /\ tmp = NoFile
    /\ edit = NoFile
    /\ up = TRUE
    /\ lives = 1
    /\ lost = FALSE

Attempt ==
    \/ Begin \/ Probe \/ Open \/ PlanSegments \/ Split \/ CutsAreGood \/ CutIsBad
    \/ ProduceScene \/ ProduceCopy \/ Join \/ ReencodeAll \/ MuteAudio \/ JoinAudio
    \/ Mux \/ Verify \/ Publish \/ Clean \/ Record \/ Save
Next == Attempt \/ Fail \/ Cancel \/ Lose \/ Review \/ AddTrack \/ Crash \/ Start

Spec == Init /\ [][Next]_vars

\* An attempt goes on while the process is up, and the container is started
\* again when it is not.
FairSpec == Spec /\ WF_vars(Attempt) /\ WF_vars(Start)

---------------------------------------------------------------------------
(* Properties *)

Requested == {NoFile} \cup Requests
Pieces(f) == DOMAIN f \subseteq Nat /\ \A i \in DOMAIN f : f[i] \in Film

\* Types: the attempt goes by the stages above, and every file is footage.
TypeOK ==
    /\ video \in Videos
    /\ tracks \in 1..MaxTracks
    /\ approved \in Requests
    /\ job \in {"queued", "processing", "done", "failed", "cancelled"}
    /\ run.at \in Stages /\ run.request \in Requested /\ run.tries < MaxTries
    /\ dir.for \in Requested /\ Pieces(dir.copy) /\ Pieces(dir.fixed) /\ Pieces(dir.reencode)
    /\ dir.joined \in Film \cup {NoFile} /\ dir.whole \in Film \cup {NoFile}
    /\ dir.muted \in 0..MaxTracks /\ dir.audio \in 0..MaxTracks
    /\ tmp \in Film \cup {NoFile}
    /\ edit = NoFile \/ (edit.footage \in Film /\ edit.request \in Requests)
    /\ lives \in 1..MaxLives /\ lost \in BOOLEAN

\* Whatever keyframes are left after the bad ones are given up, a plan plays
\* the whole video once, in order, and re-encodes exactly the cells of the
\* windows as blurred (plan_video_segments).
PlanIsExact ==
    run.plan # <<>> =>
        FlattenSeq([i \in DOMAIN run.plan |-> Encoded(run.plan[i])]) = Wanted(Windows)

\* No piece in the work directory blurs anything outside the windows that its
\* fingerprint stands for, and none that re-encodes leaves a window of them
\* bare, through crashes in the middle of a wipe and changes of what is
\* approved between attempts (_reset_stale_work_dir).
PiecesFitFingerprint ==
    dir.for # NoFile =>
        LET in == Within(dir.for.windows)
            Fits(film) == \A i \in DOMAIN film : film[i].blur = (film[i].cell \in in)
        IN  /\ \A i \in DOMAIN dir.reencode : Fits(dir.reencode[i])
            /\ dir.whole # NoFile => Fits(dir.whole)

\* What is published under the Vulgarr Edit's name plays the whole video, in
\* order, with every window it was built for blurred, and nothing else.
EditIsRight == edit # NoFile => edit.footage = Wanted(edit.request.windows)

\* A scene that was re-encoded is not thrown away while what is asked for stays
\* the same (the module's docstring: resuming "picks up close to where it left
\* off instead of starting a multi-hour re-encode over from zero").
WorkIsKept ==
    [][run.at \in Building => (dir'.for = dir.for => DOMAIN dir.reencode \subseteq DOMAIN dir'.reencode)]_vars

\* A queued blur job ends, whatever ffmpeg and the probes do and whenever the
\* process dies, unless its task is lost: then it ends after a restart or hangs,
\* queued or processing, for as long as the server stays up.
JobEnds == job \in {"queued", "processing"} ~> lost \/ job \in {"done", "failed", "cancelled"}

=============================================================================
