------------------------------ MODULE SceneScan ------------------------------
(***************************************************************************)
(* One scan job of one title, over any number of attempts: the resumable   *)
(* frame scan (app/vision/classifier.py), and what scan_for_scenes         *)
(* (app/scenes/pipeline.py) makes of its scores.                           *)
(*                                                                         *)
(* A chunk of the video is decoded, its frames are classified several at a *)
(* time, and each score is appended to a checkpoint as it is made.  The    *)
(* process may stop anywhere; the queue gives the job to the next process  *)
(* under the same id, so that it finds the checkpoint.                     *)
(*                                                                         *)
(* Times are whole units of the dense interval of the second look.         *)
(***************************************************************************)
EXTENDS SceneCluster

CONSTANTS
    Duration,     \* of the video
    Intervals,    \* what the frame interval may be set to
    ChunkSeconds, \* what is decoded at once
    Concurrency,  \* frames classified at once
    Flaky,        \* frames whose classification may fail
    MergeGap, MinDuration, VerifyPad, VerifyMaxPad,  \* settings
    MaxCrashes,   \* bound of the model
    None

Times == 0 .. Duration - 1

\* Where frames can lie: the interval is counted anew from the start of each chunk,
\* and the first chunk starts where the last attempt's frames ended.
Grid(i) == {t \in Times : \E m, n \in Times : t = m * ChunkSeconds + n * i}

\* At an interval that divides the chunk that is one row of frames.
Divides(i) == \E n \in 1 .. ChunkSeconds : ChunkSeconds = n * i
Row(i) == {t \in Times : \E n \in Times : t = n * i}

ASSUME ScanAssumption ==
    /\ Duration \in Nat \ {0}
    /\ Intervals \subseteq Nat \ {0}
    /\ ChunkSeconds \in Nat \ {0}
    /\ Concurrency \in Nat \ {0}
    /\ Flaky \subseteq Times
    /\ MergeGap \in Nat /\ MinDuration \in Nat
    /\ VerifyPad \in Nat \ {0} /\ VerifyMaxPad \in Nat /\ VerifyPad <= VerifyMaxPad
    /\ MaxCrashes \in Nat
    /\ None \notin Nat

VARIABLES
    pc,        \* where the attempt is
    interval,  \* the frame interval it read at its start
    stamp,     \* the fingerprint on disk: the interval it was taken at, or None
    lines,     \* the checkpoint: timestamps of its readable lines
    torn,      \* the checkpoint ends in a line cut short
    scores,    \* the attempt's frames with a score
    failed,    \* history: the frames whose classification failed in this attempt
    from,      \* where the next chunk starts
    waiting,   \* frames of the chunk without an outcome yet
    level,     \* the scores themselves, once the frames are all there
    todo,      \* candidates not looked at again yet
    dense,     \* what a dense look would find where
    bound, pad,\* the loop of _refine_candidate_boundary
    whole,     \* history: every dense look of the candidate was complete
    refined,   \* the scenes found so far, committed at the end
    crashes

disk == <<stamp, lines, torn>>
frames == <<interval, scores, failed, from, waiting>>
looks == <<level, todo, dense, bound, pad, whole>>
vars == <<pc, disk, frames, looks, refined, crashes>>

Steps == {"down", "wipe", "stamp", "load", "rewrite", "decode", "classify",
          "cluster", "clustered", "look", "done"}

Windows == Times \X Times

TypeOK ==
    /\ pc \in Steps
    /\ interval \in Intervals /\ stamp \in Intervals \cup {None}
    /\ lines \subseteq Times /\ torn \in BOOLEAN
    /\ scores \subseteq Times /\ failed \subseteq Times /\ waiting \subseteq Times
    /\ from \in Nat
    /\ DOMAIN level \subseteq Times /\ \A t \in DOMAIN level : level[t] \in Levels
    /\ todo \in Seq(Windows) /\ dense \subseteq Times
    /\ bound \in Windows /\ pad \in VerifyPad .. VerifyMaxPad /\ whole \in BOOLEAN
    /\ crashes \in 0 .. MaxCrashes

----------------------------------------------------------------------------
(* The trusted prefix of a checkpoint *)

\* mutant: whatever was written is trusted.
TrustedAll(L, i) == L

\* Timestamps with no hole of more than 1.5 intervals before them, counting from zero.
Trusted(L, i) ==
    {t \in L : \A u \in L : u <= t /\ u # 0 =>
                 \E v \in L \cup {0} : v < u /\ 2 * (u - v) <= 3 * i}

\* mutant: the frame after the last is skipped.
CoveredTwice(L, i) == IF L = {} THEN 0 ELSE Latest(L) + 2 * i

\* Where the scan goes on.
Covered(L, i) == IF L = {} THEN 0 ELSE Latest(L) + i

----------------------------------------------------------------------------
NoLooks ==
    /\ level' = << >> /\ todo' = << >> /\ dense' = {}
    /\ bound' = <<0, 0>> /\ pad' = VerifyPad /\ whole' = TRUE

Init ==
    /\ pc = "down" /\ interval \in Intervals
    /\ stamp = None /\ lines = {} /\ torn = FALSE
    /\ scores = {} /\ failed = {} /\ from = 0 /\ waiting = {}
    /\ level = << >> /\ todo = << >> /\ dense = {}
    /\ bound = <<0, 0>> /\ pad = VerifyPad /\ whole = TRUE
    /\ refined = {} /\ crashes = 0

\* The job is dispatched.  Settings are read once; a checkpoint taken under another
\* interval is wiped.
Start ==
    /\ pc = "down"
    /\ interval' \in Intervals
    /\ pc' = IF stamp = interval' THEN "load" ELSE "wipe"
    /\ UNCHANGED <<disk, scores, failed, from, waiting, looks, refined, crashes>>

\* mutant: the stale checkpoint is kept.
WipeNothing ==
    /\ pc = "wipe"
    /\ pc' = "stamp"
    /\ UNCHANGED <<disk, frames, looks, refined, crashes>>

Wipe ==
    /\ pc = "wipe"
    /\ lines' = {} /\ torn' = FALSE
    /\ pc' = "stamp"
    /\ UNCHANGED <<stamp, frames, looks, refined, crashes>>

Stamp ==
    /\ pc = "stamp"
    /\ stamp' = interval
    /\ pc' = "load"
    /\ UNCHANGED <<lines, torn, frames, looks, refined, crashes>>

\* The trusted prefix is taken over; it is written back when there was a line at all.
Load ==
    /\ pc = "load"
    /\ scores' = Trusted(lines, interval) /\ from' = Covered(scores', interval)
    /\ failed' = {} /\ waiting' = {}
    /\ pc' = IF lines = {} THEN "decode" ELSE "rewrite"
    /\ UNCHANGED <<interval, disk, looks, refined, crashes>>

Rewrite ==
    /\ pc = "rewrite"
    /\ lines' = scores /\ torn' = FALSE
    /\ pc' = "decode"
    /\ UNCHANGED <<stamp, frames, looks, refined, crashes>>

\* mutant: a frame at the very end as well.
ChunkFramesToEnd(start, i) ==
    {t \in 0 .. Duration : start <= t /\ t <= start + ChunkSeconds /\ \E n \in Times : t = start + n * i}

\* The frames of the chunk that starts at from.
ChunkFrames(start, i) ==
    {t \in Times : start <= t /\ t < start + ChunkSeconds /\ \E n \in Times : t = start + n * i}

Decode ==
    /\ pc = "decode" /\ from < Duration
    /\ waiting' = ChunkFrames(from, interval)
    /\ pc' = "classify"
    /\ UNCHANGED <<interval, scores, failed, from, disk, looks, refined, crashes>>

\* A chunk that cannot be decoded ends the scan with what there is.
DecodeFails ==
    /\ pc = "decode" /\ from < Duration
    /\ pc' = "cluster"
    /\ UNCHANGED <<frames, disk, looks, refined, crashes>>

ScanEnds ==
    /\ pc = "decode" /\ from >= Duration
    /\ pc' = "cluster"
    /\ UNCHANGED <<frames, disk, looks, refined, crashes>>

\* Frames start in their order and end in any: those under way are the first ones
\* without an outcome.
UnderWay == {t \in waiting : Cardinality({u \in waiting : u < t}) < Concurrency}

\* A score is appended; after a line cut short it becomes part of that line.
Classified(t) ==
    /\ pc = "classify" /\ t \in UnderWay
    /\ waiting' = waiting \ {t}
    /\ scores' = scores \cup {t}
    /\ lines' = IF torn THEN lines ELSE lines \cup {t}
    /\ torn' = FALSE
    /\ UNCHANGED <<pc, interval, failed, from, stamp, looks, refined, crashes>>

ClassificationFails(t) ==
    /\ pc = "classify" /\ t \in UnderWay \cap Flaky
    /\ waiting' = waiting \ {t}
    /\ failed' = failed \cup {t}
    /\ UNCHANGED <<pc, interval, scores, from, disk, looks, refined, crashes>>

ChunkDone ==
    /\ pc = "classify" /\ waiting = {}
    /\ from' = from + ChunkSeconds
    /\ pc' = "decode"
    /\ UNCHANGED <<interval, scores, failed, waiting, disk, looks, refined, crashes>>

----------------------------------------------------------------------------
(* Candidates *)

\* What the classifier said; the sets of frames have served their purpose.
Cluster ==
    /\ pc = "cluster"
    /\ \E said \in [scores -> Levels] :
         level' = said /\ todo' = ClusterScenes(said, interval, MergeGap)
    /\ scores' = {} /\ failed' = {} /\ from' = 0
    /\ pc' = "clustered"
    /\ UNCHANGED <<interval, waiting, disk, dense, bound, pad, whole, refined, crashes>>

\* The next candidate; the scores have served their purpose.
NextCandidate ==
    /\ pc = "clustered" /\ todo # << >>
    /\ dense' \in IF level = << >> THEN {dense} ELSE SUBSET Times
    /\ level' = << >>
    /\ bound' = Head(todo) /\ pad' = VerifyPad /\ whole' = TRUE
    /\ pc' = "look"
    /\ UNCHANGED <<frames, disk, todo, refined, crashes>>

\* The scenes are committed and the checkpoint is removed.
AllStored ==
    /\ pc = "clustered" /\ todo = << >>
    /\ stamp' = None /\ lines' = {} /\ torn' = FALSE
    /\ pc' = "done"
    /\ level' = << >> /\ UNCHANGED <<todo, dense, bound, pad, whole>>
    /\ UNCHANGED <<frames, refined, crashes>>

\* What the dense scan of the window may report: everything but flaky frames that fail, or
\* nothing when it cannot be decoded.
Reports == {{}} \cup {(dense \cap Window(Head(todo), pad)) \ lost : lost \in SUBSET Flaky}

\* One round of the loop of _refine_candidate_boundary.
Look(seen) ==
    LET candidate == Head(todo)
        there == dense \cap Window(candidate, pad)
        hull == RefineSceneBoundary(seen)
        enough == seen = {} \/ pad >= VerifyMaxPad
                  \/ ~ TouchesWindowEdge(hull, candidate, pad)
        final == IF seen = {} THEN bound ELSE hull
    IN /\ pc = "look" /\ seen \in Reports
       /\ whole' = (whole /\ seen = there)
       /\ bound' = final
       /\ IF enough
          THEN /\ refined' = refined \cup {[candidate |-> candidate, found |-> final,
                                          at |-> Stretched(final, MinDuration),
                                          whole |-> whole', dense |-> dense]}
               /\ todo' = Tail(todo) /\ pc' = "clustered" /\ UNCHANGED pad
          ELSE /\ pad' = NextPad(pad, VerifyMaxPad)
               /\ UNCHANGED <<refined, todo, pc>>
       /\ UNCHANGED <<frames, disk, level, dense, crashes>>

----------------------------------------------------------------------------
(* The process *)

\* It may die in the middle of a write: of the fingerprint, of the checkpoint being
\* written back, or of a line being appended.  Scenes are committed at the very end.
Crash ==
    /\ pc \notin {"down", "done"} /\ crashes < MaxCrashes
    /\ crashes' = crashes + 1
    /\ pc' = "down"
    /\ stamp' \in IF pc = "stamp" THEN {stamp, None} ELSE {stamp}
    /\ lines' \in IF pc = "rewrite"
                  THEN {lines} \cup {{t \in scores : t < n} : n \in 0 .. Duration}
                  ELSE {lines}
    /\ torn' \in IF pc \in {"rewrite", "classify"} THEN BOOLEAN ELSE {torn}
    /\ scores' = {} /\ failed' = {} /\ from' = 0 /\ waiting' = {}
    /\ NoLooks /\ refined' = {}
    /\ UNCHANGED interval

Scan ==
    \/ Start \/ Wipe \/ Stamp \/ Load \/ Rewrite
    \/ Decode \/ DecodeFails \/ ScanEnds \/ ChunkDone
    \/ \E t \in Times : Classified(t) \/ ClassificationFails(t)
    \/ Cluster \/ NextCandidate \/ AllStored
    \/ pc = "look" /\ \E seen \in Reports : Look(seen)

Next == Scan \/ Crash

\* The event loop runs what is ready, and the container is restarted.
Spec == Init /\ [][Next]_vars /\ WF_vars(Scan)

----------------------------------------------------------------------------
(* Properties *)

Outcomes == scores \cup failed
Seen == Outcomes \cup {t \in Times : t >= from}

\* Every frame has a score when a scan ends, but for those that failed in this attempt
\* and those after a chunk that could not be decoded: "a resume only ever trusts a
\* genuinely unbroken run from the very start ... never silently lossy"
\* (_resumable_prefix, classifier.py).
NothingSkipped == pc = "cluster" /\ Divides(interval) => Row(interval) \subseteq Seen

\* The same of every frame but the first: however the attempts were cut off and
\* in whatever order the frames were scored, a resumed scan skips nothing else, when the
\* interval divides the chunk.  At one that does not (8 s in chunks of 300 s) the
\* frames of two chunks can lie so close that the first of a chunk is skipped too.
OnlyFirstSkipped ==
    pc = "cluster" /\ Divides(interval) => Row(interval) \ {0} \subseteq Seen

\* Whatever the interval, what a scan leaves out is short: when it ends, each frame with
\* an outcome comes at most one and a half intervals after another or the start of the
\* video, and the last less than one interval before the end or the chunk that could
\* not be decoded.
GapsAreShort ==
    pc = "cluster" =>
        /\ \A u \in Outcomes \ {0} : \E v \in Outcomes \cup {0} : v < u /\ 2 * (u - v) <= 3 * interval
        /\ \A t \in Times : t < from => \E v \in Outcomes \cup {0} : t < v + interval

\* A checkpoint was taken at the interval it is stamped with, though settings change
\* between attempts that are cut off anywhere (_scan_fingerprint).
CheckpointFitsStamp == stamp # None => lines \subseteq Grid(stamp)

\* The candidates are the scenes of the scores, whatever frames are missing: the runs of
\* frames that count, those close to one another joined (cluster_scenes).
ClusteringIsExact ==
    pc = "clustered" /\ level # << >> =>
        {todo[n] : n \in DOMAIN todo} = ReferenceScenes(level, interval, MergeGap)

\* Hits in an unbroken row beyond the boundary found.
Beyond(s) ==
    {t \in s.dense : \/ t > s.found[2] /\ \A u \in s.found[2] .. t : u \in s.dense
                     \/ t < s.found[1] /\ \A u \in t .. s.found[1] : u \in s.dense}

\* A scene is stored whole: when the first look saw it and every look was complete, the
\* boundary does not stop inside an unbroken row of hits that the widest window
\* reaches (_refine_candidate_boundary).
SceneIsWhole ==
    \A s \in refined :
        s.whole /\ s.dense \cap Window(s.candidate, VerifyPad) # {} =>
            Beyond(s) \cap Window(s.candidate, VerifyMaxPad) = {}

\* A scan comes to its end: no candidate keeps the second look widening for ever.
ScanIsDone == <>(pc = "done")
=============================================================================
