---------------------------- MODULE SceneCluster ----------------------------
(***************************************************************************)
(* From frame scores to scene windows (app/vision/scene_cluster.py and     *)
(* app/common/intervals.py), beside the reference the clustering is        *)
(* checked against.                                                        *)
(*                                                                         *)
(* Times are whole units of the dense interval.  A score is one of Levels: *)
(* below the threshold, above it, or above the bar at which a single frame *)
(* counts on its own.                                                      *)
(***************************************************************************)
EXTENDS Naturals, FiniteSets, SequencesExt

Levels == {"low", "hit", "high"}
MinConsecutiveFrames == 2

\* mutant: one interval, so that a single skipped frame splits a run.
TooFarAtOnce(a, b, interval) == b - a > interval

\* The tolerance for a missed sample: 2.5 sampling intervals.
TooFar(a, b, interval) == 2 * (b - a) > 5 * interval

\* Frames in the order of time.
Ordered(S) ==
    [n \in 1 .. Cardinality(S) |-> CHOOSE t \in S : Cardinality({u \in S : u < t}) = n - 1]

\* One more frame: the runs that have ended, and the one that may go on.
NextFrame(level, interval, acc, t) ==
    LET above == level[t] # "low"
        ends == acc.current # <<>> /\ (~above \/ TooFar(Last(acc.current), t, interval))
    IN [runs |-> IF ends THEN Append(acc.runs, acc.current) ELSE acc.runs,
        current |-> IF ~above THEN <<>>
                    ELSE IF ends THEN <<t>> ELSE Append(acc.current, t)]

\* Runs of frames above the threshold, in the order of time.  level is defined on
\* the frames that have a score.
Runs(level, interval) ==
    LET all == FoldLeft(LAMBDA acc, t : NextFrame(level, interval, acc, t),
                        [runs |-> <<>>, current |-> <<>>], Ordered(DOMAIN level))
    IN IF all.current = <<>> THEN all.runs ELSE Append(all.runs, all.current)

IsRealRun(level, run) ==
    Len(run) >= MinConsecutiveFrames \/ \E n \in DOMAIN run : level[run[n]] = "high"

\* One more run: its window, from its first frame to its last, when it is a real one.
NextRun(level, acc, run) ==
    IF IsRealRun(level, run) THEN Append(acc, <<Head(run), Last(run)>>) ELSE acc

RealWindows(level, runs) ==
    FoldLeft(LAMBDA acc, run : NextRun(level, acc, run), <<>>, runs)

\* One more window, in the order of their starts: it joins the last when it is close.
NextWindow(gap, merged, w) ==
    IF merged = <<>> \/ w[1] > Last(merged)[2] + gap
    THEN Append(merged, w)
    ELSE [merged EXCEPT ![Len(merged)] = <<@[1], IF w[2] > @[2] THEN w[2] ELSE @[2]>>]

MergeIntervals(windows, gap) ==
    FoldLeft(LAMBDA merged, w : NextWindow(gap, merged, w), <<>>, windows)

ClusterScenes(level, interval, gap) ==
    MergeIntervals(RealWindows(level, Runs(level, interval)), gap)

----------------------------------------------------------------------------
(* The reference *)

\* No frame from a to b is below the threshold, and none is more than two and a half
\* intervals before the next: one may be missing, not two in a row.
SameRun(level, interval, a, b) ==
    LET between == {t \in DOMAIN level : a <= t /\ t <= b} IN
    /\ \A t \in between : level[t] # "low"
    /\ \A t \in between \ {b} :
         \E u \in between : t < u /\ 2 * u <= 2 * t + 5 * interval

\* Frames that count: not alone in their run, or one of it clears the higher bar.
Counted(level, interval) ==
    {a \in DOMAIN level :
        /\ level[a] # "low"
        /\ \E b \in DOMAIN level :
             /\ IF a <= b THEN SameRun(level, interval, a, b) ELSE SameRun(level, interval, b, a)
             /\ b # a \/ level[b] = "high"}

\* A scene goes from one counted frame to another: each frame that counts on the way
\* is in the run of an earlier one, or follows it within the gap; and it cannot be longer.
ReferenceScenes(level, interval, gap) ==
    LET counted == Counted(level, interval)
        near == {w \in counted \X counted :
                   w[1] < w[2] /\ (SameRun(level, interval, w[1], w[2]) \/ w[2] <= w[1] + gap)}
        OneScene(a, b) ==
            \A t \in counted : a < t /\ t <= b => \E u \in counted : a <= u /\ <<u, t>> \in near
    IN {w \in counted \X counted :
          /\ w[1] <= w[2] /\ OneScene(w[1], w[2])
          /\ \A t \in counted :
               /\ t < w[1] => ~ OneScene(t, w[1])
               /\ t > w[2] => ~ OneScene(w[2], t)}

----------------------------------------------------------------------------
(* The second, denser look at one candidate.  Windows and hits are sets of times. *)

Earliest(S) == CHOOSE t \in S : \A u \in S : t <= u
Latest(S) == CHOOSE t \in S : \A u \in S : u <= t

Minus(a, b) == IF a > b THEN a - b ELSE 0

\* What a pass looks at: the padded candidate.  At the start of the file the window is
\* moved, not cut.
Window(candidate, pad) ==
    LET from == Minus(candidate[1], pad) IN
    from .. from + (candidate[2] - candidate[1]) + 2 * pad - 1

\* The hull of the frames above the threshold.
RefineSceneBoundary(hits) == <<Earliest(hits), Latest(hits)>>

\* mutant: only the end of the window is looked at.
TouchesWindowEnd(boundary, candidate, pad) == 2 * (candidate[2] + pad) <= 3 + 2 * boundary[2]

\* A hit within 1.5 dense intervals of where the search ended.
TouchesWindowEdge(boundary, candidate, pad) ==
    \/ 2 * (boundary[1] - Minus(candidate[1], pad)) <= 3
    \/ 2 * (candidate[2] + pad) <= 3 + 2 * boundary[2]

\* mutant: the pad is not doubled.
SamePad(pad, maxPad) == IF pad < maxPad THEN pad ELSE maxPad

NextPad(pad, maxPad) == IF 2 * pad < maxPad THEN 2 * pad ELSE maxPad

\* A span shorter than the minimum is stretched around its middle.  Halves of a unit.
Stretched(boundary, minimum) ==
    LET sum == boundary[1] + boundary[2] IN
    IF boundary[2] - boundary[1] < minimum
    THEN <<Minus(sum, minimum), sum + minimum>>
    ELSE <<2 * boundary[1], 2 * boundary[2]>>
=============================================================================
