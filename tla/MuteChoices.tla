----------------------------- MODULE MuteChoices -----------------------------
(***************************************************************************)
(* What is muted in one title, and who decides it.  The word list has a    *)
(* version; a job records the version it was enqueued under, reads the     *)
(* cues the user chose to keep and then the enabled words, mutes the cues  *)
(* that match and are not kept, and lists every match for the title page.  *)
(* Meanwhile the word list is edited, a change and its version in two      *)
(* commits, and the title page, as old as the browser tab it is open in,   *)
(* sends back which of its rows are to be kept.                            *)
(*                                                                         *)
(* One severity level; where the file is swapped is one step here, and     *)
(* CleanSwap looks inside it; JobQueue has the life of a job in detail.    *)
(***************************************************************************)
EXTENDS Naturals, Sequences, FiniteSets

CONSTANTS
    Words,      \* terms the word list may have enabled at this level
    MaxCues,    \* the title's cues, in the order they are said
    Says,       \* the words said in each cue
    Editors,    \* web requests that may be editing the word list at once
    MaxJobs,    \* bound: jobs in a behaviour
    MaxVersion, \* bound: versions of the word list
    MaxBlock    \* bound: how often the rows of the list get new ids

ASSUME MuteChoicesAssumption ==
    /\ MaxCues \in Nat
    /\ Says \in [1..MaxCues -> SUBSET Words]
    /\ MaxJobs \in Nat
    /\ MaxVersion \in Nat \ {0}
    /\ MaxBlock \in Nat

VARIABLES
    enabled,  \* the enabled WordListEntry rows
    version,  \* the setting wordlist_version
    editor,   \* each edit in progress: where it is and the version it read
    kept,     \* the cues of the title's KeptCue rows
    job,      \* the ProcessingJob rows with what their tasks have read
    track,    \* the cues muted in the title's clean track
    list,     \* the title's MatchedCue rows
    shown,    \* Title.last_processed_wordlist_version, 0 for null
    status,   \* Title.status
    page      \* the list as some browser shows it, with its checkboxes

words == <<enabled, version, editor>>
vars  == <<enabled, version, editor, kept, job, track, list, shown, status, page>>

---------------------------------------------------------------------------
(* Rows *)

Cues == 1..MaxCues
Jobs == 1..MaxJobs

\* A list: its rows' ids start at one of several numbers, ascend with the cues,
\* and some rows are ticked as kept.
List        == [block: 0..MaxBlock, cues: Seq(Cues), kept: SUBSET Cues]
NoList      == [block |-> 0, cues |-> <<>>, kept |-> {}]
CuesOf(l)   == {l.cues[i] : i \in DOMAIN l.cues}
InOrder(cs) == CHOOSE s \in [1..Cardinality(cs) -> cs] : \A i, k \in DOMAIN s : i < k => s[i] < s[k]

EditSteps == {"idle", "committed", "read", "lost"}
JobStates == {"none", "called", "inserting", "queued", "processing", "done", "failed", "cancelled", "lost"}
TaskSteps == {"none", "waiting", "listening", "matched", "swapped"}
Requested == {"called", "inserting"}
Active    == {"queued", "processing"}
NoJob     == [state |-> "none", version |-> 0, at |-> "none", kept |-> {}, words |-> {}]

InState(S) == {j \in Jobs : job[j].state \in S}
HoldsLock  == {j \in Jobs : job[j].at \in {"listening", "matched", "swapped"}}

---------------------------------------------------------------------------
(* The word list *)

\* add_term, toggle_term, update_severity and delete_term each change what one
\* word does at this level, commit, and then bump the version.
CommitEdit(e) ==
    /\ editor[e].at \in {"idle", "lost"}
    /\ version < MaxVersion
    /\ \E w \in Words : enabled' = IF w \in enabled THEN enabled \ {w} ELSE enabled \cup {w}
    /\ editor' = [editor EXCEPT ![e].at = "committed"]
    /\ UNCHANGED <<version, kept, job, track, list, shown, status, page>>

\* bump_wordlist_version: read the version, and write the next one.
ReadForBump(e) ==
    /\ editor[e].at = "committed"
    /\ editor' = [editor EXCEPT ![e] = [at |-> "read", seen |-> version]]
    /\ UNCHANGED <<enabled, version, kept, job, track, list, shown, status, page>>

Bump(e) ==
    /\ editor[e].at = "read"
    /\ version' = editor[e].seen + 1
    /\ editor' = [editor EXCEPT ![e] = [at |-> "idle", seen |-> 0]]
    /\ UNCHANGED <<enabled, kept, job, track, list, shown, status, page>>

---------------------------------------------------------------------------
(* Enqueuing *)

\* The next job is about to be enqueued.
Call(j) ==
    /\ job[j].state = "none"
    /\ \A i \in 1..j - 1 : job[i].state # "none"
    /\ job' = [job EXCEPT ![j].state = "called"]

Outdated == shown # 0 /\ shown < version

\* process_title and everything else that enqueues without a question.
ProcessTitle(j) ==
    /\ Call(j)
    /\ UNCHANGED <<words, kept, track, list, shown, status, page>>

\* reprocess_outdated enqueues an outdated title that has no active job.
ReprocessOutdated(j) ==
    /\ Outdated
    /\ InState(Active) = {}
    /\ Call(j)
    /\ UNCHANGED <<words, kept, track, list, shown, status, page>>

\* enqueue reads the version, and commits the row with it.
ReadVersion(j) ==
    /\ job[j].state = "called"
    /\ job' = [job EXCEPT ![j].state = "inserting", ![j].version = version]
    /\ UNCHANGED <<words, kept, track, list, shown, status, page>>

Insert(j) ==
    /\ job[j].state = "inserting"
    /\ job' = [job EXCEPT ![j].state = "queued"]
    /\ status' = "queued"
    /\ UNCHANGED <<words, kept, track, list, shown, page>>

---------------------------------------------------------------------------
(* A run *)

Begin(j) ==
    /\ job[j].state = "queued"
    /\ job' = [job EXCEPT ![j].state = "processing", ![j].at = "waiting"]
    /\ status' = "processing"
    /\ UNCHANGED <<words, kept, track, list, shown, page>>

\* Under the lock, process_video reads the kept cues, before it listens ...
ReadKept(j) ==
    /\ job[j].at = "waiting"
    /\ HoldsLock = {}
    /\ job' = [job EXCEPT ![j].at = "listening", ![j].kept = kept]
    /\ UNCHANGED <<words, kept, track, list, shown, status, page>>

\* ... and the words after.  Without any it fails.
LoadWords(j) ==
    /\ job[j].at = "listening"
    /\ enabled # {}
    /\ job' = [job EXCEPT ![j].at = "matched", ![j].words = enabled]
    /\ UNCHANGED <<words, kept, track, list, shown, status, page>>

Matched(ws) == {c \in Cues : Says[c] \cap ws # {}}

\* The track with the matches muted, less the kept ones, replaces the one before.
Muted(j) == Matched(job[j].words) \ job[j].kept
SwapIn(j) ==
    /\ job[j].at = "matched"
    /\ job' = [job EXCEPT ![j].at = "swapped"]
    /\ track' = Muted(j)
    /\ UNCHANGED <<words, kept, list, shown, status, page>>

\* The kept flags of new rows.
AllKept(j) == job[j].kept  \* mutant: those of cues that no longer match too
Flags(j)   == job[j].kept \cap Matched(job[j].words)

\* The rows are replaced.  SQLite numbers rows from the highest id that is left,
\* so the new ones get the old ids when no other title has later rows.  From the
\* delete to the final commit the job is the only writer of the database.
VersionNow(j) == version  \* mutant: the version at the end of the run
VersionOf(j)  == job[j].version
Finish(j) ==
    /\ job[j].at = "swapped"
    /\ \E block \in {list.block, list.block + 1} \cap 0..MaxBlock :
         list' = [block |-> block, cues |-> InOrder(Matched(job[j].words)), kept |-> Flags(j)]
    /\ shown' = VersionOf(j)
    /\ status' = "done"
    /\ job' = [job EXCEPT ![j] = [NoJob EXCEPT !.state = "done"]]
    /\ UNCHANGED <<words, kept, track, page>>

\* A run fails or is cancelled at any point, after the swap included.
Fail(j) ==
    /\ job[j].state = "processing"
    /\ job' = [job EXCEPT ![j] = [NoJob EXCEPT !.state = "failed"]]
    /\ status' = "failed"
    /\ UNCHANGED <<words, kept, track, list, shown, page>>
Cancel(j) ==
    /\ job[j].state \in Active
    /\ job' = [job EXCEPT ![j] = [NoJob EXCEPT !.state = "cancelled"]]
    /\ status' = "cancelled"
    /\ UNCHANGED <<words, kept, track, list, shown, page>>

---------------------------------------------------------------------------
(* The title page *)

Open ==
    /\ page' = list
    /\ UNCHANGED <<words, kept, job, track, list, shown, status>>

\* The Keep and Mute again buttons only change the page.
Tick(c) ==
    /\ c \in CuesOf(page)
    /\ page' = [page EXCEPT !.kept = IF c \in @ THEN @ \ {c} ELSE @ \cup {c}]
    /\ UNCHANGED <<words, kept, job, track, list, shown, status>>

\* save_kept_cues gets ids, and looks for them among the rows there are now.
Wanted == {list.cues[i] : i \in {k \in DOMAIN list.cues \cap DOMAIN page.cues :
                                     page.block = list.block /\ page.cues[k] \in page.kept}}
SetKept ==
    /\ kept' = (kept \cup (Wanted \ list.kept)) \ (list.kept \ Wanted)
    /\ list' = [list EXCEPT !.kept = Wanted]
    /\ page' = list'
\* A change is followed by a job that builds it in.
NotBuilt(j) ==  \* mutant: the change is saved and no job enqueued
    /\ SetKept
    /\ UNCHANGED <<words, job, track, shown, status>>
SaveKept(j) ==
    /\ Wanted # list.kept
    /\ SetKept
    /\ Call(j)
    /\ UNCHANGED <<words, track, shown, status>>

---------------------------------------------------------------------------
(* Restart *)

\* The process dies and starts again.  Requests are lost where they are; a job
\* that was being processed is queued again.
Requeued(state) == CASE state \in Requested    -> "lost"
                     [] state = "processing"   -> "queued"
                     [] OTHER                  -> state
Restart ==
    /\ job' = [j \in Jobs |-> [job[j] EXCEPT !.state = Requeued(@), !.at = "none", !.kept = {}, !.words = {}]]
    /\ status' = IF InState({"processing"}) # {} THEN "queued" ELSE status
    /\ editor' = [e \in Editors |-> [at   |-> IF editor[e].at = "idle" THEN "idle" ELSE "lost", seen |-> 0]]
    /\ UNCHANGED <<enabled, version, kept, track, list, shown, page>>

---------------------------------------------------------------------------
(* Specification *)

Init ==
    /\ enabled \in SUBSET Words
    /\ version = 1
    /\ editor = [e \in Editors |-> [at |-> "idle", seen |-> 0]]
    /\ kept = {}
    /\ job = [j \in Jobs |-> NoJob]
    /\ track = {}
    /\ list = NoList
    /\ shown = 0
    /\ status = "not_processed"
    /\ page = NoList

Next ==
    \/ \E e \in Editors : CommitEdit(e) \/ ReadForBump(e) \/ Bump(e)
    \/ \E j \in Jobs :
         \/ ProcessTitle(j) \/ ReprocessOutdated(j) \/ ReadVersion(j) \/ Insert(j)
         \/ Begin(j) \/ ReadKept(j) \/ LoadWords(j) \/ SwapIn(j) \/ Finish(j)
         \/ Fail(j) \/ Cancel(j) \/ SaveKept(j)
    \/ Open
    \/ \E c \in Cues : Tick(c)
    \/ Restart

Spec == Init /\ [][Next]_vars

---------------------------------------------------------------------------
(* Properties *)

TypeOK ==
    /\ enabled \subseteq Words
    /\ version \in Nat \ {0}
    /\ editor \in [Editors -> [at: EditSteps, seen: Nat]]
    /\ kept \subseteq Cues
    /\ job \in [Jobs -> [state: JobStates, version: Nat, at: TaskSteps, kept: SUBSET Cues, words: SUBSET Words]]
    /\ track \subseteq Cues
    /\ \A l \in {list, page} : l \in List /\ l.kept \subseteq CuesOf(l)
    /\ shown \in Nat
    /\ status \in {"not_processed", "queued", "processing", "done", "failed", "cancelled"}

\* A title the library does not call outdated was matched against the words
\* that are enabled now, whatever was edited while its jobs waited and ran:
\* its list has every match, and its track mutes nothing else.  An edit whose
\* version is still to come, or was lost in a restart, is left out.
UpToDateIsCurrent ==
    /\ shown # 0 /\ ~Outdated
    /\ \A e \in Editors : editor[e].at = "idle"
    => CuesOf(list) = Matched(enabled) /\ track \subseteq Matched(enabled)

LastIsDone == \E j \in Jobs : job[j].state = "done" /\ \A i \in j + 1..MaxJobs : job[i].state = "none"

\* Once the last job asked for is done and no other is left, the track mutes
\* exactly the listed cues the user did not choose to keep, and the list says
\* so, even when choices were saved while other jobs were running.
KeepsAreHonoured ==
    /\ status = "done" /\ LastIsDone
    /\ InState(Requested \cup Active) = {}
    => list.kept = kept \cap CuesOf(list) /\ track = CuesOf(list) \ kept

\* The title page: a kept cue stays kept.  A cue is added to or removed from
\* the kept ones only when the page being sent showed it so.
KeptStaysKept ==
    [][kept' \ kept \subseteq page.kept /\ kept \ kept' \subseteq CuesOf(page) \ page.kept]_vars

=============================================================================
