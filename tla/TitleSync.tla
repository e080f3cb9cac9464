------------------------------ MODULE TitleSync ------------------------------
(***************************************************************************)
(* The title rows and everybody who writes them: imports announced by      *)
(* Sonarr and Radarr, subtitles announced by Bazarr, the library sync, the *)
(* pollers that wait for a subtitle, the watcher that waits for an mkv     *)
(* replacement, and the user's two search buttons (app/library.py,         *)
(* routers/webhooks.py, routers/library.py, queue/worker.py).              *)
(*                                                                         *)
(* Every writer reads a row, waits (a thread, an HTTP call, a sleep) and   *)
(* then writes it; the ORM writes only the columns whose value differs     *)
(* from the one it loaded.  The sync flushes title by title and commits    *)
(* once, which keeps SQLite's write lock for the rest of it.               *)
(***************************************************************************)
EXTENDS Naturals, FiniteSets, Sequences

CONSTANTS
    Items,      \* episodes or movies, as the service's own ids
    Files,      \* paths of video files
    Holds,      \* [Files -> SUBSET Items]: whose file it is (an episode file may hold two)
    Mkv,        \* the files that are .mkv
    Subtitled,  \* the files Bazarr finds a subtitle for
    Library,    \* the items with a title row from the start, in the order of their rows
    FirstFile,  \* [Range of Library -> Files]: their files
    Tasks,      \* request handlers and background pollers
    Audio,      \* what may be decided about audio for an import: {TRUE}, or BOOLEAN
    MaxRows, MaxPolls, MaxSyncs, MaxAsks, MaxLives,  \* bounds of the model
    None

Rows == 1 .. MaxRows
Known == {Library[n] : n \in DOMAIN Library}

ASSUME SyncAssumption ==
    /\ IsFiniteSet(Files) /\ IsFiniteSet(Tasks) /\ Items # {}
    /\ Holds \in [Files -> (SUBSET Items) \ {{}}]
    /\ Mkv \subseteq Files /\ Subtitled \subseteq Files
    /\ None \notin Items \cup Files \cup Rows
    /\ Library \in Seq(Items) /\ Len(Library) <= MaxRows
    /\ \A m, n \in DOMAIN Library : Library[m] = Library[n] => m = n
    /\ FirstFile \in [Known -> Files]
    /\ \A i \in Known : Holds[FirstFile[i]] = {i}
    /\ Audio \in (SUBSET BOOLEAN) \ {{}}
    /\ MaxRows \in Nat \ {0} /\ MaxPolls \in Nat \ {0}
    /\ MaxSyncs \in Nat /\ MaxAsks \in Nat /\ MaxLives \in Nat \ {0}

VARIABLES
    arr,        \* the file Sonarr or Radarr has for each item
    subs,       \* the files with a subtitle on disk
    imported,   \* the files imported so far
    hooks,      \* webhooks on their way
    title,      \* the committed titles
    active,     \* titles with an unfinished audio job
    task,       \* request handlers and pollers between two awaits
    sync,       \* the library sync
    watch,      \* the replacement watcher
    excused,    \* history: titles whose file moved, or whose poller died, since the last start
    asks,       \* how often the user pressed a button
    up, lives   \* the process, and how often it was started

env == <<arr, subs, imported>>
vars == <<arr, subs, imported, hooks, title, active, task, sync, watch, excused, asks, up, lives>>

----------------------------------------------------------------------------
(* Types *)

Statuses == {"idle", "queued", "awaiting_mkv", "awaiting_subtitle"}
NoTitle == [item |-> None, path |-> None, status |-> "none"]
Titles == [item : Items \cup {None}, path : Files, status : Statuses]

\* A Bazarr hook knows the path only.
Hooks == [item : Items \cup {None}, path : Files]

Done == [kind |-> "none", at |-> "none", item |-> None, path |-> None,
         row |-> None, saw |-> NoTitle, polls |-> 0]
Kinds == {"hook", "bazarr", "poll", "search", "replace"}
Places == {"select", "write", "decide", "look", "expire", "reset", "asked"}
TaskStates == {Done} \cup
    [kind : Kinds, at : Places, item : Items \cup {None}, path : Files,
     row : Rows \cup {None}, saw : Titles \cup {NoTitle}, polls : 0 .. MaxPolls - 1]

\* "draft" is what the sync has flushed and not committed, None when it holds no lock.
NoSync == [at |-> "idle", todo |-> {}, entry |-> None, row |-> None,
           saw |-> NoTitle, draft |-> None, quiet |-> FALSE, runs |-> 0]
Entries == Items \X Files

NoWatch == [row |-> None, saw |-> NoTitle]

TypeOK ==
    /\ arr \in [Items -> Files \cup {None}]
    /\ subs \subseteq Files /\ imported \subseteq Files
    /\ hooks \subseteq Hooks
    /\ title \in [Rows -> Titles \cup {NoTitle}]
    /\ active \subseteq Rows
    /\ task \in [Tasks -> TaskStates]
    /\ sync.at \in {"idle", "next", "flush"} /\ sync.todo \subseteq Entries
    /\ sync.runs \in 0 .. MaxSyncs
    /\ sync.draft = None \/ sync.draft \in [Rows -> Titles \cup {NoTitle}]
    /\ watch.row \in Rows \cup {None}
    /\ excused \subseteq Rows /\ asks \in 0 .. MaxAsks
    /\ up \in BOOLEAN /\ lives \in 1 .. MaxLives

ASSUME NoneAssumption == None \notin [Rows -> Titles \cup {NoTitle}]

----------------------------------------------------------------------------
(* Reading and writing rows *)

WithItem(t, i) == {r \in Rows : i # None /\ t[r].item = i}
WithPath(t, p) == {r \in Rows : t[r].path = p}

\* mutant: the title is looked up by its path alone.
FoundByPath(t, i, p) == WithPath(t, p)

\* The select of upsert_title: by the service's id, else by path.
Found(t, i, p) == IF WithItem(t, i) # {} THEN WithItem(t, i) ELSE WithPath(t, p)

\* scalar_one_or_none raises when the id has two rows.
Ambiguous(t, i) == Cardinality(WithItem(t, i)) > 1

RowOf(t, i, p) == IF Found(t, i, p) = {} THEN None ELSE CHOOSE r \in Found(t, i, p) : TRUE

Free(t) == {r \in Rows : t[r] = NoTitle}

\* The row a write of upsert_title goes to: the one it found, or a new one.
Target(t, row) ==
    IF row # None THEN row ELSE CHOOSE r \in Free(t) : \A q \in Free(t) : r <= q

\* mutant: the row of a title keeps the file it had.
MergedOldFile(t, row, saw, i, p) ==
    IF row = None
    THEN [item |-> i, path |-> p, status |-> "idle"]
    ELSE [t[row] EXCEPT !.item = IF i # None /\ saw.item # i THEN i ELSE @]

\* What the write of upsert_title leaves in the row: columns that differ from what was loaded.
Merged(t, row, saw, i, p) ==
    IF row = None
    THEN [item |-> i, path |-> p, status |-> "idle"]
    ELSE [t[row] EXCEPT !.path = IF saw.path # p THEN p ELSE @,
                        !.item = IF i # None /\ saw.item # i THEN i ELSE @]

Upserted(t, row, saw, i, p) ==
    [t EXCEPT ![Target(t, row)] = Merged(t, row, saw, i, p)]

\* UNIQUE (video_path)
Unique(t) == \A r, q \in Rows : r # q /\ t[r] # NoTitle => t[r].path # t[q].path

\* Only the sync keeps its transaction open; anyone else's write waits for it and fails.
Locked == sync.draft # None

\* An insert needs a free row: a bound of the model, not of the code.
CanWrite(t, row) == row # None \/ Free(t) # {}

\* History: the titles whose file differs in t, and those a poller waits for.
Moved(t) == {r \in Rows : title[r] # NoTitle /\ t[r].path # title[r].path}
WaitedFor(k) ==
    {r \in Rows : k.kind = "poll" /\ (title[r].path = k.path \/ r \in WithItem(title, k.item))}

----------------------------------------------------------------------------
Init ==
    /\ arr = [i \in Items |-> IF i \in Known THEN FirstFile[i] ELSE None]
    /\ imported = {FirstFile[i] : i \in Known}
    /\ subs = {} /\ hooks = {}
    /\ title = [r \in Rows |->
         IF r \in DOMAIN Library
         THEN [item |-> Library[r], path |-> FirstFile[Library[r]], status |-> "idle"]
         ELSE NoTitle]
    /\ active = {}
    /\ task = [t \in Tasks |-> Done]
    /\ sync = NoSync /\ watch = NoWatch
    /\ excused = {} /\ asks = 0 /\ up = TRUE /\ lives = 1

----------------------------------------------------------------------------
(* Sonarr, Radarr and Bazarr *)

\* A request to us; nobody repeats it when we are down.
Send(h) == hooks' = IF up THEN hooks \cup {h} ELSE hooks

\* A file is imported.  The webhook names the first of its episodes only.
Import(f) ==
    /\ f \notin imported
    /\ imported' = imported \cup {f}
    /\ arr' = [i \in Items |-> IF i \in Holds[f] THEN f ELSE arr[i]]
    /\ \E i \in Holds[f] : Send([item |-> i, path |-> f])
    /\ sync' = [sync EXCEPT !.quiet = FALSE]
    /\ UNCHANGED <<subs, title, active, task, watch, excused, asks, up, lives>>

\* A subtitle lands next to a file, which may have been replaced meanwhile; the
\* post-processing command that tells us may not be configured.
SubtitleArrives(f) ==
    /\ f \in (imported \cap Subtitled) \ subs
    /\ subs' = subs \cup {f}
    /\ Send([item |-> None, path |-> f]) \/ UNCHANGED hooks
    /\ UNCHANGED <<arr, imported, title, active, task, sync, watch, excused, asks, up, lives>>

----------------------------------------------------------------------------
(* Handlers and pollers *)

Step(t, kind, at) == up /\ task[t].kind = kind /\ task[t].at = at

\* Tasks whose next step is the upsert they share.
Upserting(t, at) ==
    up /\ task[t].kind \in {"hook", "bazarr", "poll"} /\ task[t].at = at

Enqueue(r) ==
    /\ title' = [title EXCEPT ![r].status = "queued"]
    /\ active' = active \cup {r}

EnqueueIfNotActive(r) ==
    IF r \in active THEN UNCHANGED <<title, active>> ELSE Enqueue(r)

\* A handler receives a webhook.  It disturbs a sync under way.
Deliver(t, h) ==
    /\ up /\ task[t] = Done /\ h \in hooks
    /\ hooks' = hooks \ {h}
    /\ task' = [task EXCEPT ![t] =
                  [Done EXCEPT !.kind = IF h.item = None THEN "bazarr" ELSE "hook",
                               !.at = "select", !.item = h.item, !.path = h.path]]
    /\ sync' = [sync EXCEPT !.quiet = FALSE]
    /\ UNCHANGED <<env, title, active, watch, excused, asks, up, lives>>

\* upsert_title reads the row and goes to look for a subtitle in a thread.
UpsertSelect(t) ==
    LET i == task[t].item  p == task[t].path
        r == RowOf(title, i, p)
    IN /\ Upserting(t, "select")
       /\ task' = [task EXCEPT ![t] =
                     IF Ambiguous(title, i) THEN Done
                     ELSE [@ EXCEPT !.at = "write", !.row = r,
                                    !.saw = IF r = None THEN NoTitle ELSE title[r]]]
       /\ excused' = IF Ambiguous(title, i) THEN excused \cup WaitedFor(task[t]) ELSE excused
       /\ UNCHANGED <<env, hooks, title, active, sync, watch, asks, up, lives>>

\* It writes the row back and commits; a path another row has, or a locked database,
\* ends the handler or the poller with an exception.
UpsertWrite(t) ==
    LET k == task[t]
        after == Upserted(title, k.row, k.saw, k.item, k.path)
    IN /\ Upserting(t, "write")
       /\ CanWrite(title, k.row)
       /\ IF ~Locked /\ Unique(after)
          THEN /\ title' = after /\ excused' = excused \cup Moved(after)
               /\ task' = [task EXCEPT ![t].at = "decide", ![t].row = Target(title, k.row),
                                       ![t].saw = NoTitle]
          ELSE /\ task' = [task EXCEPT ![t] = Done]
               /\ excused' = excused \cup WaitedFor(k)
               /\ UNCHANGED title
       /\ UNCHANGED <<env, hooks, active, sync, watch, asks, up, lives>>

\* What follows the upsert: a job now, a poller that waits for the subtitle, or nothing.
HookDecides(t) ==
    LET k == task[t] IN
    /\ Step(t, "hook", "decide")
    /\ \E audio \in Audio :
         \/ /\ audio /\ k.path \in subs /\ ~Locked
            /\ EnqueueIfNotActive(k.row)
            /\ task' = [task EXCEPT ![t] = Done]
         \/ /\ audio /\ k.path \notin subs
            /\ task' = [task EXCEPT ![t].kind = "poll", ![t].at = "look", ![t].row = None]
            /\ UNCHANGED <<title, active>>
         \/ /\ ~audio \/ (k.path \in subs /\ Locked)
            /\ task' = [task EXCEPT ![t] = Done]
            /\ UNCHANGED <<title, active>>
    /\ UNCHANGED <<env, hooks, sync, watch, excused, asks, up, lives>>

\* Bazarr's handler and a poller that found its subtitle enqueue in any case.
FoundEnqueues(t) ==
    /\ Step(t, "bazarr", "decide") \/ Step(t, "poll", "decide")
    /\ IF Locked
       THEN UNCHANGED <<title, active>> /\ excused' = excused \cup WaitedFor(task[t])
       ELSE EnqueueIfNotActive(task[t].row) /\ UNCHANGED excused
    /\ task' = [task EXCEPT ![t] = Done]
    /\ UNCHANGED <<env, hooks, sync, watch, asks, up, lives>>

\* mutant: one look too many.
PollLookAgain(t) ==
    LET k == task[t] IN
    /\ Step(t, "poll", "look")
    /\ task' = [task EXCEPT ![t] =
                  IF k.path \in subs THEN [@ EXCEPT !.at = "select"]
                  ELSE IF k.polls < MaxPolls THEN [@ EXCEPT !.polls = k.polls + 1]
                  ELSE [@ EXCEPT !.at = "expire", !.polls = 0]]
    /\ UNCHANGED <<env, hooks, title, active, sync, watch, excused, asks, up, lives>>

\* One round of poll_for_subtitle_then_enqueue.
PollLook(t) ==
    LET k == task[t] IN
    /\ Step(t, "poll", "look")
    /\ task' = [task EXCEPT ![t] =
                  IF k.path \in subs THEN [@ EXCEPT !.at = "select"]
                  ELSE IF k.polls + 1 < MaxPolls THEN [@ EXCEPT !.polls = k.polls + 1]
                  ELSE [@ EXCEPT !.at = "expire", !.polls = 0]]
    /\ UNCHANGED <<env, hooks, title, active, sync, watch, excused, asks, up, lives>>

\* mutant: the poller gives up and leaves the title as it is.
PollGivesUp(t) ==
    /\ Step(t, "poll", "expire")
    /\ task' = [task EXCEPT ![t] = Done]
    /\ UNCHANGED <<env, hooks, title, active, sync, watch, excused, asks, up, lives>>

\* The window is over: the title is looked up by the path the poller was started with ...
PollExpires(t) ==
    LET mine == {r \in WithPath(title, task[t].path) : title[r].status = "awaiting_subtitle"}
    IN /\ Step(t, "poll", "expire")
       /\ task' = [task EXCEPT ![t] =
                     IF mine = {} THEN Done
                     ELSE [@ EXCEPT !.at = "reset", !.row = CHOOSE r \in mine : TRUE]]
       /\ UNCHANGED <<env, hooks, title, active, sync, watch, excused, asks, up, lives>>

\* ... and given back to the user.
PollResets(t) ==
    /\ Step(t, "poll", "reset")
    /\ IF Locked
       THEN UNCHANGED title /\ excused' = excused \cup {task[t].row}
       ELSE title' = [title EXCEPT ![task[t].row].status = "idle"] /\ UNCHANGED excused
    /\ task' = [task EXCEPT ![t] = Done]
    /\ UNCHANGED <<env, hooks, active, sync, watch, asks, up, lives>>

----------------------------------------------------------------------------
(* The user's buttons.  They are shown for a title at rest. *)

\* "Search subtitles": the path is read now and used to the end.
SearchSubtitle(t, r) ==
    /\ up /\ task[t] = Done /\ asks < MaxAsks
    /\ title[r].status = "idle" /\ r \notin active
    /\ asks' = asks + 1
    /\ task' = [task EXCEPT ![t] = [Done EXCEPT !.kind = "search", !.at = "asked", !.row = r,
                                       !.item = title[r].item, !.path = title[r].path]]
    /\ sync' = [sync EXCEPT !.quiet = FALSE]
    /\ UNCHANGED <<env, hooks, title, active, watch, excused, up, lives>>

\* Bazarr was asked and the file looked for a few times: a job, a poller, or an error.
SearchEnds(t) ==
    LET k == task[t] IN
    /\ Step(t, "search", "asked")
    /\ \/ /\ k.path \in subs /\ ~Locked
          /\ Enqueue(k.row)
          /\ task' = [task EXCEPT ![t] = Done]
       \/ /\ k.path \notin subs /\ ~Locked
          /\ title' = [title EXCEPT ![k.row].status = "awaiting_subtitle"]
          /\ task' = [task EXCEPT ![t].kind = "poll", ![t].at = "look", ![t].row = None]
          /\ UNCHANGED active
       \/ /\ task' = [task EXCEPT ![t] = Done]
          /\ UNCHANGED <<title, active>>
    /\ UNCHANGED <<env, hooks, sync, watch, excused, asks, up, lives>>

\* "Search .mkv": only for a file that is none, and a title that has an id.
SearchReplacement(t, r) ==
    /\ up /\ task[t] = Done /\ asks < MaxAsks
    /\ title[r].status = "idle" /\ r \notin active
    /\ asks' = asks + 1
    /\ title[r].item # None /\ title[r].path \notin Mkv
    /\ task' = [task EXCEPT ![t] = [Done EXCEPT !.kind = "replace", !.at = "asked", !.row = r,
                                       !.item = title[r].item, !.path = title[r].path]]
    /\ sync' = [sync EXCEPT !.quiet = FALSE]
    /\ UNCHANGED <<env, hooks, title, active, watch, excused, up, lives>>

ReplacementAsked(t) ==
    /\ Step(t, "replace", "asked")
    /\ \/ ~Locked /\ title' = [title EXCEPT ![task[t].row].status = "awaiting_mkv"]
       \/ UNCHANGED title
    /\ task' = [task EXCEPT ![t] = Done]
    /\ UNCHANGED <<env, hooks, active, sync, watch, excused, asks, up, lives>>

\* The audio job of a title ends.
JobEnds(r) ==
    /\ up /\ r \in active /\ ~Locked
    /\ active' = active \ {r}
    /\ title' = [title EXCEPT ![r].status = "idle"]
    /\ UNCHANGED <<env, hooks, task, sync, watch, excused, asks, up, lives>>

----------------------------------------------------------------------------
(* The replacement watcher of the audio queue: one title at a time *)

WatchBegins(r) ==
    /\ up /\ watch = NoWatch
    /\ title[r].status = "awaiting_mkv"
    /\ watch' = [row |-> r, saw |-> title[r]]
    /\ sync' = [sync EXCEPT !.quiet = FALSE]
    /\ UNCHANGED <<env, hooks, title, active, task, excused, asks, up, lives>>

\* Sonarr or Radarr answers with the file it has now, or fails.
WatchEnds ==
    LET r == watch.row
        new == arr[watch.saw.item]
        after(status) == [title EXCEPT ![r].path = new, ![r].status = status]
        lands == new # None /\ new # watch.saw.path /\ new \in Mkv
                 /\ Unique(after("queued")) /\ ~Locked
    IN /\ up /\ watch # NoWatch
       /\ \/ UNCHANGED <<title, active, task>>
          \/ /\ lands /\ new \in subs
             /\ title' = after("queued") /\ active' = active \cup {r}
             /\ UNCHANGED task
          \/ /\ lands /\ new \notin subs
             /\ title' = after("awaiting_subtitle")
             /\ \E t \in Tasks :
                  /\ task[t] = Done
                  /\ task' = [task EXCEPT ![t] =
                                [Done EXCEPT !.kind = "poll", !.at = "look",
                                             !.item = watch.saw.item, !.path = new]]
             /\ UNCHANGED active
       /\ watch' = NoWatch /\ excused' = excused \cup Moved(title')
       /\ UNCHANGED <<env, hooks, sync, asks, up, lives>>

----------------------------------------------------------------------------
(* The library sync: list everything, upsert each entry with a flush, commit once *)

SyncView == IF Locked THEN sync.draft ELSE title

\* "quiet" is history: nothing else was under way when it began, or has begun since.
SyncBegins ==
    /\ up /\ sync.at = "idle" /\ sync.runs < MaxSyncs
    /\ sync' = [sync EXCEPT !.at = "next", !.runs = @ + 1,
                            !.todo = {<<i, arr[i]>> : i \in {j \in Items : arr[j] # None}},
                            !.quiet = watch = NoWatch /\ \A t \in Tasks : task[t] = Done]
    /\ UNCHANGED <<env, hooks, title, active, task, watch, excused, asks, up, lives>>

SyncIdle == [sync EXCEPT !.at = "idle", !.todo = {}, !.entry = None, !.row = None,
                         !.saw = NoTitle, !.draft = None, !.quiet = FALSE]

\* The select of one entry; two rows with its id end the sync and roll it back.
SyncSelect ==
    /\ up /\ sync.at = "next"
    /\ \E e \in sync.todo :
         LET r == RowOf(SyncView, e[1], e[2]) IN
         sync' = IF Ambiguous(SyncView, e[1]) THEN SyncIdle
                 ELSE [sync EXCEPT !.at = "flush", !.todo = @ \ {e}, !.entry = e, !.row = r,
                                   !.saw = IF r = None THEN NoTitle ELSE SyncView[r]]
    /\ UNCHANGED <<env, hooks, title, active, task, watch, excused, asks, up, lives>>

\* The flush of one entry; a path that another row has rolls everything back.
SyncFlush ==
    LET after == Upserted(SyncView, sync.row, sync.saw, sync.entry[1], sync.entry[2]) IN
    /\ up /\ sync.at = "flush"
    /\ CanWrite(SyncView, sync.row)
    /\ sync' = IF ~Unique(after) THEN SyncIdle
               ELSE [sync EXCEPT !.at = "next", !.entry = None, !.row = None, !.saw = NoTitle,
                                 !.draft = IF after = SyncView THEN @ ELSE after]
    /\ UNCHANGED <<env, hooks, title, active, task, watch, excused, asks, up, lives>>

SyncCommit ==
    /\ up /\ sync.at = "next" /\ sync.todo = {}
    /\ title' = SyncView /\ excused' = excused \cup Moved(SyncView)
    /\ sync' = SyncIdle
    /\ UNCHANGED <<env, hooks, active, task, watch, asks, up, lives>>

----------------------------------------------------------------------------
(* The process *)

Awaiting == {r \in Rows : title[r].status = "awaiting_subtitle"}

\* Rows stay; requests, pollers and the sync's transaction are gone.  The second
\* conjunct is a bound: the pollers to come must fit into Tasks.
Crash ==
    /\ up /\ lives < MaxLives
    /\ Cardinality(Awaiting) <= Cardinality(Tasks)
    /\ up' = FALSE
    /\ task' = [t \in Tasks |-> Done] /\ hooks' = {}
    /\ sync' = SyncIdle /\ watch' = NoWatch
    /\ UNCHANGED <<env, title, active, excused, asks, lives>>

\* reconcile_stale_awaiting_subtitle_titles: a poller for each waiting title.
Restart ==
    /\ ~up
    /\ up' = TRUE /\ lives' = lives + 1 /\ excused' = {}
    /\ \E runs \in [Awaiting -> Tasks] :
         /\ \A r, q \in Awaiting : runs[r] = runs[q] => r = q
         /\ task' = [t \in Tasks |->
               IF \E r \in Awaiting : runs[r] = t
               THEN LET r == CHOOSE q \in Awaiting : runs[q] = t IN
                    [Done EXCEPT !.kind = "poll", !.at = "look",
                                 !.item = title[r].item, !.path = title[r].path]
               ELSE Done]
    /\ UNCHANGED <<env, hooks, title, active, sync, watch, asks>>

TaskStep(t) ==
    \/ UpsertSelect(t) \/ UpsertWrite(t) \/ HookDecides(t) \/ FoundEnqueues(t)
    \/ PollLook(t) \/ PollExpires(t) \/ PollResets(t)
    \/ SearchEnds(t) \/ ReplacementAsked(t)

SyncStep == SyncSelect \/ SyncFlush \/ SyncCommit

Next ==
    \/ \E f \in Files : Import(f) \/ SubtitleArrives(f)
    \/ \E t \in Tasks, h \in hooks : Deliver(t, h)
    \/ \E t \in Tasks : TaskStep(t)
    \/ \E t \in Tasks, r \in Rows : SearchSubtitle(t, r) \/ SearchReplacement(t, r)
    \/ \E r \in Rows : JobEnds(r) \/ WatchBegins(r)
    \/ WatchEnds
    \/ SyncBegins \/ SyncStep
    \/ Crash \/ Restart

Spec == Init /\ [][Next]_vars

----------------------------------------------------------------------------
(* Properties *)

\* Once an item has a title, it keeps exactly one: an upgrade updates the row and its
\* history instead of adding a second one, through any order of webhooks, pollers,
\* sync and crashes (the comment at the select of upsert_title).  A file that holds a
\* known item and a new one breaks it (MCShared).
UpgradeKeepsTitle ==
    \A i \in Known : Cardinality(WithItem(title, i)) = 1

\* A title that waits for a subtitle is watched by a poller for its file, or has a job,
\* unless its file moved or its poller died of an error; a restart brings every
\* poller back (reconcile_stale_awaiting_subtitle_titles).
WaitingIsWatched ==
    up => \A r \in Awaiting \ excused :
            r \in active \/ \E t \in Tasks : task[t].kind = "poll" /\ task[t].path = title[r].path

\* What Sonarr has is listed: its file has a title, of an item the file holds.
Listed(t) ==
    \A i \in Items : arr[i] # None =>
        \E r \in WithPath(t, arr[i]) : t[r].item # None /\ arr[t[r].item] = arr[i]

\* What stops a sync: an item with two rows, one whose new file another row already
\* has, or one whose new file the row of another item gets before its own does.
Blocked(t) ==
    \E i \in Items : arr[i] # None /\
        \/ Ambiguous(t, i)
        \/ \E r \in WithItem(t, i), q \in WithPath(t, arr[i]) : r # q
        \/ \E j \in Items \ {i} : arr[j] = arr[i] /\ \E r \in WithItem(t, i) : t[r].path # arr[i]

\* A sync with nothing else under way lists everything, whatever webhooks were lost
\* before it, unless an item's new file already has another row or goes to two rows (sync_sonarr_library).
QuietSyncRepairs ==
    [][sync.quiet /\ sync.at # "idle" /\ sync'.at = "idle" /\ up'
         => Listed(title') \/ Blocked(title)]_vars

\* "The queue worker polls for the new file to land and, once it does, searches Bazarr
\* for a matching subtitle and auto-queues processing" (search_mkv_replacement in
\* routers/library.py): a title that waits for an mkv, has it, and has its subtitle,
\* is being worked on.
ReplacementIsPickedUp ==
    up => \A r \in Rows : title[r].status = "awaiting_mkv" /\ title[r].path \in Mkv \cap subs =>
            \/ r \in active \/ watch.row = r \/ sync.at # "idle" \/ hooks # {}
            \/ \E t \in Tasks : task[t] # Done
=============================================================================
