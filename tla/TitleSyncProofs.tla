--------------------------- MODULE TitleSyncProofs ---------------------------
(***************************************************************************)
(* Theorems about TitleSync, for any items, files, handlers, pollers and   *)
(* syncs: an item of the library keeps the one row it had, a title that    *)
(* waits for its subtitle is waited for, and a sync that is alone lists    *)
(* what Sonarr has.                                                        *)
(*                                                                         *)
(* The first invariant says of every writer that what it has read still    *)
(* fits what it will write: an upsert for an item of the library has       *)
(* selected the row of that item, one for a new item no such row, and one  *)
(* that knows only a path writes the path it has read, which changes       *)
(* nothing.  The second follows each poller to the row it will write       *)
(* (WaitInv), the third what a sync has done so far (RepairInv).           *)
(***************************************************************************)
EXTENDS TitleSync, TLAPS, WellFoundedInduction, FiniteSetTheorems

\* No file holds an item of S and one that is not in it.
Closed(S) == \A f \in Files : Holds[f] \cap S # {} => Holds[f] \subseteq S

\* A file of an item in the library holds no item that is not there.
Separate == Closed(Known)

\* The items of the library that no chain of shared files connects with an item that is
\* not there.  The others may lose their row: the webhook of a new episode that shares a
\* file with a known one finds the row of the known one by its path and takes it over.
Kept == UNION {S \in SUBSET Known : Closed(S)}

KeptFile(p) == Holds[p] \subseteq Kept

\* An item, or None, with a path that may be said of it.
Fits(i, p) ==
    /\ i \in Items \cup {None} /\ p \in Files
    /\ i # None => (i \in Kept <=> KeptFile(p))

\* The rows they had from the start.
Homes == {n \in DOMAIN Library : Library[n] \in Kept}

Tables == [Rows -> Titles \cup {NoTitle}]

\* They keep their item and have a file of the library; no other row has such an item.
GoodRows(t) ==
    /\ t \in Tables
    /\ \A n \in Homes : t[n].item = Library[n] /\ KeptFile(t[n].path)
    /\ \A r \in Rows \ Homes :
         t[r].item \notin Kept /\ (t[r].item # None => ~KeptFile(t[r].path))
    /\ \A r \in Rows : t[r].status = "awaiting_mkv" => t[r].item # None

\* What no write takes from a row.
Keeps(t, u) ==
    \A r \in Rows : t[r] # NoTitle =>
        /\ u[r] # NoTitle
        /\ t[r].item # None => u[r].item # None
        /\ r \notin Homes => (KeptFile(u[r].path) <=> KeptFile(t[r].path))

\* An upsert between its select and its write.
GoodWrite(t, row, saw, i, p) ==
    /\ row # None => t[row] # NoTitle
    /\ i \in Kept => row \in Homes /\ Library[row] = i
    /\ i \in Items \ Kept /\ row # None => row \notin Homes /\ ~KeptFile(t[row].path)
    /\ i = None /\ row # None => saw.path = p

GoodTask(t, k) ==
    /\ k # Done => Fits(k.item, k.path)
    /\ k.row # None => t[k.row] # NoTitle
    /\ k.at \in {"decide", "reset", "asked"} => k.row # None
    /\ k.kind = "replace" => k.row # None /\ t[k.row].item # None
    /\ k.at = "write" => GoodWrite(t, k.row, k.saw, k.item, k.path)

GoodSync(t, s) ==
    LET view == IF s.draft # None THEN s.draft ELSE t IN
    /\ GoodRows(view) /\ Keeps(t, view)
    /\ \A e \in s.todo : Fits(e[1], e[2])
    /\ s.at = "flush" => /\ s.entry \in Entries /\ Fits(s.entry[1], s.entry[2])
                         /\ GoodWrite(view, s.row, s.saw, s.entry[1], s.entry[2])

GoodWatch(t, w) ==
    w # NoWatch => /\ w.row \in Rows /\ t[w.row] # NoTitle
                   /\ w.saw.item \in Items /\ t[w.row].item # None
                   /\ w.row \in Homes <=> w.saw.item \in Kept

Syncs == [at : {"idle", "next", "flush"}, todo : SUBSET Entries, entry : Entries \cup {None},
          row : Rows \cup {None}, saw : Titles \cup {NoTitle}, draft : Tables \cup {None},
          quiet : BOOLEAN, runs : 0 .. MaxSyncs]
Watches == [row : Rows \cup {None}, saw : Titles \cup {NoTitle}]

\* What concerns the world, the queue and the process.
Surroundings ==
    /\ TypeOK /\ sync \in Syncs /\ watch \in Watches
    /\ \A r \in active : title[r] # NoTitle
    /\ \A i \in Items : arr[i] # None => Fits(i, arr[i])
    /\ \A h \in hooks : Fits(h.item, h.path)
    /\ ~up => lives < MaxLives

IInv ==
    /\ Surroundings
    /\ GoodRows(title)
    /\ \A t \in Tasks : GoodTask(title, task[t])
    /\ GoodSync(title, sync)
    /\ GoodWatch(title, watch)

---------------------------------------------------------------------------
(* Constants and records *)

LEMMA Constants ==
    /\ Homes \subseteq Rows /\ Kept \subseteq Items
    /\ \A n \in Homes : Library[n] \in Kept
    /\ \A i \in Kept : \E n \in Homes : Library[n] = i
    /\ \A m, n \in Homes : Library[m] = Library[n] => m = n
    /\ None \notin Items /\ None \notin Files /\ None \notin Rows
    /\ \A f \in Files : Holds[f] \subseteq Items /\ Holds[f] # {}
<1>1. DOMAIN Library \subseteq Rows
    <2>1. DOMAIN Library = 1 .. Len(Library) /\ Len(Library) \in Nat /\ Len(Library) <= MaxRows
        BY SyncAssumption
    <2>2. MaxRows \in Nat
        BY SyncAssumption
    <2> QED
        BY <2>1, <2>2 DEF Rows
<1>2. \A n \in DOMAIN Library : Library[n] \in Items
    BY SyncAssumption
<1>3. Kept \subseteq {Library[n] : n \in DOMAIN Library}
    BY DEF Known, Kept
<1>4. None \notin Items /\ None \notin Files /\ None \notin Rows
    BY SyncAssumption, Zenon
<1>5. \A m, n \in DOMAIN Library : Library[m] = Library[n] => m = n
    BY SyncAssumption, Zenon
<1>6. \A f \in Files : Holds[f] \subseteq Items /\ Holds[f] # {}
    BY SyncAssumption
<1> QED
    BY <1>1, <1>2, <1>3, <1>4, <1>5, <1>6 DEF Homes

\* A file that holds one of the items that are kept holds no other.
LEMMA KeptIsClosed == Closed(Kept)
<1> SUFFICES ASSUME NEW f \in Files, NEW i \in Holds[f] \cap Kept PROVE Holds[f] \subseteq Kept
    BY DEF Closed
<1>1. PICK S \in SUBSET Known : Closed(S) /\ i \in S
    BY DEF Kept
<1>2. Holds[f] \subseteq S
    BY <1>1 DEF Closed
<1> QED
    BY <1>1, <1>2 DEF Kept

LEMMA RowFields ==
    /\ NoTitle.item = None /\ NoTitle.path = None /\ NoTitle.status = "none"
    /\ \A x \in Titles :
         /\ x # NoTitle /\ x.item \in Items \cup {None} /\ x.path \in Files /\ x.status \in Statuses
         /\ x = [item |-> x.item, path |-> x.path, status |-> x.status]
<1>1. NoTitle.item = None /\ NoTitle.path = None /\ NoTitle.status = "none"
    BY DEF NoTitle
<1>2. ASSUME NEW x \in Titles
      PROVE  /\ x.item \in Items \cup {None} /\ x.path \in Files /\ x.status \in Statuses
             /\ x = [item |-> x.item, path |-> x.path, status |-> x.status]
    BY DEF Titles
<1> QED
    BY <1>1, <1>2, Constants

\* The row of an item in the library is the one it had, and no one else's is.
LEMMA RowsOfKept ==
    ASSUME NEW t, GoodRows(t), NEW i \in Kept
    PROVE  \E n \in Homes : Library[n] = i /\ WithItem(t, i) = {n}
<1>1. PICK n \in Homes : Library[n] = i
    BY Constants
<1>2. n \in Rows /\ t[n].item = i /\ i # None
    BY <1>1, Constants DEF GoodRows
<1>3. ASSUME NEW r \in Rows, t[r].item = i PROVE r = n
    <2>1. r \in Homes
        BY <1>3 DEF GoodRows
    <2>2. Library[r] = Library[n]
        BY <1>1, <1>3, <2>1 DEF GoodRows
    <2> QED
        BY <1>1, <2>1, <2>2, Constants
<1>4. WithItem(t, i) = {n}
    BY <1>2, <1>3 DEF WithItem
<1> QED
    BY <1>1, <1>4

---------------------------------------------------------------------------
(* The select and the write of upsert_title *)

\* A select finds the row of its item, or one that may become its.
LEMMA SelectIsGood ==
    ASSUME NEW t, GoodRows(t), NEW i, NEW p, Fits(i, p), NEW r, r = RowOf(t, i, p)
    PROVE  /\ r \in Rows \cup {None}
           /\ GoodWrite(t, r, IF r = None THEN NoTitle ELSE t[r], i, p)
<1>1. r # None => r \in Found(t, i, p) /\ Found(t, i, p) # {}
    BY DEF RowOf
<1>2. Found(t, i, p) \subseteq Rows
    BY DEF Found, WithItem, WithPath
<1>3. i \in Kept => r \in Homes /\ Library[r] = i
    <2>1. SUFFICES ASSUME i \in Kept PROVE r \in Homes /\ Library[r] = i
        OBVIOUS
    <2>2. PICK n \in Homes : Library[n] = i /\ WithItem(t, i) = {n}
        BY <2>1, RowsOfKept
    <2>3. Found(t, i, p) = {n}
        BY <2>2 DEF Found
    <2>4. r = n
        BY <2>3 DEF RowOf
    <2> QED
        BY <2>2, <2>4
<1>4. ASSUME r # None
      PROVE  /\ t[r] # NoTitle
             /\ (i # None /\ t[r].item = i) \/ t[r].path = p
             /\ i = None => t[r].path = p
    <2>1. r \in WithItem(t, i) \/ (WithItem(t, i) = {} /\ r \in WithPath(t, p))
        BY <1>1, <1>4 DEF Found
    <2>2. p # None
        BY Constants DEF Fits
    <2> QED
        BY <2>1, <2>2, RowFields DEF WithItem, WithPath
<1>5. ASSUME i \in Items \ Kept, r # None PROVE r \notin Homes /\ ~KeptFile(t[r].path)
    <2>1. i # None /\ ~KeptFile(p) /\ r \in Rows
        BY <1>1, <1>2, <1>5, Constants DEF Fits
    <2>2. r \notin Homes
        BY <1>4, <1>5, <2>1, Constants DEF GoodRows
    <2>3. CASE t[r].item = i
        BY <2>1, <2>2, <2>3 DEF GoodRows
    <2>4. CASE t[r].path = p
        BY <2>1, <2>2, <2>4
    <2> QED
        BY <1>4, <1>5, <2>2, <2>3, <2>4
<1> QED
    BY <1>1, <1>2, <1>3, <1>4, <1>5 DEF GoodWrite

\* What was selected stays good while other rows are written.
LEMMA KeptIsGood ==
    ASSUME NEW t, NEW u, Keeps(t, u), NEW row \in Rows \cup {None}, NEW saw, NEW i, NEW p,
           GoodWrite(t, row, saw, i, p)
    PROVE  GoodWrite(u, row, saw, i, p)
BY Constants DEF Keeps, GoodWrite

\* A set of numbers has a smallest one.
LEMMA LeastRow ==
    ASSUME NEW S \in SUBSET Nat, S # {}
    PROVE  \E r \in S : \A q \in S : r <= q
<1>1. PICK r \in S : \A q \in S : <<q, r>> \notin OpToRel(<, Nat)
    BY WFMin, NatLessThanWellFounded, Zenon
<1>2. ASSUME NEW q \in S PROVE ~(q < r)
    BY <1>1 DEF OpToRel
<1> QED
    BY <1>2

LEMMA TargetIs ==
    ASSUME NEW t, NEW row \in Rows \cup {None}, CanWrite(t, row)
    PROVE  /\ Target(t, row) \in Rows
           /\ row # None => Target(t, row) = row
           /\ row = None => t[Target(t, row)] = NoTitle
<1>1. CASE row # None
    BY <1>1 DEF Target
<1>2. CASE row = None
    <2>1. Free(t) # {} /\ Free(t) \subseteq Rows
        BY <1>2 DEF CanWrite, Free
    <2>2. Rows \subseteq Nat
        BY SyncAssumption DEF Rows
    <2>3. \E r \in Free(t) : \A q \in Free(t) : r <= q
        BY <2>1, <2>2, LeastRow
    <2>4. Target(t, row) \in Free(t)
        BY <1>2, <2>3, Zenon DEF Target
    <2> QED
        BY <1>2, <2>1, <2>4 DEF Free
<1> QED
    BY <1>1, <1>2

\* A write changes the row it selected, or a new one, and leaves good rows.
LEMMA WriteIsGood ==
    ASSUME NEW t, GoodRows(t), NEW i, NEW p, Fits(i, p),
           NEW row \in Rows \cup {None}, NEW saw \in Titles \cup {NoTitle},
           GoodWrite(t, row, saw, i, p), CanWrite(t, row),
           NEW u, u = Upserted(t, row, saw, i, p)
    PROVE  GoodRows(u) /\ Keeps(t, u) /\ u[Target(t, row)] # NoTitle
<1> DEFINE n == Target(t, row)
<1> DEFINE new == Merged(t, row, saw, i, p)
<1>1. /\ n \in Rows /\ (row # None => n = row) /\ (row = None => t[n] = NoTitle)
      /\ u = [t EXCEPT ![n] = new] /\ t \in Tables
    BY TargetIs DEF Upserted, GoodRows
<1>2. CASE row = None
    <2>1. new = [item |-> i, path |-> p, status |-> "idle"] /\ new \in Titles /\ i \notin Kept
        BY <1>2, Constants DEF Merged, Titles, Statuses, Fits, GoodWrite
    <2>2. new.item = i /\ new.path = p /\ new.status = "idle" /\ new # NoTitle
        BY <2>1, RowFields
    <2>3. u \in Tables /\ u[n] = new /\ \A r \in Rows \ {n} : u[r] = t[r]
        BY <1>1, <2>1 DEF Tables
    <2>4. n \notin Homes
        BY <1>1, <1>2, RowFields, Constants DEF GoodRows
    <2>5. GoodRows(u)
        BY <2>1, <2>2, <2>3, <2>4, Constants DEF GoodRows, Fits
    <2>6. Keeps(t, u)
        BY <1>1, <1>2, <2>3 DEF Keeps
    <2> QED
        BY <2>2, <2>3, <2>5, <2>6
<1>3. CASE row # None
    <2>1. n = row /\ t[n] \in Titles /\ t[n] # NoTitle
        BY <1>1, <1>3 DEF GoodWrite, Tables
    <2>2. new = [t[n] EXCEPT !.path = IF saw.path # p THEN p ELSE @,
                             !.item = IF i # None /\ saw.item # i THEN i ELSE @]
        BY <1>3, <2>1 DEF Merged
    <2>3. /\ new.item = IF i # None /\ saw.item # i THEN i ELSE t[n].item
          /\ new.path = IF saw.path # p THEN p ELSE t[n].path
          /\ new.status = t[n].status
          /\ new \in Titles
        BY <2>1, <2>2 DEF Titles, Fits
    <2>4. u \in Tables /\ u[n] = new /\ new # NoTitle /\ \A r \in Rows \ {n} : u[r] = t[r]
        BY <1>1, <2>3, RowFields DEF Tables
    <2>5. CASE i \in Kept
        <3>1. n \in Homes /\ Library[n] = i /\ KeptFile(p) /\ i # None
            BY <1>3, <2>1, <2>5, Constants DEF GoodWrite, Fits
        <3>2. new.item = i /\ KeptFile(new.path)
            BY <2>3, <3>1 DEF GoodRows
        <3> QED
            BY <1>1, <2>3, <2>4, <3>1, <3>2, Constants DEF GoodRows, Keeps
    <2>6. CASE i \in Items \ Kept
        <3>1. n \notin Homes /\ ~KeptFile(t[n].path) /\ ~KeptFile(p) /\ i # None
            BY <1>3, <2>1, <2>6, Constants DEF GoodWrite, Fits
        <3>2. ~KeptFile(new.path) /\ new.item \notin Kept
            BY <1>1, <2>3, <2>6, <3>1 DEF GoodRows
        <3>3. t[n].item # None => new.item # None
            BY <2>3, <3>1
        <3>4. t[n].status = "awaiting_mkv" => t[n].item # None
            BY <1>1 DEF GoodRows
        <3> QED
            BY <1>1, <2>3, <2>4, <3>1, <3>2, <3>3, <3>4, Constants DEF GoodRows, Keeps
    <2>7. CASE i = None
        <3>1. saw.path = p
            BY <1>3, <2>7 DEF GoodWrite
        <3>2. new.item = t[n].item /\ new.path = t[n].path /\ new.status = t[n].status
            BY <2>3, <2>7, <3>1
        <3> QED
            BY <1>1, <2>4, <3>2, Constants DEF GoodRows, Keeps
    <2> QED
        BY <2>5, <2>6, <2>7 DEF Fits
<1> QED
    BY <1>2, <1>3

\* A status changes nothing else.
LEMMA StatusIsGood ==
    ASSUME NEW t, GoodRows(t), NEW r \in Rows, t[r] # NoTitle,
           NEW s \in Statuses, s = "awaiting_mkv" => t[r].item # None,
           NEW u, u = [t EXCEPT ![r].status = s]
    PROVE  GoodRows(u) /\ Keeps(t, u)
<1>1. t \in Tables /\ t[r] \in Titles
    BY DEF GoodRows, Tables
<1> DEFINE new == [t[r] EXCEPT !.status = s]
<1>2. new \in Titles /\ new.item = t[r].item /\ new.path = t[r].path /\ new.status = s
    BY <1>1 DEF Titles
<1>3. u = [t EXCEPT ![r] = new]
    OBVIOUS
<1>4. u \in Tables /\ u[r] = new /\ \A q \in Rows \ {r} : u[q] = t[q]
    BY <1>1, <1>2, <1>3 DEF Tables
<1>5. new # NoTitle
    BY <1>2, RowFields
<1> QED
    BY <1>1, <1>2, <1>4, <1>5, Constants DEF GoodRows, Keeps

---------------------------------------------------------------------------
(* What a step leaves alone *)

LEMMA TaskFields ==
    /\ Done.row = None /\ Done.at = "none" /\ Done.kind = "none"
    /\ \A k \in TaskStates :
         /\ k.row \in Rows \cup {None} /\ k.saw \in Titles \cup {NoTitle}
         /\ k # Done => k.kind \in Kinds /\ k.at \in Places
<1>1. Done.row = None /\ Done.at = "none" /\ Done.kind = "none" /\ Done.saw = NoTitle
    BY DEF Done
<1>2. ASSUME NEW k \in TaskStates, k # Done
      PROVE  /\ k.row \in Rows \cup {None} /\ k.saw \in Titles \cup {NoTitle}
             /\ k.kind \in Kinds /\ k.at \in Places
    BY <1>2 DEF TaskStates
<1> QED
    BY <1>1, <1>2

LEMMA DoneIsGood == ASSUME NEW t PROVE GoodTask(t, Done)
BY TaskFields DEF GoodTask

LEMMA KeptTask ==
    ASSUME NEW t, NEW u, Keeps(t, u), NEW k \in TaskStates, GoodTask(t, k)
    PROVE  GoodTask(u, k)
<1>1. k.row \in Rows \cup {None}
    BY TaskFields
<1>2. k.at = "write" => GoodWrite(u, k.row, k.saw, k.item, k.path)
    BY <1>1, KeptIsGood DEF GoodTask
<1> QED
    BY <1>1, <1>2 DEF GoodTask, Keeps

LEMMA KeptWatch ==
    ASSUME NEW t, NEW u, Keeps(t, u), NEW w, GoodWatch(t, w)
    PROVE  GoodWatch(u, w)
BY DEF GoodWatch, Keeps

\* Nobody but the sync writes while it holds its transaction open.
LEMMA KeptSync ==
    ASSUME NEW t, NEW u, GoodRows(u), Keeps(t, u), NEW s \in Syncs, GoodSync(t, s),
           s.draft = None \/ u = t
    PROVE  GoodSync(u, s)
<1>1. CASE u = t
    BY <1>1
<1>2. CASE s.draft = None
    <2>1. s.row \in Rows \cup {None}
        BY DEF Syncs
    <2>2. s.at = "flush" => GoodWrite(u, s.row, s.saw, s.entry[1], s.entry[2])
        BY <1>2, <2>1, KeptIsGood DEF GoodSync
    <2>3. Keeps(u, u)
        BY DEF Keeps
    <2> QED
        BY <1>2, <2>2, <2>3 DEF GoodSync
<1> QED
    BY <1>1, <1>2

\* A step of anyone but the sync, with what it may do to the titles and the queue.
LEMMA Moves ==
    ASSUME IInv,
           title' = title \/ (~Locked /\ GoodRows(title') /\ Keeps(title, title')),
           task' \in [Tasks -> TaskStates],
           \A q \in Tasks : task'[q] = task[q] \/ GoodTask(title', task'[q]),
           watch' = watch \/ (watch' \in Watches /\ GoodWatch(title', watch')),
           active' \subseteq Rows, \A r \in active' : title'[r] # NoTitle,
           hooks' \subseteq hooks,
           sync' = sync \/ sync' = [sync EXCEPT !.quiet = FALSE],
           excused' \subseteq Rows, asks' \in 0 .. MaxAsks,
           UNCHANGED <<env, up, lives>>
    PROVE  IInv'
<1>1. GoodRows(title') /\ Keeps(title, title') /\ (sync.draft = None \/ title' = title)
    BY DEF IInv, Keeps, Locked
<1>2. task \in [Tasks -> TaskStates]
    BY DEF IInv, Surroundings, TypeOK
<1>4. \A q \in Tasks : GoodTask(title', task'[q])
    <2>1. ASSUME NEW q \in Tasks, task'[q] = task[q] PROVE GoodTask(title', task'[q])
        <3>1. task[q] \in TaskStates /\ GoodTask(title, task[q])
            BY <1>2 DEF IInv
        <3> QED
            BY <1>1, <2>1, <3>1, KeptTask
    <2> QED
        BY <2>1
<1>5. /\ sync \in Syncs /\ sync' \in Syncs
      /\ sync'.at = sync.at /\ sync'.todo = sync.todo /\ sync'.entry = sync.entry
      /\ sync'.row = sync.row /\ sync'.saw = sync.saw /\ sync'.draft = sync.draft
      /\ sync'.runs = sync.runs
    BY DEF IInv, Surroundings, Syncs
<1>6. GoodSync(title', sync')
    <2>1. GoodSync(title', sync)
        BY <1>1, <1>5, KeptSync DEF IInv
    <2> QED
        BY <1>5, <2>1 DEF GoodSync
<1>7. watch' \in Watches /\ GoodWatch(title', watch')
    BY <1>1, KeptWatch DEF IInv, Surroundings
<1>8. Surroundings'
    <2>1. title' \in Tables /\ watch'.row \in Rows \cup {None}
        BY <1>1, <1>7 DEF GoodRows, Watches
    <2>2. TypeOK'
        BY <1>5, <2>1 DEF IInv, Surroundings, TypeOK, env, Tables
    <2> QED
        BY <1>5, <1>7, <2>2 DEF IInv, Surroundings, env
<1> QED
    BY <1>1, <1>4, <1>6, <1>7, <1>8 DEF IInv

\* The same of one handler or poller.
LEMMA TaskMoves ==
    ASSUME IInv, NEW t \in Tasks, NEW k \in TaskStates, task' = [task EXCEPT ![t] = k],
           title' = title \/ (~Locked /\ GoodRows(title') /\ Keeps(title, title')),
           GoodTask(title', k),
           active' \subseteq Rows, \A r \in active' : title'[r] # NoTitle,
           hooks' \subseteq hooks,
           sync' = sync \/ sync' = [sync EXCEPT !.quiet = FALSE],
           excused' \subseteq Rows, asks' \in 0 .. MaxAsks,
           UNCHANGED <<env, watch, up, lives>>
    PROVE  IInv'
<1>1. task \in [Tasks -> TaskStates]
    BY DEF IInv, Surroundings, TypeOK
<1>2. /\ task' \in [Tasks -> TaskStates]
      /\ \A q \in Tasks : task'[q] = IF q = t THEN k ELSE task[q]
    BY <1>1
<1>3. \A q \in Tasks : task'[q] = task[q] \/ GoodTask(title', task'[q])
    BY <1>2
<1> QED
    BY <1>2, <1>3, Moves

---------------------------------------------------------------------------
(* Handlers and pollers *)

AnyTasks ==
    [kind : Kinds \cup {"none"}, at : Places \cup {"none"}, item : Items \cup {None},
     path : Files \cup {None}, row : Rows \cup {None}, saw : Titles \cup {NoTitle},
     polls : 0 .. MaxPolls - 1]

LEMMA DoneIsTask == Done \in AnyTasks
<1>1. 0 \in 0 .. MaxPolls - 1
    BY SyncAssumption
<1> QED
    BY <1>1 DEF Done, AnyTasks

\* A task that has just begun, with a row or without.
LEMMA NewTask ==
    ASSUME NEW kind \in Kinds, NEW at \in Places \ {"write"}, NEW i, NEW p, Fits(i, p),
           NEW r \in Rows \cup {None}, NEW t, r # None => t[r] # NoTitle,
           at \in {"decide", "reset", "asked"} => r # None,
           kind = "replace" => r # None /\ t[r].item # None,
           NEW k, k = [Done EXCEPT !.kind = kind, !.at = at, !.row = r, !.item = i, !.path = p]
    PROVE  k \in TaskStates /\ GoodTask(t, k) /\ k # Done
<1>1. /\ k.kind = kind /\ k.at = at /\ k.item = i /\ k.path = p /\ k.row = r
      /\ k \in TaskStates
    BY DoneIsTask DEF AnyTasks, TaskStates, Fits
<1>2. k # Done
    BY <1>1, TaskFields DEF Kinds
<1> QED
    BY <1>1, <1>2 DEF GoodTask

LEMMA NewTaskWithoutRow ==
    ASSUME NEW kind \in Kinds, NEW at \in Places \ {"write"}, NEW i, NEW p, Fits(i, p), NEW t,
           at \notin {"decide", "reset", "asked"}, kind # "replace",
           NEW k, k = [Done EXCEPT !.kind = kind, !.at = at, !.item = i, !.path = p]
    PROVE  k \in TaskStates /\ GoodTask(t, k) /\ k # Done
<1>1. /\ k.kind = kind /\ k.at = at /\ k.item = i /\ k.path = p /\ k.row = Done.row
      /\ k \in TaskStates
    BY DoneIsTask DEF AnyTasks, TaskStates, Fits
<1>2. k # Done /\ k.row = None
    BY <1>1, TaskFields DEF Kinds
<1> QED
    BY <1>1, <1>2 DEF GoodTask

LEMMA DeliverKeeps ==
    ASSUME IInv, NEW t \in Tasks, NEW h \in hooks, Deliver(t, h)
    PROVE  IInv'
<1> DEFINE kind == IF h.item = None THEN "bazarr" ELSE "hook"
<1> DEFINE k == [Done EXCEPT !.kind = kind, !.at = "select", !.item = h.item, !.path = h.path]
<1>1. Fits(h.item, h.path)
    BY DEF IInv, Surroundings
<1>2. kind \in Kinds /\ "select" \in Places \ {"write"} /\ kind # "replace"
      /\ "select" \notin {"decide", "reset", "asked"}
    BY DEF Kinds, Places
<1>3. k \in TaskStates /\ GoodTask(title, k)
    <2> HIDE DEF kind
    <2> QED
        BY <1>1, <1>2, NewTaskWithoutRow
<1>4. task' = [task EXCEPT ![t] = k]
    BY Zenon DEF Deliver
<1>5. /\ title' = title /\ active' = active /\ hooks' \subseteq hooks
      /\ sync' = [sync EXCEPT !.quiet = FALSE] /\ excused' = excused /\ asks' = asks
      /\ UNCHANGED <<env, watch, up, lives>>
    BY DEF Deliver
<1> HIDE DEF k
<1> QED
    BY <1>3, <1>4, <1>5, TaskMoves DEF IInv, Surroundings, TypeOK

\* A step of a task that touches no title.
LEMMA TaskOnly ==
    ASSUME IInv, NEW t \in Tasks, NEW k \in TaskStates, task' = [task EXCEPT ![t] = k],
           GoodTask(title, k), excused' \subseteq Rows,
           UNCHANGED <<env, hooks, title, active, sync, watch, asks, up, lives>>
    PROVE  IInv'
BY TaskMoves DEF IInv, Surroundings, TypeOK

LEMMA WaitedForRows == \A k : WaitedFor(k) \subseteq Rows
BY DEF WaitedFor

LEMMA SelectKeeps ==
    ASSUME IInv, NEW t \in Tasks, UpsertSelect(t)
    PROVE  IInv'
<1> DEFINE k == task[t]
<1> DEFINE r == RowOf(title, k.item, k.path)
<1> DEFINE saw == IF r = None THEN NoTitle ELSE title[r]
<1>1. k \in TaskStates /\ k # Done /\ GoodTask(title, k) /\ excused \subseteq Rows
    BY DEF IInv, Surroundings, TypeOK, UpsertSelect, Upserting, Done
<1>2. excused' \subseteq Rows
    BY <1>1, WaitedForRows DEF UpsertSelect
<1>3. UNCHANGED <<env, hooks, title, active, sync, watch, asks, up, lives>>
    BY DEF UpsertSelect
<1>4. CASE Ambiguous(title, k.item)
    <2>1. task' = [task EXCEPT ![t] = Done]
        BY <1>4 DEF UpsertSelect
    <2> QED
        BY <1>2, <1>3, <2>1, TaskOnly, DoneIsGood DEF TaskStates
<1>5. CASE ~Ambiguous(title, k.item)
    <2> DEFINE new == [k EXCEPT !.at = "write", !.row = r, !.saw = saw]
    <2>1. task' = [task EXCEPT ![t] = new]
        BY <1>5 DEF UpsertSelect
    <2>2. r \in Rows \cup {None} /\ GoodWrite(title, r, saw, k.item, k.path)
        BY <1>1, SelectIsGood DEF IInv, GoodTask
    <2>3. saw \in Titles \cup {NoTitle}
        BY <2>2 DEF IInv, Surroundings, TypeOK
    <2>4. k.kind \in {"hook", "bazarr", "poll"}
        BY DEF UpsertSelect, Upserting
    <2>5. /\ new \in TaskStates /\ new.at = "write" /\ new.row = r /\ new.saw = saw
          /\ new.item = k.item /\ new.path = k.path /\ new.kind = k.kind
        BY <1>1, <2>2, <2>3 DEF TaskStates, Places
    <2>6. GoodTask(title, new)
        BY <1>1, <2>2, <2>4, <2>5 DEF GoodTask, GoodWrite
    <2> QED
        BY <1>2, <1>3, <2>1, <2>5, <2>6, TaskOnly
<1> QED
    BY <1>4, <1>5

LEMMA WriteKeeps ==
    ASSUME IInv, NEW t \in Tasks, UpsertWrite(t)
    PROVE  IInv'
<1> DEFINE k == task[t]
<1> DEFINE after == Upserted(title, k.row, k.saw, k.item, k.path)
<1> DEFINE n == Target(title, k.row)
<1>1. k \in TaskStates /\ k # Done /\ GoodTask(title, k) /\ excused \subseteq Rows
    BY DEF IInv, Surroundings, TypeOK, UpsertWrite, Upserting, Done
<1>2. k.row \in Rows \cup {None} /\ k.saw \in Titles \cup {NoTitle} /\ CanWrite(title, k.row)
    BY <1>1, TaskFields DEF UpsertWrite
<1>3. Fits(k.item, k.path) /\ GoodWrite(title, k.row, k.saw, k.item, k.path)
    BY <1>1 DEF GoodTask, UpsertWrite, Upserting
<1>4. GoodRows(after) /\ Keeps(title, after) /\ after[n] # NoTitle /\ n \in Rows
    BY <1>2, <1>3, WriteIsGood, TargetIs DEF IInv
<1>5. UNCHANGED <<env, hooks, active, sync, watch, asks, up, lives>>
    BY DEF UpsertWrite
<1>6. CASE ~Locked /\ Unique(after)
    <2> DEFINE new == [k EXCEPT !.at = "decide", !.row = n, !.saw = NoTitle]
    <2>1. title' = after /\ excused' = excused \cup Moved(after)
        BY <1>6 DEF UpsertWrite
    <2>2. task' = [task EXCEPT ![t] = new]
        BY <1>6 DEF UpsertWrite
    <2>3. k.kind \in {"hook", "bazarr", "poll"}
        BY DEF UpsertWrite, Upserting
    <2>4. /\ new \in TaskStates /\ new.at = "decide" /\ new.row = n
          /\ new.item = k.item /\ new.path = k.path /\ new.kind = k.kind
        BY <1>1, <1>4 DEF TaskStates, Places
    <2>5. GoodTask(after, new)
        BY <1>3, <1>4, <2>3, <2>4, Constants DEF GoodTask
    <2>6. excused' \subseteq Rows
        BY <1>1, <2>1 DEF Moved
    <2>7. \A r \in active : after[r] # NoTitle
        BY <1>4 DEF IInv, Surroundings, TypeOK, Keeps
    <2> QED
        BY <1>4, <1>5, <1>6, <2>1, <2>2, <2>4, <2>5, <2>6, <2>7, TaskMoves
           DEF IInv, Surroundings, TypeOK
<1>7. CASE ~(~Locked /\ Unique(after))
    <2>1. task' = [task EXCEPT ![t] = Done] /\ title' = title
        BY <1>7 DEF UpsertWrite
    <2>2. excused' \subseteq Rows
        BY <1>1, <1>7, WaitedForRows DEF UpsertWrite
    <2> QED
        BY <1>5, <2>1, <2>2, TaskOnly, DoneIsGood DEF TaskStates
<1> QED
    BY <1>6, <1>7

LEMMA TaskIs ==
    ASSUME IInv, NEW t \in Tasks, task[t].kind # "none"
    PROVE  /\ task[t] \in TaskStates /\ task[t] # Done /\ GoodTask(title, task[t])
           /\ Fits(task[t].item, task[t].path)
           /\ task[t].row \in Rows \cup {None}
<1>1. task[t] \in TaskStates /\ GoodTask(title, task[t])
    BY DEF IInv, Surroundings, TypeOK
<1>2. task[t] # Done
    BY TaskFields
<1> QED
    BY <1>1, <1>2, TaskFields DEF GoodTask

\* A job is enqueued, or there is one already.
LEMMA EnqueueIsGood ==
    ASSUME IInv, NEW r \in Rows, title[r] # NoTitle, ~Locked, Enqueue(r) \/ EnqueueIfNotActive(r)
    PROVE  /\ title' = title \/ (~Locked /\ GoodRows(title') /\ Keeps(title, title'))
           /\ active' \subseteq Rows /\ \A q \in active' : title'[q] # NoTitle
<1>1. active \subseteq Rows /\ \A q \in active : title[q] # NoTitle
    BY DEF IInv, Surroundings, TypeOK
<1>2. CASE UNCHANGED <<title, active>>
    BY <1>1, <1>2
<1>3. CASE Enqueue(r)
    <2>1. GoodRows(title') /\ Keeps(title, title')
        BY <1>3, StatusIsGood DEF IInv, Enqueue, Statuses
    <2> QED
        BY <1>1, <1>3, <2>1 DEF Enqueue, Keeps
<1> QED
    BY <1>2, <1>3 DEF EnqueueIfNotActive

LEMMA PollingIsGood ==
    ASSUME NEW k \in TaskStates, k # Done, Fits(k.item, k.path), NEW t,
           NEW new, new = [k EXCEPT !.kind = "poll", !.at = "look", !.row = None]
    PROVE  new \in TaskStates /\ GoodTask(t, new)
<1>1. new \in TaskStates
    BY DEF TaskStates, Kinds, Places
<1>2. new.kind = "poll" /\ new.at = "look" /\ new.row = None /\ new.item = k.item
      /\ new.path = k.path
    BY DEF TaskStates
<1> QED
    BY <1>1, <1>2 DEF GoodTask

LEMMA HookDecidesKeeps ==
    ASSUME IInv, NEW t \in Tasks, HookDecides(t)
    PROVE  IInv'
<1> DEFINE k == task[t]
<1>1. k.kind = "hook" /\ k.at = "decide" /\ UNCHANGED <<env, hooks, sync, watch, excused, asks, up, lives>>
    BY DEF HookDecides, Step
<1>2. /\ k \in TaskStates /\ k # Done /\ Fits(k.item, k.path) /\ k.row \in Rows
      /\ title[k.row] # NoTitle
    BY <1>1, TaskIs DEF GoodTask
<1>3. CASE ~Locked /\ EnqueueIfNotActive(k.row) /\ task' = [task EXCEPT ![t] = Done]
    <2>1. Done \in TaskStates /\ GoodTask(title', Done)
        BY DoneIsGood DEF TaskStates
    <2>2. /\ title' = title \/ (~Locked /\ GoodRows(title') /\ Keeps(title, title'))
          /\ active' \subseteq Rows /\ \A q \in active' : title'[q] # NoTitle
        BY <1>2, <1>3, EnqueueIsGood
    <2> QED
        BY <1>1, <1>3, <2>1, <2>2, TaskMoves DEF IInv, Surroundings, TypeOK
<1>4. CASE /\ UNCHANGED <<title, active>>
           /\ task' = [task EXCEPT ![t].kind = "poll", ![t].at = "look", ![t].row = None]
    <2> DEFINE new == [k EXCEPT !.kind = "poll", !.at = "look", !.row = None]
    <2>1. new \in TaskStates /\ GoodTask(title, new)
        BY <1>2, PollingIsGood
    <2>2. task' = [task EXCEPT ![t] = new]
        BY <1>4
    <2> QED
        BY <1>1, <1>4, <2>1, <2>2, TaskOnly DEF IInv, Surroundings, TypeOK
<1>5. CASE UNCHANGED <<title, active>> /\ task' = [task EXCEPT ![t] = Done]
    BY <1>1, <1>5, TaskOnly, DoneIsGood DEF TaskStates, IInv, Surroundings, TypeOK
<1> QED
    BY <1>3, <1>4, <1>5 DEF HookDecides

LEMMA FoundEnqueuesKeeps ==
    ASSUME IInv, NEW t \in Tasks, FoundEnqueues(t)
    PROVE  IInv'
<1> DEFINE k == task[t]
<1>1. /\ k.kind # "none" /\ k.at = "decide" /\ task' = [task EXCEPT ![t] = Done]
      /\ UNCHANGED <<env, hooks, sync, watch, asks, up, lives>>
    BY DEF FoundEnqueues, Step
<1>2. k.row \in Rows /\ title[k.row] # NoTitle
    BY <1>1, TaskIs DEF GoodTask
<1>3. Done \in TaskStates /\ GoodTask(title', Done)
    BY DoneIsGood DEF TaskStates
<1>4. excused \subseteq Rows /\ WaitedFor(k) \subseteq Rows
    BY WaitedForRows DEF IInv, Surroundings, TypeOK
<1>5. CASE Locked
    <2>1. UNCHANGED <<title, active>> /\ excused' \subseteq Rows
        BY <1>4, <1>5 DEF FoundEnqueues
    <2> QED
        BY <1>1, <1>3, <2>1, TaskOnly
<1>6. CASE ~Locked
    <2>1. EnqueueIfNotActive(k.row) /\ excused' = excused
        BY <1>6 DEF FoundEnqueues
    <2>2. /\ title' = title \/ (~Locked /\ GoodRows(title') /\ Keeps(title, title'))
          /\ active' \subseteq Rows /\ \A q \in active' : title'[q] # NoTitle
        BY <1>2, <1>6, <2>1, EnqueueIsGood
    <2> QED
        BY <1>1, <1>3, <1>4, <2>1, <2>2, TaskMoves DEF IInv, Surroundings, TypeOK
<1> QED
    BY <1>5, <1>6

LEMMA PollLookKeeps ==
    ASSUME IInv, NEW t \in Tasks, PollLook(t)
    PROVE  IInv'
<1> DEFINE k == task[t]
<1>1. k.kind = "poll" /\ k.at = "look"
      /\ UNCHANGED <<env, hooks, title, active, sync, watch, excused, asks, up, lives>>
    BY DEF PollLook, Step
<1>2. k \in TaskStates /\ k # Done /\ GoodTask(title, k) /\ Fits(k.item, k.path)
    BY <1>1, TaskIs
<1>3. k.polls \in 0 .. MaxPolls - 1 /\ MaxPolls \in Nat \ {0}
    BY <1>2, SyncAssumption DEF TaskStates
<1> DEFINE new == IF k.path \in subs THEN [k EXCEPT !.at = "select"]
                  ELSE IF k.polls + 1 < MaxPolls THEN [k EXCEPT !.polls = k.polls + 1]
                  ELSE [k EXCEPT !.at = "expire", !.polls = 0]
<1>4. task' = [task EXCEPT ![t] = new]
    BY Zenon DEF PollLook
<1>5. /\ new \in TaskStates /\ new.at \in {"select", "look", "expire"}
      /\ new.kind = k.kind /\ new.row = k.row /\ new.item = k.item /\ new.path = k.path
    <2>1. CASE k.path \in subs
        BY <1>1, <1>2, <2>1 DEF TaskStates, Places
    <2>2. CASE k.path \notin subs /\ k.polls + 1 < MaxPolls
        <3>1. k.polls + 1 \in 0 .. MaxPolls - 1 /\ new = [k EXCEPT !.polls = k.polls + 1]
            BY <1>3, <2>2
        <3> QED
            BY <1>1, <1>2, <3>1 DEF TaskStates, Places
    <2>3. CASE k.path \notin subs /\ ~(k.polls + 1 < MaxPolls)
        <3>1. 0 \in 0 .. MaxPolls - 1 /\ new = [k EXCEPT !.at = "expire", !.polls = 0]
            BY <1>3, <2>3
        <3> QED
            BY <1>1, <1>2, <3>1 DEF TaskStates, Places
    <2> QED
        BY <2>1, <2>2, <2>3
<1> HIDE DEF new
<1>6. GoodTask(title, new)
    BY <1>1, <1>2, <1>5 DEF GoodTask
<1> QED
    BY <1>1, <1>4, <1>5, <1>6, TaskOnly DEF IInv, Surroundings, TypeOK

LEMMA PollExpiresKeeps ==
    ASSUME IInv, NEW t \in Tasks, PollExpires(t)
    PROVE  IInv'
<1> DEFINE k == task[t]
<1> DEFINE mine == {r \in WithPath(title, k.path) : title[r].status = "awaiting_subtitle"}
<1>1. k.kind = "poll" /\ k.at = "expire"
      /\ UNCHANGED <<env, hooks, title, active, sync, watch, excused, asks, up, lives>>
    BY DEF PollExpires, Step
<1>2. k \in TaskStates /\ k # Done /\ GoodTask(title, k) /\ Fits(k.item, k.path)
    BY <1>1, TaskIs
<1>3. CASE mine = {}
    <2>1. task' = [task EXCEPT ![t] = Done]
        BY <1>3 DEF PollExpires
    <2> QED
        BY <1>1, <2>1, TaskOnly, DoneIsGood DEF TaskStates, IInv, Surroundings, TypeOK
<1>4. CASE mine # {}
    <2> DEFINE r == CHOOSE q \in mine : TRUE
    <2> DEFINE new == [k EXCEPT !.at = "reset", !.row = r]
    <2>1. task' = [task EXCEPT ![t] = new]
        BY <1>4 DEF PollExpires
    <2>2. r \in Rows /\ title[r] # NoTitle
        <3>1. r \in mine
            BY <1>4
        <3> QED
            BY <3>1, RowFields DEF WithPath
    <2>3. new \in TaskStates /\ new.at = "reset" /\ new.kind = "poll" /\ new.row = r
          /\ new.item = k.item /\ new.path = k.path
        <3> HIDE DEF r
        <3> QED
            BY <1>1, <1>2, <2>2 DEF TaskStates, Places
    <2>4. GoodTask(title, new)
        <3> HIDE DEF r, new
        <3> QED
            BY <1>2, <2>2, <2>3, Constants DEF GoodTask
    <2> QED
        BY <1>1, <2>1, <2>3, <2>4, TaskOnly DEF IInv, Surroundings, TypeOK
<1> QED
    BY <1>3, <1>4

LEMMA PollResetsKeeps ==
    ASSUME IInv, NEW t \in Tasks, PollResets(t)
    PROVE  IInv'
<1> DEFINE k == task[t]
<1>1. /\ k.kind = "poll" /\ k.at = "reset" /\ task' = [task EXCEPT ![t] = Done]
      /\ UNCHANGED <<env, hooks, active, sync, watch, asks, up, lives>>
    BY DEF PollResets, Step
<1>2. k.row \in Rows /\ title[k.row] # NoTitle
    BY <1>1, TaskIs DEF GoodTask
<1>3. Done \in TaskStates /\ GoodTask(title', Done)
    BY DoneIsGood DEF TaskStates
<1>4. excused \subseteq Rows /\ active \subseteq Rows /\ \A r \in active : title[r] # NoTitle
    BY DEF IInv, Surroundings, TypeOK
<1>5. CASE Locked
    <2>1. title' = title /\ excused' \subseteq Rows
        BY <1>2, <1>4, <1>5 DEF PollResets
    <2> QED
        BY <1>1, <1>3, <2>1, TaskOnly
<1>6. CASE ~Locked
    <2>1. title' = [title EXCEPT ![k.row].status = "idle"] /\ excused' = excused
        BY <1>6 DEF PollResets
    <2>2. GoodRows(title') /\ Keeps(title, title')
        BY <1>2, <2>1, StatusIsGood DEF IInv, Statuses
    <2>3. \A r \in active : title'[r] # NoTitle
        BY <1>4, <2>2 DEF Keeps
    <2> QED
        BY <1>1, <1>3, <1>4, <1>6, <2>1, <2>2, <2>3, TaskMoves DEF IInv, Surroundings, TypeOK
<1> QED
    BY <1>5, <1>6

---------------------------------------------------------------------------
(* The user's buttons and the audio job *)

LEMMA RowFits ==
    ASSUME NEW t, GoodRows(t), NEW r \in Rows, t[r] # NoTitle
    PROVE  Fits(t[r].item, t[r].path)
<1>1. t[r] \in Titles
    BY DEF GoodRows, Tables
<1>2. t[r].item \in Items \cup {None} /\ t[r].path \in Files
    BY <1>1, RowFields
<1> QED
    BY <1>2, Constants DEF GoodRows, Fits

\* A title at rest is one.
LEMMA IdleIsTitle == \A x : x.status \in Statuses => x # NoTitle
BY RowFields DEF Statuses

LEMMA SearchSubtitleKeeps ==
    ASSUME IInv, NEW t \in Tasks, NEW r \in Rows, SearchSubtitle(t, r)
    PROVE  IInv'
<1> DEFINE k == [Done EXCEPT !.kind = "search", !.at = "asked", !.row = r,
                             !.item = title[r].item, !.path = title[r].path]
<1>1. title[r] # NoTitle
    BY IdleIsTitle DEF SearchSubtitle, Statuses
<1>2. Fits(title[r].item, title[r].path)
    BY <1>1, RowFits DEF IInv
<1>3. k \in TaskStates /\ GoodTask(title, k)
    <2>1. "search" \in Kinds /\ "asked" \in Places \ {"write"} /\ "search" # "replace"
        BY DEF Kinds, Places
    <2>2. r \in Rows \cup {None} /\ r # None
        BY Constants
    <2> QED
        BY <1>1, <1>2, <2>1, <2>2, NewTask
<1>4. task' = [task EXCEPT ![t] = k]
    BY Zenon DEF SearchSubtitle
<1>5. /\ sync' = [sync EXCEPT !.quiet = FALSE] /\ asks' = asks + 1 /\ asks < MaxAsks
      /\ UNCHANGED <<env, hooks, title, active, watch, excused, up, lives>>
    BY DEF SearchSubtitle
<1>6. asks' \in 0 .. MaxAsks
    BY <1>5, SyncAssumption DEF IInv, Surroundings, TypeOK
<1> HIDE DEF k
<1> QED
    BY <1>3, <1>4, <1>5, <1>6, TaskMoves DEF IInv, Surroundings, TypeOK

LEMMA SearchReplacementKeeps ==
    ASSUME IInv, NEW t \in Tasks, NEW r \in Rows, SearchReplacement(t, r)
    PROVE  IInv'
<1> DEFINE k == [Done EXCEPT !.kind = "replace", !.at = "asked", !.row = r,
                             !.item = title[r].item, !.path = title[r].path]
<1>1. title[r] # NoTitle /\ title[r].item # None
    BY IdleIsTitle DEF SearchReplacement, Statuses
<1>2. Fits(title[r].item, title[r].path)
    BY <1>1, RowFits DEF IInv
<1>3. k \in TaskStates /\ GoodTask(title, k)
    <2>1. "replace" \in Kinds /\ "asked" \in Places \ {"write"}
        BY DEF Kinds, Places
    <2>2. r \in Rows \cup {None} /\ r # None
        BY Constants
    <2> QED
        BY <1>1, <1>2, <2>1, <2>2, NewTask
<1>4. task' = [task EXCEPT ![t] = k]
    BY Zenon DEF SearchReplacement
<1>5. /\ sync' = [sync EXCEPT !.quiet = FALSE] /\ asks' = asks + 1 /\ asks < MaxAsks
      /\ UNCHANGED <<env, hooks, title, active, watch, excused, up, lives>>
    BY DEF SearchReplacement
<1>6. asks' \in 0 .. MaxAsks
    BY <1>5, SyncAssumption DEF IInv, Surroundings, TypeOK
<1> HIDE DEF k
<1> QED
    BY <1>3, <1>4, <1>5, <1>6, TaskMoves DEF IInv, Surroundings, TypeOK

LEMMA SearchEndsKeeps ==
    ASSUME IInv, NEW t \in Tasks, SearchEnds(t)
    PROVE  IInv'
<1> DEFINE k == task[t]
<1>1. /\ k.kind = "search" /\ k.at = "asked"
      /\ UNCHANGED <<env, hooks, sync, watch, excused, asks, up, lives>>
    BY DEF SearchEnds, Step
<1>2. /\ k \in TaskStates /\ k # Done /\ Fits(k.item, k.path) /\ k.row \in Rows
      /\ title[k.row] # NoTitle
    BY <1>1, TaskIs DEF GoodTask
<1>3. /\ excused \subseteq Rows /\ active \subseteq Rows /\ asks \in 0 .. MaxAsks
      /\ \A q \in active : title[q] # NoTitle
    BY DEF IInv, Surroundings, TypeOK
<1>4. Done \in TaskStates /\ GoodTask(title', Done)
    BY DoneIsGood DEF TaskStates
<1>5. CASE ~Locked /\ Enqueue(k.row) /\ task' = [task EXCEPT ![t] = Done]
    <2>1. /\ title' = title \/ (~Locked /\ GoodRows(title') /\ Keeps(title, title'))
          /\ active' \subseteq Rows /\ \A q \in active' : title'[q] # NoTitle
        BY <1>2, <1>5, EnqueueIsGood
    <2> QED
        BY <1>1, <1>3, <1>4, <1>5, <2>1, TaskMoves
<1>6. CASE /\ ~Locked /\ title' = [title EXCEPT ![k.row].status = "awaiting_subtitle"]
           /\ task' = [task EXCEPT ![t].kind = "poll", ![t].at = "look", ![t].row = None]
           /\ UNCHANGED active
    <2> DEFINE new == [k EXCEPT !.kind = "poll", !.at = "look", !.row = None]
    <2>1. new \in TaskStates /\ GoodTask(title', new)
        BY <1>2, PollingIsGood
    <2>2. task' = [task EXCEPT ![t] = new]
        BY <1>6
    <2>3. GoodRows(title') /\ Keeps(title, title')
        BY <1>2, <1>6, StatusIsGood DEF IInv, Statuses
    <2>4. \A q \in active' : title'[q] # NoTitle
        BY <1>3, <1>6, <2>3 DEF Keeps
    <2> HIDE DEF new
    <2> QED
        BY <1>1, <1>3, <1>6, <2>1, <2>2, <2>3, <2>4, TaskMoves
<1>7. CASE UNCHANGED <<title, active>> /\ task' = [task EXCEPT ![t] = Done]
    BY <1>1, <1>3, <1>4, <1>7, TaskOnly
<1> QED
    BY <1>5, <1>6, <1>7 DEF SearchEnds

LEMMA ReplacementAskedKeeps ==
    ASSUME IInv, NEW t \in Tasks, ReplacementAsked(t)
    PROVE  IInv'
<1> DEFINE k == task[t]
<1>1. /\ k.kind = "replace" /\ task' = [task EXCEPT ![t] = Done]
      /\ UNCHANGED <<env, hooks, active, sync, watch, excused, asks, up, lives>>
    BY DEF ReplacementAsked, Step
<1>2. k.row \in Rows /\ title[k.row] # NoTitle /\ title[k.row].item # None
    BY <1>1, TaskIs DEF GoodTask
<1>3. /\ excused \subseteq Rows /\ active \subseteq Rows /\ asks \in 0 .. MaxAsks
      /\ \A q \in active : title[q] # NoTitle
    BY DEF IInv, Surroundings, TypeOK
<1>4. Done \in TaskStates /\ GoodTask(title', Done)
    BY DoneIsGood DEF TaskStates
<1>5. CASE ~Locked /\ title' = [title EXCEPT ![k.row].status = "awaiting_mkv"]
    <2>1. GoodRows(title') /\ Keeps(title, title')
        BY <1>2, <1>5, StatusIsGood DEF IInv, Statuses
    <2>2. \A q \in active : title'[q] # NoTitle
        BY <1>3, <2>1 DEF Keeps
    <2> QED
        BY <1>1, <1>3, <1>4, <1>5, <2>1, <2>2, TaskMoves
<1>6. CASE UNCHANGED title
    BY <1>1, <1>3, <1>4, <1>6, TaskOnly
<1> QED
    BY <1>5, <1>6 DEF ReplacementAsked

LEMMA JobEndsKeeps ==
    ASSUME IInv, NEW r \in Rows, JobEnds(r)
    PROVE  IInv'
<1>1. /\ title[r] # NoTitle /\ active \subseteq Rows /\ \A q \in active : title[q] # NoTitle
      /\ excused \subseteq Rows /\ asks \in 0 .. MaxAsks /\ task \in [Tasks -> TaskStates]
    BY DEF JobEnds, IInv, Surroundings, TypeOK
<1>2. /\ title' = [title EXCEPT ![r].status = "idle"] /\ active' = active \ {r} /\ ~Locked
      /\ UNCHANGED <<env, hooks, task, sync, watch, excused, asks, up, lives>>
    BY DEF JobEnds
<1>3. GoodRows(title') /\ Keeps(title, title')
    BY <1>1, <1>2, StatusIsGood DEF IInv, Statuses
<1>4. \A q \in active' : title'[q] # NoTitle
    BY <1>1, <1>2, <1>3 DEF Keeps
<1> QED
    BY <1>1, <1>2, <1>3, <1>4, Moves

---------------------------------------------------------------------------
(* The replacement watcher *)

LEMMA WatchBeginsKeeps ==
    ASSUME IInv, NEW r \in Rows, WatchBegins(r)
    PROVE  IInv'
<1>1. /\ title[r] # NoTitle /\ title[r].status = "awaiting_mkv" /\ title[r] \in Titles
      /\ active \subseteq Rows /\ \A q \in active : title[q] # NoTitle
      /\ excused \subseteq Rows /\ asks \in 0 .. MaxAsks /\ task \in [Tasks -> TaskStates]
    BY RowFields DEF WatchBegins, IInv, Surroundings, TypeOK
<1>2. /\ watch' = [row |-> r, saw |-> title[r]] /\ sync' = [sync EXCEPT !.quiet = FALSE]
      /\ UNCHANGED <<env, hooks, title, active, task, excused, asks, up, lives>>
    BY DEF WatchBegins
<1>3. watch' \in Watches /\ watch'.row = r /\ watch'.saw = title[r]
    BY <1>1, <1>2 DEF Watches
<1>4. title[r].item # None /\ title[r].item \in Items
    BY <1>1, RowFields DEF IInv, GoodRows
<1>5. r \in Homes <=> title[r].item \in Kept
    BY Constants DEF IInv, GoodRows
<1>6. GoodWatch(title', watch')
    BY <1>1, <1>2, <1>3, <1>4, <1>5 DEF GoodWatch
<1> QED
    BY <1>1, <1>2, <1>3, <1>6, Moves

\* The file that replaces another goes to the row of its item.
LEMMA LandsIsGood ==
    ASSUME NEW t, GoodRows(t), NEW r \in Rows, t[r] # NoTitle, t[r].item # None,
           NEW i \in Items, r \in Homes <=> i \in Kept, NEW p, Fits(i, p),
           NEW s \in Statuses, NEW u, u = [t EXCEPT ![r].path = p, ![r].status = s]
    PROVE  GoodRows(u) /\ Keeps(t, u)
<1>1. t \in Tables /\ t[r] \in Titles
    BY DEF GoodRows, Tables
<1> DEFINE new == [t[r] EXCEPT !.path = p, !.status = s]
<1>2. new \in Titles /\ new.item = t[r].item /\ new.path = p /\ new.status = s
    BY <1>1 DEF Titles, Fits
<1>3. u = [t EXCEPT ![r] = new]
    OBVIOUS
<1>4. u \in Tables /\ u[r] = new /\ \A q \in Rows \ {r} : u[q] = t[q]
    BY <1>1, <1>2, <1>3 DEF Tables
<1>5. new # NoTitle
    BY <1>2, RowFields
<1>6. i # None /\ (i \in Kept <=> KeptFile(p))
    BY Constants DEF Fits
<1>7. r \in Homes => KeptFile(p) /\ t[r].item = Library[r]
    BY <1>6 DEF GoodRows
<1>8. r \notin Homes => ~KeptFile(p) /\ ~KeptFile(t[r].path) /\ t[r].item \notin Kept
    BY <1>6 DEF GoodRows
<1>9. GoodRows(u)
    <2>1. u[r].item = t[r].item /\ u[r].path = p /\ \A q \in Rows \ {r} : u[q] = t[q]
        BY <1>2, <1>4
    <2>2. ASSUME NEW n \in Homes PROVE u[n].item = Library[n] /\ KeptFile(u[n].path)
        <3>1. n \in Rows
            BY Constants
        <3>2. CASE n = r
            BY <1>7, <2>1, <3>2
        <3>3. CASE n # r
            <4>1. u[n] = t[n]
                BY <2>1, <3>1, <3>3
            <4> QED
                BY <4>1 DEF GoodRows
        <3> QED
            BY <3>2, <3>3
    <2>3. ASSUME NEW q \in Rows \ Homes
          PROVE  u[q].item \notin Kept /\ (u[q].item # None => ~KeptFile(u[q].path))
        <3>1. CASE q = r
            BY <1>8, <2>1, <3>1
        <3>2. CASE q # r
            <4>1. u[q] = t[q]
                BY <2>1, <3>2
            <4> QED
                BY <4>1 DEF GoodRows
        <3> QED
            BY <3>1, <3>2
    <2>4. ASSUME NEW q \in Rows, u[q].status = "awaiting_mkv" PROVE u[q].item # None
        <3>1. CASE q = r
            BY <2>1, <3>1
        <3>2. CASE q # r
            BY <2>1, <2>4, <3>2 DEF GoodRows
        <3> QED
            BY <3>1, <3>2
    <2> QED
        BY <1>4, <2>2, <2>3, <2>4 DEF GoodRows
<1>10. Keeps(t, u)
    <2>1. u[r].item # None /\ u[r].path = p /\ u[r] # NoTitle
        BY <1>2, <1>4, <1>5
    <2>2. \A q \in Rows \ {r} : u[q] = t[q]
        BY <1>4
    <2> QED
        BY <1>8, <2>1, <2>2 DEF Keeps
<1> QED
    BY <1>9, <1>10

LEMMA WatchEndsKeeps ==
    ASSUME IInv, WatchEnds
    PROVE  IInv'
<1> DEFINE r == watch.row
<1> DEFINE p == arr[watch.saw.item]
<1> DEFINE lands == p # None /\ ~Locked
<1> DEFINE after(status) == [title EXCEPT ![r].path = p, ![r].status = status]
<1>1. /\ r \in Rows /\ title[r] # NoTitle /\ title[r].item # None
      /\ watch.saw.item \in Items /\ (r \in Homes <=> watch.saw.item \in Kept)
    BY DEF IInv, GoodWatch, WatchEnds
<1>2. p # None => Fits(watch.saw.item, p)
    BY <1>1 DEF IInv, Surroundings
<1>3. /\ watch' = NoWatch /\ excused' = excused \cup Moved(title')
      /\ UNCHANGED <<env, hooks, sync, asks, up, lives>>
    BY DEF WatchEnds
<1>4. watch' \in Watches /\ GoodWatch(title', watch')
    BY <1>3 DEF Watches, NoWatch, GoodWatch
<1>5. /\ excused' \subseteq Rows /\ active \subseteq Rows /\ asks \in 0 .. MaxAsks
      /\ \A q \in active : title[q] # NoTitle
      /\ task \in [Tasks -> TaskStates]
    BY <1>3 DEF IInv, Surroundings, TypeOK, Moved
<1>6. CASE UNCHANGED <<title, active, task>>
    BY <1>3, <1>4, <1>5, <1>6, Moves
<1>7. CASE /\ lands /\ title' = after("queued") /\ active' = active \cup {r}
           /\ UNCHANGED task
    <2>1. GoodRows(title') /\ Keeps(title, title')
        BY <1>1, <1>2, <1>7, LandsIsGood DEF IInv, Statuses
    <2>2. \A q \in active' : title'[q] # NoTitle
        BY <1>1, <1>5, <1>7, <2>1 DEF Keeps
    <2> QED
        BY <1>1, <1>3, <1>4, <1>5, <1>7, <2>1, <2>2, Moves
<1>8. ASSUME lands, title' = after("awaiting_subtitle"), UNCHANGED active,
             NEW t \in Tasks,
             task' = [task EXCEPT ![t] = [Done EXCEPT !.kind = "poll", !.at = "look",
                                                     !.item = watch.saw.item, !.path = p]]
      PROVE  IInv'
    <2> DEFINE k == [Done EXCEPT !.kind = "poll", !.at = "look",
                                 !.item = watch.saw.item, !.path = p]
    <2>1. GoodRows(title') /\ Keeps(title, title')
        BY <1>1, <1>2, <1>8, LandsIsGood DEF IInv, Statuses
    <2>2. \A q \in active' : title'[q] # NoTitle
        BY <1>1, <1>5, <1>8, <2>1 DEF Keeps
    <2>3. k \in TaskStates /\ GoodTask(title', k)
        <3>1. /\ "poll" \in Kinds /\ "look" \in Places \ {"write"} /\ "poll" # "replace"
              /\ "look" \notin {"decide", "reset", "asked"}
            BY DEF Kinds, Places
        <3>2. Fits(watch.saw.item, p)
            BY <1>2, <1>8
        <3> QED
            BY <3>1, <3>2, NewTaskWithoutRow
    <2>4. task' = [task EXCEPT ![t] = k]
        BY <1>8, Zenon
    <2> HIDE DEF k
    <2>5. /\ task' \in [Tasks -> TaskStates]
          /\ \A q \in Tasks : task'[q] = task[q] \/ GoodTask(title', task'[q])
        BY <1>5, <2>3, <2>4
    <2> QED
        BY <1>3, <1>4, <1>5, <1>8, <2>1, <2>2, <2>5, Moves
<1>9. \/ UNCHANGED <<title, active, task>>
      \/ lands /\ title' = after("queued") /\ active' = active \cup {r} /\ UNCHANGED task
      \/ /\ lands /\ title' = after("awaiting_subtitle") /\ UNCHANGED active
         /\ \E t \in Tasks :
              task' = [task EXCEPT ![t] = [Done EXCEPT !.kind = "poll", !.at = "look",
                                                     !.item = watch.saw.item, !.path = p]]
    BY Zenon DEF WatchEnds
<1> QED
    BY <1>6, <1>7, <1>8, <1>9

---------------------------------------------------------------------------
(* The world *)

\* The file of an import fits every item it holds.
LEMMA ImportFits ==
    ASSUME NEW f \in Files, NEW i \in Holds[f]
    PROVE  Fits(i, f)
<1>1. i \in Items
    BY Constants
<1>2. i \in Kept => KeptFile(f)
    BY KeptIsClosed DEF Closed, KeptFile
<1>3. KeptFile(f) => i \in Kept
    BY DEF KeptFile
<1> QED
    BY <1>1, <1>2, <1>3 DEF Fits

\* A step that changes files, webhooks and what the sync knows of them.
LEMMA WorldMoves ==
    ASSUME IInv,
           arr' \in [Items -> Files \cup {None}], subs' \subseteq Files, imported' \subseteq Files,
           \A i \in Items : arr'[i] # None => Fits(i, arr'[i]),
           hooks' \subseteq Hooks, \A h \in hooks' : Fits(h.item, h.path),
           sync' = sync \/ sync' = [sync EXCEPT !.quiet = FALSE],
           UNCHANGED <<title, active, task, watch, excused, asks, up, lives>>
    PROVE  IInv'
<1>1. /\ sync \in Syncs /\ sync' \in Syncs
      /\ sync'.at = sync.at /\ sync'.todo = sync.todo /\ sync'.entry = sync.entry
      /\ sync'.row = sync.row /\ sync'.saw = sync.saw /\ sync'.draft = sync.draft
      /\ sync'.runs = sync.runs
    BY DEF IInv, Surroundings, Syncs
<1>2. GoodSync(title', sync')
    BY <1>1 DEF IInv, GoodSync
<1>3. TypeOK'
    BY <1>1 DEF IInv, Surroundings, TypeOK
<1>4. Surroundings'
    BY <1>1, <1>3 DEF IInv, Surroundings
<1> QED
    BY <1>2, <1>4 DEF IInv

LEMMA ImportKeeps ==
    ASSUME IInv, NEW f \in Files, Import(f)
    PROVE  IInv'
<1>1. /\ imported' = imported \cup {f}
      /\ arr' = [i \in Items |-> IF i \in Holds[f] THEN f ELSE arr[i]]
      /\ sync' = [sync EXCEPT !.quiet = FALSE]
      /\ UNCHANGED <<subs, title, active, task, watch, excused, asks, up, lives>>
    BY DEF Import
<1>2. PICK i \in Holds[f] : Send([item |-> i, path |-> f])
    BY DEF Import
<1>3. TypeOK /\ \A j \in Items : arr[j] # None => Fits(j, arr[j])
    BY DEF IInv, Surroundings
<1>4. arr' \in [Items -> Files \cup {None}] /\ imported' \subseteq Files /\ subs' \subseteq Files
    BY <1>1, <1>3 DEF TypeOK
<1>5. \A j \in Items : arr'[j] # None => Fits(j, arr'[j])
    BY <1>1, <1>3, ImportFits
<1> DEFINE h == [item |-> i, path |-> f]
<1>6. h \in Hooks /\ Fits(h.item, h.path)
    BY Constants, ImportFits DEF Hooks
<1>7. hooks' \subseteq hooks \cup {h}
    BY <1>2 DEF Send
<1>8. hooks' \subseteq Hooks /\ \A g \in hooks' : Fits(g.item, g.path)
    <2> HIDE DEF h
    <2> QED
        BY <1>3, <1>6, <1>7 DEF TypeOK, IInv, Surroundings
<1> QED
    BY <1>1, <1>4, <1>5, <1>8, WorldMoves

LEMMA SubtitleArrivesKeeps ==
    ASSUME IInv, NEW f \in Files, SubtitleArrives(f)
    PROVE  IInv'
<1>1. /\ subs' = subs \cup {f}
      /\ UNCHANGED <<arr, imported, title, active, task, sync, watch, excused, asks, up, lives>>
    BY DEF SubtitleArrives
<1>2. TypeOK /\ \A j \in Items : arr[j] # None => Fits(j, arr[j])
    BY DEF IInv, Surroundings
<1>3. arr' \in [Items -> Files \cup {None}] /\ imported' \subseteq Files /\ subs' \subseteq Files
    BY <1>1, <1>2 DEF TypeOK
<1> DEFINE h == [item |-> None, path |-> f]
<1>4. h \in Hooks /\ Fits(h.item, h.path)
    BY Constants DEF Hooks, Fits
<1>5. hooks' \subseteq hooks \cup {h}
    BY DEF SubtitleArrives, Send
<1>6. hooks' \subseteq Hooks /\ \A g \in hooks' : Fits(g.item, g.path)
    <2> HIDE DEF h
    <2> QED
        BY <1>2, <1>4, <1>5 DEF TypeOK, IInv, Surroundings
<1> QED
    BY <1>1, <1>2, <1>3, <1>6, WorldMoves

---------------------------------------------------------------------------
(* The library sync *)

\* A step of the sync that writes no title.
LEMMA SyncMoves ==
    ASSUME IInv, sync' \in Syncs, GoodSync(title, sync'),
           UNCHANGED <<env, hooks, title, active, task, watch, excused, asks, up, lives>>
    PROVE  IInv'
<1>1. TypeOK'
    BY DEF IInv, Surroundings, TypeOK, Syncs, Tables, env
<1>2. Surroundings'
    BY <1>1 DEF IInv, Surroundings, env
<1> QED
    BY <1>2 DEF IInv

LEMMA IdleIsGood ==
    ASSUME sync \in Syncs
    PROVE  SyncIdle \in Syncs /\ \A t : GoodRows(t) => GoodSync(t, SyncIdle)
<1>1. SyncIdle \in Syncs /\ SyncIdle.at = "idle" /\ SyncIdle.todo = {} /\ SyncIdle.draft = None
    BY DEF SyncIdle, Syncs
<1> QED
    BY <1>1 DEF GoodSync, Keeps

\* What the sync reads.
LEMMA ViewIsGood ==
    ASSUME IInv
    PROVE  /\ GoodRows(SyncView) /\ Keeps(title, SyncView) /\ sync \in Syncs
           /\ \A e \in sync.todo : e \in Entries /\ Fits(e[1], e[2])
<1>1. GoodRows(SyncView) /\ Keeps(title, SyncView)
    BY DEF IInv, GoodSync, SyncView, Locked
<1>2. sync \in Syncs /\ \A e \in sync.todo : Fits(e[1], e[2])
    BY DEF IInv, Surroundings, GoodSync
<1> QED
    BY <1>1, <1>2 DEF Syncs

LEMMA SyncBeginsKeeps ==
    ASSUME IInv, SyncBegins
    PROVE  IInv'
<1> DEFINE todo == {<<i, arr[i]>> : i \in {j \in Items : arr[j] # None}}
<1> DEFINE quiet == watch = NoWatch /\ \A t \in Tasks : task[t] = Done
<1>1. /\ sync.runs < MaxSyncs
      /\ sync' = [sync EXCEPT !.at = "next", !.runs = sync.runs + 1, !.todo = todo, !.quiet = quiet]
      /\ UNCHANGED <<env, hooks, title, active, task, watch, excused, asks, up, lives>>
    BY DEF SyncBegins
<1>2. todo \subseteq Entries /\ \A e \in todo : Fits(e[1], e[2])
    <2>1. \A i \in Items : arr[i] # None => Fits(i, arr[i])
        BY DEF IInv, Surroundings
    <2> QED
        BY <2>1 DEF Entries, Fits
<1>3. quiet \in BOOLEAN
    BY Zenon
<1>4. sync \in Syncs /\ sync.runs + 1 \in 0 .. MaxSyncs
    BY <1>1, SyncAssumption DEF IInv, Surroundings, Syncs
<1> HIDE DEF todo, quiet
<1>5. /\ sync' \in Syncs /\ sync'.at = "next" /\ sync'.todo = todo
      /\ sync'.draft = sync.draft
    BY <1>1, <1>2, <1>3, <1>4 DEF Syncs
<1>6. GoodSync(title, sync')
    BY <1>2, <1>5 DEF IInv, GoodSync
<1> QED
    BY <1>1, <1>5, <1>6, SyncMoves

LEMMA SyncSelectKeeps ==
    ASSUME IInv, SyncSelect
    PROVE  IInv'
<1>1. UNCHANGED <<env, hooks, title, active, task, watch, excused, asks, up, lives>>
    BY DEF SyncSelect
<1>2. PICK e \in sync.todo :
         sync' = IF Ambiguous(SyncView, e[1]) THEN SyncIdle
                 ELSE [sync EXCEPT !.at = "flush", !.todo = sync.todo \ {e}, !.entry = e,
                                   !.row = RowOf(SyncView, e[1], e[2]),
                                   !.saw = IF RowOf(SyncView, e[1], e[2]) = None THEN NoTitle
                                           ELSE SyncView[RowOf(SyncView, e[1], e[2])]]
    BY Zenon DEF SyncSelect
<1>3. /\ GoodRows(SyncView) /\ sync \in Syncs /\ e \in Entries /\ Fits(e[1], e[2])
    BY ViewIsGood
<1>4. CASE Ambiguous(SyncView, e[1])
    BY <1>1, <1>2, <1>3, <1>4, IdleIsGood, SyncMoves DEF IInv
<1>5. CASE ~Ambiguous(SyncView, e[1])
    <2> DEFINE r == RowOf(SyncView, e[1], e[2])
    <2> DEFINE saw == IF r = None THEN NoTitle ELSE SyncView[r]
    <2>1. r \in Rows \cup {None} /\ GoodWrite(SyncView, r, saw, e[1], e[2])
        BY <1>3, SelectIsGood
    <2>2. saw \in Titles \cup {NoTitle}
        BY <1>3, <2>1 DEF GoodRows, Tables
    <2>3. sync' = [sync EXCEPT !.at = "flush", !.todo = sync.todo \ {e}, !.entry = e,
                               !.row = r, !.saw = saw]
        BY <1>2, <1>5, Zenon
    <2> HIDE DEF r, saw
    <2>4. /\ sync' \in Syncs /\ sync'.at = "flush" /\ sync'.todo = sync.todo \ {e}
          /\ sync'.entry = e /\ sync'.row = r /\ sync'.saw = saw /\ sync'.draft = sync.draft
        BY <1>3, <2>1, <2>2, <2>3 DEF Syncs
    <2>5. SyncView = IF sync'.draft # None THEN sync'.draft ELSE title
        BY <2>4 DEF SyncView, Locked
    <2>6. GoodSync(title, sync')
        BY <1>3, <2>1, <2>4, <2>5, ViewIsGood DEF GoodSync
    <2> QED
        BY <1>1, <2>4, <2>6, SyncMoves
<1> QED
    BY <1>4, <1>5

LEMMA KeepsTwice ==
    ASSUME NEW t, NEW u, NEW v, Keeps(t, u), Keeps(u, v)
    PROVE  Keeps(t, v)
BY DEF Keeps

LEMMA SyncFlushKeeps ==
    ASSUME IInv, SyncFlush
    PROVE  IInv'
<1> DEFINE e == sync.entry
<1> DEFINE after == Upserted(SyncView, sync.row, sync.saw, e[1], e[2])
<1>1. /\ sync.at = "flush" /\ CanWrite(SyncView, sync.row)
      /\ UNCHANGED <<env, hooks, title, active, task, watch, excused, asks, up, lives>>
    BY DEF SyncFlush
<1>2. GoodRows(SyncView) /\ Keeps(title, SyncView) /\ sync \in Syncs
    BY ViewIsGood
<1>3. Fits(e[1], e[2]) /\ GoodWrite(SyncView, sync.row, sync.saw, e[1], e[2])
    BY <1>1 DEF IInv, GoodSync, SyncView, Locked
<1>4. sync.row \in Rows \cup {None} /\ sync.saw \in Titles \cup {NoTitle}
    BY <1>2 DEF Syncs
<1>5. GoodRows(after) /\ Keeps(title, after)
    BY <1>1, <1>2, <1>3, <1>4, WriteIsGood, KeepsTwice
<1>6. CASE ~Unique(after)
    <2>1. sync' = SyncIdle
        BY <1>6 DEF SyncFlush
    <2> QED
        BY <1>1, <1>2, <2>1, IdleIsGood, SyncMoves DEF IInv
<1>7. CASE Unique(after)
    <2> DEFINE draft == IF after = SyncView THEN sync.draft ELSE after
    <2>1. sync' = [sync EXCEPT !.at = "next", !.entry = None, !.row = None, !.saw = NoTitle,
                               !.draft = draft]
        BY <1>7 DEF SyncFlush
    <2>2. draft \in Tables \cup {None}
        BY <1>2, <1>5 DEF GoodRows, Syncs
    <2>3. draft = sync.draft \/ draft = after
        OBVIOUS
    <2> HIDE DEF draft, after
    <2>4. /\ sync' \in Syncs /\ sync'.at = "next" /\ sync'.todo = sync.todo
          /\ sync'.draft = draft
        BY <1>2, <2>1, <2>2 DEF Syncs
    <2> DEFINE view == IF draft # None THEN draft ELSE title
    <2>5. GoodRows(view) /\ Keeps(title, view)
        <3>1. Keeps(title, title)
            BY DEF Keeps
        <3>2. CASE draft = after
            BY <1>5, <3>1, <3>2 DEF IInv
        <3>3. CASE draft = sync.draft
            BY <1>2, <3>3 DEF SyncView, Locked
        <3> QED
            BY <2>3, <3>2, <3>3
    <2>6. GoodSync(title, sync')
        BY <2>4, <2>5, ViewIsGood DEF GoodSync
    <2> QED
        BY <1>1, <2>4, <2>6, SyncMoves
<1> QED
    BY <1>6, <1>7

LEMMA SyncCommitKeeps ==
    ASSUME IInv, SyncCommit
    PROVE  IInv'
<1>1. /\ title' = SyncView /\ excused' = excused \cup Moved(SyncView) /\ sync' = SyncIdle
      /\ UNCHANGED <<env, hooks, active, task, watch, asks, up, lives>>
    BY DEF SyncCommit
<1>2. GoodRows(title') /\ Keeps(title, title') /\ sync \in Syncs
    BY <1>1, ViewIsGood
<1>3. sync' \in Syncs /\ GoodSync(title', sync')
    BY <1>1, <1>2, IdleIsGood
<1>4. \A q \in Tasks : GoodTask(title', task'[q])
    <2>1. ASSUME NEW q \in Tasks PROVE GoodTask(title', task'[q])
        <3>1. task[q] \in TaskStates /\ GoodTask(title, task[q])
            BY DEF IInv, Surroundings, TypeOK
        <3> QED
            BY <1>1, <1>2, <3>1, KeptTask
    <2> QED
        BY <2>1
<1>5. GoodWatch(title', watch')
    BY <1>1, <1>2, KeptWatch DEF IInv
<1>6. excused' \subseteq Rows
    BY <1>1 DEF IInv, Surroundings, TypeOK, Moved
<1>7. TypeOK'
    BY <1>1, <1>2, <1>3, <1>6 DEF IInv, Surroundings, TypeOK, Syncs, Tables, GoodRows, env
<1>8. \A r \in active' : title'[r] # NoTitle
    BY <1>1, <1>2 DEF IInv, Surroundings, TypeOK, Keeps
<1>9. Surroundings'
    BY <1>1, <1>3, <1>7, <1>8 DEF IInv, Surroundings, env
<1> QED
    BY <1>2, <1>3, <1>4, <1>5, <1>9 DEF IInv

---------------------------------------------------------------------------
(* The process *)

LEMMA CrashKeeps ==
    ASSUME IInv, Crash
    PROVE  IInv'
<1>1. /\ lives < MaxLives /\ up' = FALSE /\ hooks' = {}
      /\ task' = [t \in Tasks |-> Done] /\ sync' = SyncIdle /\ watch' = NoWatch
      /\ UNCHANGED <<env, title, active, excused, asks, lives>>
    BY DEF Crash
<1>2. sync' \in Syncs /\ GoodSync(title', sync')
    BY <1>1, IdleIsGood DEF IInv, Surroundings
<1>3. watch' \in Watches /\ GoodWatch(title', watch')
    BY <1>1 DEF Watches, NoWatch, GoodWatch
<1>4. \A t \in Tasks : GoodTask(title', task'[t])
    BY <1>1, DoneIsGood
<1>5. task' \in [Tasks -> TaskStates]
    BY <1>1 DEF TaskStates
<1>6. TypeOK'
    BY <1>1, <1>2, <1>3, <1>5 DEF IInv, Surroundings, TypeOK, Syncs, Watches, Tables, env
<1>7. Surroundings'
    BY <1>1, <1>2, <1>3, <1>6 DEF IInv, Surroundings, env
<1> QED
    BY <1>1, <1>2, <1>3, <1>4, <1>7 DEF IInv

LEMMA RestartKeeps ==
    ASSUME IInv, Restart
    PROVE  IInv'
<1>1. /\ ~up /\ up' = TRUE /\ lives' = lives + 1 /\ excused' = {}
      /\ UNCHANGED <<env, hooks, title, active, sync, watch, asks>>
    BY DEF Restart
<1> DEFINE Poller(r) == [Done EXCEPT !.kind = "poll", !.at = "look",
                                     !.item = title[r].item, !.path = title[r].path]
<1>2. PICK runs \in [Awaiting -> Tasks] :
         task' = [t \in Tasks |-> IF \E r \in Awaiting : runs[r] = t
                                  THEN Poller(CHOOSE q \in Awaiting : runs[q] = t)
                                  ELSE Done]
    BY Zenon DEF Restart
<1>3. ASSUME NEW r \in Awaiting PROVE Poller(r) \in TaskStates /\ GoodTask(title, Poller(r))
    <2>1. r \in Rows /\ title[r] # NoTitle
        BY RowFields DEF Awaiting
    <2>2. Fits(title[r].item, title[r].path)
        BY <2>1, RowFits DEF IInv
    <2>3. /\ "poll" \in Kinds /\ "look" \in Places \ {"write"} /\ "poll" # "replace"
          /\ "look" \notin {"decide", "reset", "asked"}
        BY DEF Kinds, Places
    <2> QED
        BY <2>2, <2>3, NewTaskWithoutRow
<1>4. ASSUME NEW t \in Tasks PROVE task'[t] \in TaskStates /\ GoodTask(title, task'[t])
    <2>1. CASE \E r \in Awaiting : runs[r] = t
        <3> DEFINE r == CHOOSE q \in Awaiting : runs[q] = t
        <3>1. r \in Awaiting
            BY <2>1
        <3>2. task'[t] = Poller(r)
            BY <1>2, <2>1, Zenon
        <3> HIDE DEF r, Poller
        <3> QED
            BY <1>3, <3>1, <3>2
    <2>2. CASE ~\E r \in Awaiting : runs[r] = t
        <3>1. task'[t] = Done
            BY <1>2, <2>2, Zenon
        <3> QED
            BY <3>1, DoneIsGood DEF TaskStates
    <2> QED
        BY <2>1, <2>2
<1>5. task' \in [Tasks -> TaskStates]
    <2>1. task' = [t \in Tasks |-> task'[t]]
        BY <1>2, Zenon
    <2> QED
        BY <1>4, <2>1
<1>6. lives' \in 1 .. MaxLives
    BY <1>1, SyncAssumption DEF IInv, Surroundings, TypeOK
<1>7. TypeOK'
    BY <1>1, <1>5, <1>6 DEF IInv, Surroundings, TypeOK, env
<1>8. Surroundings'
    BY <1>1, <1>7 DEF IInv, Surroundings, env
<1>9. GoodRows(title') /\ GoodSync(title', sync') /\ GoodWatch(title', watch')
    BY <1>1 DEF IInv
<1>10. \A t \in Tasks : GoodTask(title', task'[t])
    BY <1>1, <1>4
<1> QED
    BY <1>8, <1>9, <1>10 DEF IInv

---------------------------------------------------------------------------
(* Theorems *)

LEMMA InitInv == Init => IInv
<1> SUFFICES ASSUME Init PROVE IInv
    OBVIOUS
<1> DEFINE first(n) == [item |-> Library[n], path |-> FirstFile[Library[n]], status |-> "idle"]
<1>1. title = [r \in Rows |-> IF r \in DOMAIN Library THEN first(r) ELSE NoTitle]
    BY DEF Init
<1>2. \A i \in Known : /\ i \in Items /\ FirstFile[i] \in Files /\ Holds[FirstFile[i]] = {i}
                       /\ KeptFile(FirstFile[i]) <=> i \in Kept
    BY SyncAssumption DEF KeptFile, Known
<1>3. ASSUME NEW n \in DOMAIN Library
      PROVE  /\ Library[n] \in Known /\ first(n) \in Titles /\ first(n).item = Library[n]
             /\ KeptFile(first(n).path) <=> Library[n] \in Kept
             /\ first(n).status = "idle"
    <2>1. Library[n] \in Known
        BY DEF Known
    <2> QED
        BY <1>2, <2>1 DEF Titles, Statuses
<1> HIDE DEF first
<1>4. \A r \in Rows : title[r] = IF r \in DOMAIN Library THEN first(r) ELSE NoTitle
    BY <1>1
<1>5. title \in Tables
    BY <1>1, <1>3 DEF Tables
<1>6. GoodRows(title)
    <2>1. \A n \in Homes : title[n].item = Library[n] /\ KeptFile(title[n].path)
        BY <1>3, <1>4, Constants DEF Homes
    <2>2. ASSUME NEW r \in Rows \ Homes
          PROVE  title[r].item \notin Kept /\ (title[r].item # None => ~KeptFile(title[r].path))
        <3>1. CASE r \in DOMAIN Library
            BY <1>3, <1>4, <3>1 DEF Homes
        <3>2. CASE r \notin DOMAIN Library
            BY <1>4, <3>2, RowFields, Constants
        <3> QED
            BY <3>1, <3>2
    <2>3. \A r \in Rows : title[r].status # "awaiting_mkv"
        BY <1>3, <1>4, RowFields
    <2> QED
        BY <1>5, <2>1, <2>2, <2>3 DEF GoodRows
<1>7. \A i \in Items : arr[i] # None => Fits(i, arr[i])
    BY <1>2, Constants DEF Init, Fits
<1>8. sync \in Syncs /\ sync.at = "idle" /\ sync.todo = {} /\ sync.draft = None
    BY SyncAssumption DEF Init, NoSync, Syncs
<1>9. GoodSync(title, sync)
    BY <1>6, <1>8 DEF GoodSync, Keeps
<1>10. watch \in Watches /\ GoodWatch(title, watch)
    BY DEF Init, NoWatch, Watches, GoodWatch
<1>11. task \in [Tasks -> TaskStates] /\ \A t \in Tasks : GoodTask(title, task[t])
    BY DoneIsGood DEF Init, TaskStates
<1>12. arr \in [Items -> Files \cup {None}] /\ imported \subseteq Files
    BY <1>2 DEF Init
<1>13. 0 \in 0 .. MaxAsks /\ 1 \in 1 .. MaxLives
    BY SyncAssumption
<1>14. TypeOK
    BY <1>5, <1>8, <1>10, <1>11, <1>12, <1>13 DEF Init, TypeOK, Syncs, Watches, Tables
<1>15. Surroundings
    BY <1>7, <1>8, <1>10, <1>14 DEF Surroundings, Init
<1> QED
    BY <1>6, <1>9, <1>10, <1>11, <1>15 DEF IInv

LEMMA StutterKeeps == IInv /\ UNCHANGED vars => IInv'
<1> SUFFICES ASSUME IInv, UNCHANGED vars PROVE IInv'
    OBVIOUS
<1>1. TypeOK'
    BY DEF IInv, Surroundings, TypeOK, vars, env
<1> QED
    BY <1>1 DEF IInv, Surroundings, vars, env

LEMMA NextInv == IInv /\ [Next]_vars => IInv'
<1> SUFFICES ASSUME IInv, [Next]_vars PROVE IInv'
    OBVIOUS
<1>1. ASSUME NEW f \in Files, Import(f) \/ SubtitleArrives(f) PROVE IInv'
    BY <1>1, ImportKeeps, SubtitleArrivesKeeps
<1>2. ASSUME NEW t \in Tasks, NEW h \in hooks, Deliver(t, h) PROVE IInv'
    BY <1>2, DeliverKeeps
<1>3. ASSUME NEW t \in Tasks, TaskStep(t) PROVE IInv'
    BY <1>3, SelectKeeps, WriteKeeps, HookDecidesKeeps, FoundEnqueuesKeeps, PollLookKeeps,
       PollExpiresKeeps, PollResetsKeeps, SearchEndsKeeps, ReplacementAskedKeeps DEF TaskStep
<1>4. ASSUME NEW t \in Tasks, NEW r \in Rows, SearchSubtitle(t, r) \/ SearchReplacement(t, r)
      PROVE  IInv'
    BY <1>4, SearchSubtitleKeeps, SearchReplacementKeeps
<1>5. ASSUME NEW r \in Rows, JobEnds(r) \/ WatchBegins(r) PROVE IInv'
    BY <1>5, JobEndsKeeps, WatchBeginsKeeps
<1>6. CASE WatchEnds
    BY <1>6, WatchEndsKeeps
<1>7. CASE SyncBegins \/ SyncStep
    BY <1>7, SyncBeginsKeeps, SyncSelectKeeps, SyncFlushKeeps, SyncCommitKeeps DEF SyncStep
<1>8. CASE Crash \/ Restart
    BY <1>8, CrashKeeps, RestartKeeps
<1>9. CASE UNCHANGED vars
    BY <1>9, StutterKeeps
<1> QED
    BY <1>1, <1>2, <1>3, <1>4, <1>5, <1>6, <1>7, <1>8, <1>9 DEF Next

\* What each writer has read still fits what it will write.
THEOREM InvHolds == Spec => []IInv
<1>1. Init => IInv
    BY InitInv
<1>2. IInv /\ [Next]_vars => IInv'
    BY NextInv
<1> QED
    BY <1>1, <1>2, PTL DEF Spec

\* Every variable keeps its type, whatever order the writers of title rows come in.
THEOREM TypeCorrect == Spec => []TypeOK
<1>1. IInv => TypeOK
    BY DEF IInv, Surroundings
<1>2. Spec => []IInv
    BY InvHolds
<1> QED
    BY <1>1, <1>2, PTL

\* An item of the library that shares no file with a new one, not even by a chain of
\* files, has exactly one title: webhooks, pollers, the library sync, the replacement
\* watcher and crashes may come in any order (the select and the write of upsert_title,
\* with everyone who calls it).
THEOREM KeptItemsHaveOneTitle == Spec => [](\A i \in Kept : Cardinality(WithItem(title, i)) = 1)
<1>1. IInv => \A i \in Kept : Cardinality(WithItem(title, i)) = 1
    <2> SUFFICES ASSUME IInv, NEW i \in Kept PROVE Cardinality(WithItem(title, i)) = 1
        OBVIOUS
    <2>1. \E n \in Homes : WithItem(title, i) = {n}
        BY RowsOfKept DEF IInv
    <2> QED
        BY <2>1, FS_Singleton
<1>2. Spec => []IInv
    BY InvHolds
<1> QED
    BY <1>1, <1>2, PTL

\* Where no file of an item in the library holds a new one as well, that is every item of
\* the library.
THEOREM TitlesAreKept == ASSUME Separate PROVE Spec => []UpgradeKeepsTitle
<1>1. Known \subseteq Kept
    BY DEF Separate, Kept
<1>2. (\A i \in Kept : Cardinality(WithItem(title, i)) = 1) => UpgradeKeepsTitle
    BY <1>1 DEF UpgradeKeepsTitle
<1> QED
    BY <1>2, KeptItemsHaveOneTitle, PTL
---------------------------------------------------------------------------
(* A title that waits is watched *)

\* A poller of the file p that will not end without doing something about row r:
\* what it is about to write or to enqueue is r, or its write is bound to fail.
WatchesFor(k, r, p) ==
    /\ k.kind = "poll" /\ k.path = p
    /\ k.at = "write" => k.row = r \/ k.saw.path # p
    /\ k.at \in {"decide", "reset"} => k.row = r

Watched(r) == r \in active \/ \E t \in Tasks : WatchesFor(task[t], r, title[r].path)

\* A search goes on with the path its title had, unless that has moved.
GoodSearch(k, t, gone) ==
    k.kind = "search" /\ k.at = "asked" => k.row \in gone \/ t[k.row].path = k.path

\* What a sync has flushed makes no title wait that did not.
DraftWaits(t, s) ==
    s.draft # None =>
        /\ Unique(s.draft)
        /\ \A r \in Rows : s.draft[r].status = "awaiting_subtitle" => t[r].status = "awaiting_subtitle"

WaitInv ==
    /\ Unique(title) /\ DraftWaits(title, sync)
    /\ \A t \in Tasks : GoodSearch(task[t], title, excused)
    /\ up => \A r \in Awaiting \ excused : Watched(r)

LEMMA Records ==
    ASSUME IInv
    PROVE  /\ \A r \in Rows : title[r] \in Titles \cup {NoTitle}
           /\ \A r \in Rows : title[r].status # "none" => title[r] \in Titles /\ title[r] # NoTitle
           /\ \A t \in Tasks : task[t] \in TaskStates /\ GoodTask(title, task[t])
           /\ excused \subseteq Rows /\ active \subseteq Rows
           /\ sync \in Syncs
BY RowFields DEF IInv, Surroundings, TypeOK

\* The steps of anyone: rows that move are excused, a row that begins to wait is watched,
\* and a poller that stops watching a row leaves somebody who does.
LEMMA WaitMoves ==
    ASSUME IInv, WaitInv, Unique(title'), DraftWaits(title', sync'), up' = up,
           excused \subseteq excused',
           \A r \in Rows : title[r] # NoTitle /\ r \notin excused' => title'[r].path = title[r].path,
           \A r \in Rows : title'[r].status = "awaiting_subtitle" /\ r \notin excused' =>
               Watched(r)' \/ (title[r].status = "awaiting_subtitle" /\ (r \in active => r \in active')),
           \A q \in Tasks : task'[q] = task[q] \/
               /\ GoodSearch(task'[q], title', excused')
               /\ \A r \in Rows : /\ title'[r].status = "awaiting_subtitle" /\ r \notin excused'
                                  /\ title[r] # NoTitle /\ WatchesFor(task[q], r, title[r].path)
                                  => Watched(r)'
    PROVE  WaitInv'
<1>1. ASSUME NEW q \in Tasks PROVE GoodSearch(task'[q], title', excused')
    <2>1. CASE task'[q] = task[q]
        <3> SUFFICES ASSUME task[q].kind = "search", task[q].at = "asked", task[q].row \notin excused'
                     PROVE  title'[task[q].row].path = task[q].path
            BY <2>1 DEF GoodSearch
        <3>1. task[q].row \in Rows /\ title[task[q].row] # NoTitle
            BY Records, TaskFields DEF GoodTask
        <3>2. title[task[q].row].path = task[q].path
            BY DEF WaitInv, GoodSearch
        <3> QED
            BY <3>1, <3>2
    <2> QED
        BY <2>1
<1>2. ASSUME up, NEW r \in Rows, title'[r].status = "awaiting_subtitle", r \notin excused'
      PROVE  Watched(r)'
    <2> SUFFICES ASSUME title[r].status = "awaiting_subtitle", r \in active => r \in active'
                 PROVE  Watched(r)'
        BY <1>2
    <2>1. title[r] # NoTitle /\ r \notin excused /\ title'[r].path = title[r].path
        BY <1>2, RowFields
    <2>2. Watched(r)
        BY <1>2, <2>1 DEF WaitInv, Awaiting
    <2>3. CASE r \in active
        BY <2>3 DEF Watched
    <2>4. ASSUME NEW q \in Tasks, WatchesFor(task[q], r, title[r].path) PROVE Watched(r)'
        <3>1. CASE task'[q] = task[q]
            BY <2>1, <2>4, <3>1 DEF Watched
        <3> QED
            BY <1>2, <2>1, <2>4, <3>1
    <2> QED
        BY <2>2, <2>3, <2>4 DEF Watched
<1> QED
    BY <1>1, <1>2 DEF WaitInv, Awaiting

\* The same of one handler or poller.
LEMMA TaskWaits ==
    ASSUME IInv, WaitInv, NEW t \in Tasks, NEW k, task' = [task EXCEPT ![t] = k],
           Unique(title'), title' = title \/ ~Locked, up' = up,
           sync' = sync \/ sync' = [sync EXCEPT !.quiet = FALSE],
           excused \subseteq excused', active \subseteq active',
           \A r \in Rows : title[r] # NoTitle /\ r \notin excused' => title'[r].path = title[r].path,
           \A r \in Rows : title'[r].status = "awaiting_subtitle" /\ r \notin excused' =>
               title[r].status = "awaiting_subtitle" \/ WatchesFor(k, r, title'[r].path),
           GoodSearch(k, title', excused'),
           \A r \in Rows : /\ title'[r].status = "awaiting_subtitle" /\ r \notin excused'
                           /\ title[r] # NoTitle /\ WatchesFor(task[t], r, title[r].path)
                           => r \in active' \/ WatchesFor(k, r, title'[r].path)
    PROVE  WaitInv'
<1>1. task'[t] = k /\ \A q \in Tasks \ {t} : task'[q] = task[q]
    BY DEF IInv, Surroundings, TypeOK
<1>2. sync'.draft = sync.draft
    BY Records DEF Syncs
<1>3. DraftWaits(title', sync')
    BY <1>2 DEF WaitInv, DraftWaits, Locked
<1>4. ASSUME NEW r \in Rows, r \in active' \/ WatchesFor(k, r, title'[r].path) PROVE Watched(r)'
    BY <1>1, <1>4 DEF Watched
<1> QED
    BY <1>1, <1>3, <1>4, WaitMoves

\* The same when it changes no title.
LEMMA TaskOnlyWaits ==
    ASSUME IInv, WaitInv, NEW t \in Tasks, NEW k, task' = [task EXCEPT ![t] = k],
           UNCHANGED <<title, active, up>>,
           sync' = sync \/ sync' = [sync EXCEPT !.quiet = FALSE],
           excused \subseteq excused', GoodSearch(k, title, excused),
           \A r \in Awaiting \ excused' :
               WatchesFor(task[t], r, title[r].path) => r \in active \/ WatchesFor(k, r, title[r].path)
    PROVE  WaitInv'
<1>1. Unique(title) /\ GoodSearch(k, title, excused')
    BY DEF WaitInv, GoodSearch
<1> QED
    BY <1>1, TaskWaits DEF Awaiting

\* A status changes no path.
LEMMA StatusWaits ==
    ASSUME IInv, WaitInv, NEW r \in Rows, title[r] # NoTitle, NEW s, title' = [title EXCEPT ![r].status = s]
    PROVE  /\ Unique(title')
           /\ \A q \in Rows : title'[q].path = title[q].path
           /\ \A q \in Rows \ {r} : title'[q].status = title[q].status
           /\ title'[r].status = s
<1>1. title \in Tables /\ title[r] \in Titles
    BY DEF IInv, Surroundings, TypeOK, Tables
<1>2. \A q \in Rows \ {r} : title'[q] = title[q]
    BY <1>1 DEF Tables
<1>3. title'[r].path = title[r].path /\ title'[r].status = s
    BY <1>1 DEF Tables, Titles
<1>4. Unique(title')
    BY <1>2, <1>3 DEF WaitInv, Unique
<1> QED
    BY <1>2, <1>3, <1>4

\* The select: a poller either keeps the row of the file it waits for, or finds another
\* row by the item, whose write the unique path forbids.
LEMMA SelectWaits ==
    ASSUME IInv, WaitInv, NEW t \in Tasks, UpsertSelect(t)
    PROVE  WaitInv'
<1> DEFINE k == task[t]
<1> DEFINE n == RowOf(title, k.item, k.path)
<1> DEFINE saw == IF n = None THEN NoTitle ELSE title[n]
<1>1. /\ k \in TaskStates /\ k # Done /\ k.kind \in {"hook", "bazarr", "poll"}
      /\ Fits(k.item, k.path)
    BY Records, TaskFields DEF UpsertSelect, Upserting, GoodTask, Done
<1>2. UNCHANGED <<title, active, up, sync>>
    BY DEF UpsertSelect
<1>3. CASE Ambiguous(title, k.item)
    <2>1. task' = [task EXCEPT ![t] = Done] /\ excused' = excused \cup WaitedFor(k)
        BY <1>3 DEF UpsertSelect
    <2>2. ASSUME NEW r \in Awaiting \ excused', WatchesFor(k, r, title[r].path) PROVE FALSE
        BY <2>1, <2>2 DEF WatchesFor, WaitedFor, Awaiting
    <2>3. GoodSearch(Done, title, excused)
        BY TaskFields DEF GoodSearch
    <2> QED
        BY <1>2, <2>1, <2>2, <2>3, TaskOnlyWaits
<1>4. CASE ~Ambiguous(title, k.item)
    <2> DEFINE new == [k EXCEPT !.at = "write", !.row = n, !.saw = saw]
    <2>1. task' = [task EXCEPT ![t] = new] /\ excused' = excused
        BY <1>4 DEF UpsertSelect
    <2>2. /\ new.at = "write" /\ new.row = n /\ new.saw = saw
          /\ new.path = k.path /\ new.kind = k.kind
        BY <1>1 DEF TaskStates
    <2>3. ASSUME NEW r \in Awaiting \ excused', WatchesFor(k, r, title[r].path)
          PROVE  WatchesFor(new, r, title[r].path)
        <3>1. k.path = title[r].path /\ r \in Rows /\ k.path \in Files
            BY <1>1, <2>3 DEF WatchesFor, Awaiting, Fits
        <3>2. CASE n # None /\ saw.path = k.path
            <4>1. n \in Found(title, k.item, k.path)
                BY <3>2 DEF RowOf
            <4>2. n \in Rows /\ title[n].path = k.path /\ title[n] # NoTitle
                BY <3>1, <3>2, <4>1, RowFields, Constants DEF Found, WithItem, WithPath
            <4>3. n = r
                BY <3>1, <4>2 DEF WaitInv, Unique
            <4> QED
                BY <2>2, <2>3, <4>3 DEF WatchesFor
        <3>3. CASE n = None
            <4>1. saw.path # k.path
                BY <3>1, <3>3, RowFields, Constants
            <4> QED
                BY <2>2, <2>3, <3>1, <4>1 DEF WatchesFor
        <3>4. CASE n # None /\ saw.path # k.path
            BY <2>2, <2>3, <3>1, <3>4 DEF WatchesFor
        <3> QED
            BY <3>2, <3>3, <3>4
    <2>4. GoodSearch(new, title, excused)
        BY <2>2 DEF GoodSearch
    <2> QED
        BY <1>2, <2>1, <2>3, <2>4, TaskOnlyWaits
<1> QED
    BY <1>3, <1>4

\* What a write leaves of the rows it does not go to, and of the one it does.
LEMMA WriteWaits ==
    ASSUME NEW t, GoodRows(t), NEW i, NEW p, Fits(i, p),
           NEW row \in Rows \cup {None}, NEW saw \in Titles \cup {NoTitle},
           GoodWrite(t, row, saw, i, p), CanWrite(t, row),
           NEW u, u = Upserted(t, row, saw, i, p), NEW n, n = Target(t, row)
    PROVE  /\ n \in Rows /\ (row # None => n = row) /\ (row = None => t[n] = NoTitle)
           /\ \A q \in Rows \ {n} : u[q] = t[q]
           /\ \A q \in Rows : u[q].status = "awaiting_subtitle" => t[q].status = "awaiting_subtitle"
           /\ row = None \/ saw.path # p => u[n].path = p
           /\ u[n] # NoTitle
<1> DEFINE new == Merged(t, row, saw, i, p)
<1>1. /\ n \in Rows /\ (row # None => n = row) /\ (row = None => t[n] = NoTitle)
      /\ u = [t EXCEPT ![n] = new] /\ t \in Tables
    BY TargetIs DEF Upserted, GoodRows
<1>2. u[n] = new /\ \A q \in Rows \ {n} : u[q] = t[q]
    BY <1>1 DEF Tables
<1>3. u[n] # NoTitle
    BY WriteIsGood
<1>4. CASE row = None
    <2>1. new = [item |-> i, path |-> p, status |-> "idle"]
        BY <1>4 DEF Merged
    <2>2. new.path = p /\ new.status = "idle"
        BY <2>1
    <2> QED
        BY <1>1, <1>2, <1>3, <1>4, <2>2
<1>5. CASE row # None
    <2>1. n = row /\ t[n] \in Titles
        BY <1>1, <1>5 DEF GoodWrite, Tables
    <2>2. new = [t[n] EXCEPT !.path = IF saw.path # p THEN p ELSE @,
                             !.item = IF i # None /\ saw.item # i THEN i ELSE @]
        BY <1>5, <2>1 DEF Merged
    <2>3. /\ new.path = IF saw.path # p THEN p ELSE t[n].path
          /\ new.status = t[n].status
        BY <2>1, <2>2 DEF Titles
    <2> QED
        BY <1>1, <1>2, <1>3, <1>5, <2>3
<1> QED
    BY <1>4, <1>5

\* The write: a poller that would write a row other than the one that has its file fails,
\* and its title is excused.
LEMMA WritingWaits ==
    ASSUME IInv, WaitInv, NEW t \in Tasks, UpsertWrite(t)
    PROVE  WaitInv'
<1> DEFINE k == task[t]
<1> DEFINE after == Upserted(title, k.row, k.saw, k.item, k.path)
<1> DEFINE n == Target(title, k.row)
<1>1. /\ k \in TaskStates /\ k # Done /\ GoodTask(title, k) /\ k.at = "write"
      /\ k.kind \in {"hook", "bazarr", "poll"}
    BY Records, TaskFields DEF UpsertWrite, Upserting
<1>2. k.row \in Rows \cup {None} /\ k.saw \in Titles \cup {NoTitle} /\ CanWrite(title, k.row)
    BY <1>1, TaskFields DEF UpsertWrite
<1>3. Fits(k.item, k.path) /\ GoodWrite(title, k.row, k.saw, k.item, k.path) /\ GoodRows(title)
    BY <1>1 DEF GoodTask, IInv
<1>4. UNCHANGED <<active, up, sync>>
    BY DEF UpsertWrite
<1>5. CASE ~Locked /\ Unique(after)
    <2> DEFINE new == [k EXCEPT !.at = "decide", !.row = n, !.saw = NoTitle]
    <2>1. title' = after /\ excused' = excused \cup Moved(after)
        BY <1>5 DEF UpsertWrite
    <2>2. task' = [task EXCEPT ![t] = new]
        BY <1>5 DEF UpsertWrite
    <2>3. /\ new.at = "decide" /\ new.row = n /\ new.path = k.path /\ new.kind = k.kind
        BY <1>1 DEF TaskStates
    <2>4. /\ n \in Rows /\ (k.row # None => n = k.row) /\ (k.row = None => title[n] = NoTitle)
          /\ \A q \in Rows \ {n} : after[q] = title[q]
          /\ \A q \in Rows : after[q].status = "awaiting_subtitle" => title[q].status = "awaiting_subtitle"
          /\ k.row = None \/ k.saw.path # k.path => after[n].path = k.path
          /\ after[n] # NoTitle
        BY <1>2, <1>3, WriteWaits
    <2>5. \A r \in Rows : title[r] # NoTitle /\ r \notin excused' => title'[r].path = title[r].path
        BY <2>1 DEF Moved
    <2>6. ASSUME NEW r \in Rows, title'[r].status = "awaiting_subtitle", r \notin excused',
                 title[r] # NoTitle, WatchesFor(k, r, title[r].path)
          PROVE  WatchesFor(new, r, title'[r].path)
        <3>1. title'[r].path = title[r].path /\ k.path = title[r].path
            BY <2>5, <2>6 DEF WatchesFor
        <3>2. n = r
            <4>1. CASE k.row = r
                BY <2>4, <2>6, <4>1, Constants
            <4>2. CASE k.saw.path # k.path
                BY <1>5, <2>1, <2>4, <3>1, <4>2 DEF Unique
            <4> QED
                BY <1>1, <2>6, <3>1, <4>1, <4>2 DEF WatchesFor
        <3> QED
            BY <2>3, <2>6, <3>1, <3>2 DEF WatchesFor
    <2>7. GoodSearch(new, title', excused')
        BY <2>3 DEF GoodSearch
    <2> HIDE DEF new, after, n
    <2> QED
        BY <1>4, <1>5, <2>1, <2>2, <2>4, <2>5, <2>6, <2>7, TaskWaits
<1>6. CASE ~(~Locked /\ Unique(after))
    <2>1. /\ task' = [task EXCEPT ![t] = Done] /\ title' = title
          /\ excused' = excused \cup WaitedFor(k)
        BY <1>6 DEF UpsertWrite
    <2>2. ASSUME NEW r \in Awaiting \ excused', WatchesFor(k, r, title[r].path) PROVE FALSE
        BY <2>1, <2>2 DEF WatchesFor, WaitedFor, Awaiting
    <2>3. GoodSearch(Done, title, excused)
        BY TaskFields DEF GoodSearch
    <2> QED
        BY <1>4, <2>1, <2>2, <2>3, TaskOnlyWaits
<1> QED
    BY <1>5, <1>6

LEMMA EnqueueWaits ==
    ASSUME IInv, WaitInv, NEW r \in Rows, title[r] # NoTitle, Enqueue(r) \/ EnqueueIfNotActive(r)
    PROVE  /\ Unique(title') /\ active \subseteq active' /\ r \in active'
           /\ \A q \in Rows : title'[q].path = title[q].path
           /\ \A q \in Rows : title'[q].status = "awaiting_subtitle" => title[q].status = "awaiting_subtitle"
<1>1. CASE r \in active /\ UNCHANGED <<title, active>>
    BY <1>1 DEF WaitInv
<1>2. CASE Enqueue(r)
    <2>1. title' = [title EXCEPT ![r].status = "queued"] /\ active' = active \cup {r}
        BY <1>2 DEF Enqueue
    <2>2. /\ Unique(title')
          /\ \A q \in Rows : title'[q].path = title[q].path
          /\ \A q \in Rows \ {r} : title'[q].status = title[q].status
          /\ title'[r].status = "queued"
        BY <2>1, StatusWaits
    <2> QED
        BY <2>1, <2>2
<1> QED
    BY <1>1, <1>2 DEF EnqueueIfNotActive

LEMMA DoneWaits == \A r, p, t, gone : ~WatchesFor(Done, r, p) /\ GoodSearch(Done, t, gone)
BY TaskFields DEF WatchesFor, GoodSearch

LEMMA DeliverWaits ==
    ASSUME IInv, WaitInv, NEW t \in Tasks, NEW h \in hooks, Deliver(t, h)
    PROVE  WaitInv'
<1> DEFINE kind == IF h.item = None THEN "bazarr" ELSE "hook"
<1> DEFINE k == [Done EXCEPT !.kind = kind, !.at = "select", !.item = h.item, !.path = h.path]
<1>1. /\ task' = [task EXCEPT ![t] = k] /\ task[t] = Done
      /\ UNCHANGED <<title, active, up, excused>> /\ sync' = [sync EXCEPT !.quiet = FALSE]
    BY Zenon DEF Deliver
<1>2. k.at = "select"
    BY DEF Done
<1>3. GoodSearch(k, title, excused)
    BY <1>2 DEF GoodSearch
<1> HIDE DEF k
<1> QED
    BY <1>1, <1>3, DoneWaits, TaskOnlyWaits

LEMMA DecidingWaits ==
    ASSUME IInv, WaitInv, NEW t \in Tasks, HookDecides(t)
    PROVE  WaitInv'
<1> DEFINE k == task[t]
<1>1. k.kind = "hook" /\ k.at = "decide" /\ UNCHANGED <<sync, excused, up>>
    BY DEF HookDecides, Step
<1>2. k \in TaskStates /\ k # Done /\ k.row \in Rows /\ title[k.row] # NoTitle
    BY <1>1, TaskIs DEF GoodTask
<1>3. \A r \in Rows : ~WatchesFor(k, r, title[r].path)
    BY <1>1 DEF WatchesFor
<1>4. CASE ~Locked /\ EnqueueIfNotActive(k.row) /\ task' = [task EXCEPT ![t] = Done]
    <2>1. /\ Unique(title') /\ active \subseteq active'
          /\ \A q \in Rows : title'[q].path = title[q].path
          /\ \A q \in Rows : title'[q].status = "awaiting_subtitle" => title[q].status = "awaiting_subtitle"
        BY <1>2, <1>4, EnqueueWaits
    <2>2. GoodSearch(Done, title', excused')
        BY TaskFields DEF GoodSearch
    <2> QED
        BY <1>1, <1>3, <1>4, <2>1, <2>2, TaskWaits
<1>5. CASE /\ UNCHANGED <<title, active>>
           /\ task' = [task EXCEPT ![t].kind = "poll", ![t].at = "look", ![t].row = None]
    <2> DEFINE new == [k EXCEPT !.kind = "poll", !.at = "look", !.row = None]
    <2>1. task' = [task EXCEPT ![t] = new]
        BY <1>5
    <2>2. new.kind = "poll"
        BY <1>2 DEF TaskStates
    <2>3. GoodSearch(new, title, excused)
        BY <2>2 DEF GoodSearch
    <2> HIDE DEF new
    <2> QED
        BY <1>1, <1>3, <1>5, <2>1, <2>3, TaskOnlyWaits DEF Awaiting
<1>6. CASE UNCHANGED <<title, active>> /\ task' = [task EXCEPT ![t] = Done]
    BY <1>1, <1>3, <1>6, DoneWaits, TaskOnlyWaits DEF Awaiting
<1> QED
    BY <1>4, <1>5, <1>6 DEF HookDecides

LEMMA FoundWaits ==
    ASSUME IInv, WaitInv, NEW t \in Tasks, FoundEnqueues(t)
    PROVE  WaitInv'
<1> DEFINE k == task[t]
<1>1. /\ k.kind # "none" /\ k.at = "decide" /\ task' = [task EXCEPT ![t] = Done]
      /\ UNCHANGED <<sync, up>>
    BY DEF FoundEnqueues, Step
<1>2. k.row \in Rows /\ title[k.row] # NoTitle
    BY <1>1, TaskIs DEF GoodTask
<1>3. CASE Locked
    <2>1. UNCHANGED <<title, active>> /\ excused' = excused \cup WaitedFor(k)
        BY <1>3 DEF FoundEnqueues
    <2>2. ASSUME NEW r \in Awaiting \ excused', WatchesFor(k, r, title[r].path) PROVE FALSE
        BY <2>1, <2>2 DEF WatchesFor, WaitedFor, Awaiting
    <2> QED
        BY <1>1, <2>1, <2>2, DoneWaits, TaskOnlyWaits
<1>4. CASE ~Locked
    <2>1. EnqueueIfNotActive(k.row) /\ UNCHANGED excused
        BY <1>4 DEF FoundEnqueues
    <2>2. /\ Unique(title') /\ active \subseteq active' /\ k.row \in active'
          /\ \A q \in Rows : title'[q].path = title[q].path
          /\ \A q \in Rows : title'[q].status = "awaiting_subtitle" => title[q].status = "awaiting_subtitle"
        BY <1>2, <2>1, EnqueueWaits
    <2>3. \A r \in Rows : WatchesFor(k, r, title[r].path) => r \in active'
        BY <1>1, <2>2 DEF WatchesFor
    <2>4. GoodSearch(Done, title', excused')
        BY TaskFields DEF GoodSearch
    <2> QED
        BY <1>1, <1>4, <2>1, <2>2, <2>3, <2>4, TaskWaits
<1> QED
    BY <1>3, <1>4

LEMMA LookWaits ==
    ASSUME IInv, WaitInv, NEW t \in Tasks, PollLook(t)
    PROVE  WaitInv'
<1> DEFINE k == task[t]
<1> DEFINE new == IF k.path \in subs THEN [k EXCEPT !.at = "select"]
                  ELSE IF k.polls + 1 < MaxPolls THEN [k EXCEPT !.polls = k.polls + 1]
                  ELSE [k EXCEPT !.at = "expire", !.polls = 0]
<1>1. /\ k.kind = "poll" /\ k.at = "look" /\ task' = [task EXCEPT ![t] = new]
      /\ UNCHANGED <<title, active, up, sync, excused>>
    BY Zenon DEF PollLook, Step
<1>2. k \in TaskStates /\ k # Done
    BY <1>1, TaskIs
<1>3. new.kind = "poll" /\ new.path = k.path /\ new.at \in {"select", "look", "expire"}
    BY <1>1, <1>2 DEF TaskStates
<1>4. GoodSearch(new, title, excused)
    BY <1>3 DEF GoodSearch
<1>5. \A r, p : WatchesFor(k, r, p) => WatchesFor(new, r, p)
    BY <1>3 DEF WatchesFor
<1> HIDE DEF new
<1> QED
    BY <1>1, <1>4, <1>5, TaskOnlyWaits

LEMMA ExpireWaits ==
    ASSUME IInv, WaitInv, NEW t \in Tasks, PollExpires(t)
    PROVE  WaitInv'
<1> DEFINE k == task[t]
<1> DEFINE mine == {r \in WithPath(title, k.path) : title[r].status = "awaiting_subtitle"}
<1> DEFINE n == CHOOSE r \in mine : TRUE
<1> DEFINE new == [k EXCEPT !.at = "reset", !.row = n]
<1>1. /\ k.kind = "poll" /\ k.at = "expire"
      /\ task' = [task EXCEPT ![t] = IF mine = {} THEN Done ELSE new]
      /\ UNCHANGED <<title, active, up, sync, excused>>
    BY Zenon DEF PollExpires, Step
<1>2. k \in TaskStates /\ k # Done
    BY <1>1, TaskIs
<1>3. ASSUME NEW r \in Awaiting \ excused', WatchesFor(k, r, title[r].path) PROVE r \in mine
    BY <1>3 DEF WatchesFor, Awaiting, WithPath
<1>4. CASE mine = {}
    BY <1>1, <1>3, <1>4, DoneWaits, TaskOnlyWaits
<1>5. CASE mine # {}
    <2>1. n \in mine
        BY <1>5
    <2>2. n \in Rows /\ title[n].path = k.path /\ title[n] # NoTitle
        BY <2>1, RowFields DEF WithPath
    <2>3. new.kind = "poll" /\ new.path = k.path /\ new.at = "reset" /\ new.row = n
        BY <1>1, <1>2 DEF TaskStates
    <2>4. ASSUME NEW r \in Awaiting \ excused', WatchesFor(k, r, title[r].path)
          PROVE  WatchesFor(new, r, title[r].path)
        <3>1. r \in Rows /\ title[r].path = k.path
            BY <2>4 DEF Awaiting, WatchesFor
        <3>2. n = r
            BY <2>2, <3>1 DEF WaitInv, Unique
        <3> QED
            BY <2>3, <3>1, <3>2 DEF WatchesFor
    <2>5. GoodSearch(new, title, excused)
        BY <2>3 DEF GoodSearch
    <2> HIDE DEF new
    <2> QED
        BY <1>1, <1>5, <2>4, <2>5, TaskOnlyWaits
<1> QED
    BY <1>4, <1>5

LEMMA ResetWaits ==
    ASSUME IInv, WaitInv, NEW t \in Tasks, PollResets(t)
    PROVE  WaitInv'
<1> DEFINE k == task[t]
<1>1. /\ k.kind = "poll" /\ k.at = "reset" /\ task' = [task EXCEPT ![t] = Done]
      /\ UNCHANGED <<active, up, sync>>
    BY DEF PollResets, Step
<1>2. k.row \in Rows /\ title[k.row] # NoTitle
    BY <1>1, TaskIs DEF GoodTask
<1>3. CASE Locked
    <2>1. UNCHANGED title /\ excused' = excused \cup {k.row}
        BY <1>3 DEF PollResets
    <2>2. ASSUME NEW r \in Awaiting \ excused', WatchesFor(k, r, title[r].path) PROVE FALSE
        BY <1>1, <2>1, <2>2 DEF WatchesFor
    <2> QED
        BY <1>1, <2>1, <2>2, DoneWaits, TaskOnlyWaits
<1>4. CASE ~Locked
    <2>1. title' = [title EXCEPT ![k.row].status = "idle"] /\ UNCHANGED excused
        BY <1>4 DEF PollResets
    <2>2. /\ Unique(title')
          /\ \A q \in Rows : title'[q].path = title[q].path
          /\ \A q \in Rows \ {k.row} : title'[q].status = title[q].status
          /\ title'[k.row].status = "idle"
        BY <1>2, <2>1, StatusWaits
    <2>3. \A r \in Rows : title'[r].status = "awaiting_subtitle" => ~WatchesFor(k, r, title[r].path)
        BY <1>1, <2>2 DEF WatchesFor
    <2>4. GoodSearch(Done, title', excused')
        BY TaskFields DEF GoodSearch
    <2>5. \A r \in Rows : title'[r].status = "awaiting_subtitle" => title[r].status = "awaiting_subtitle"
        BY <2>2
    <2> QED
        BY <1>1, <1>4, <2>1, <2>2, <2>3, <2>4, <2>5, TaskWaits
<1> QED
    BY <1>3, <1>4

\* The two buttons: what they begin goes on with the path the row had.
LEMMA SearchingWaits ==
    ASSUME IInv, WaitInv, NEW t \in Tasks, NEW r \in Rows, SearchSubtitle(t, r) \/ SearchReplacement(t, r)
    PROVE  WaitInv'
<1> DEFINE new(kind) == [Done EXCEPT !.kind = kind, !.at = "asked", !.row = r,
                                     !.item = title[r].item, !.path = title[r].path]
<1>1. /\ task[t] = Done /\ UNCHANGED <<title, active, excused, up>>
      /\ sync' = [sync EXCEPT !.quiet = FALSE]
    BY DEF SearchSubtitle, SearchReplacement
<1>2. PICK kind \in {"search", "replace"} : task' = [task EXCEPT ![t] = new(kind)]
    BY Zenon DEF SearchSubtitle, SearchReplacement
<1>3. new(kind).row = r /\ new(kind).path = title[r].path
    BY DEF Done
<1>4. GoodSearch(new(kind), title, excused)
    BY <1>3 DEF GoodSearch
<1> HIDE DEF new
<1> QED
    BY <1>1, <1>2, <1>4, DoneWaits, TaskOnlyWaits

LEMMA SearchEndWaits ==
    ASSUME IInv, WaitInv, NEW t \in Tasks, SearchEnds(t)
    PROVE  WaitInv'
<1> DEFINE k == task[t]
<1>1. k.kind = "search" /\ k.at = "asked" /\ UNCHANGED <<sync, excused, up>>
    BY DEF SearchEnds, Step
<1>2. k \in TaskStates /\ k # Done /\ k.row \in Rows /\ title[k.row] # NoTitle
    BY <1>1, TaskIs DEF GoodTask
<1>3. \A r \in Rows : ~WatchesFor(k, r, title[r].path)
    BY <1>1 DEF WatchesFor
<1>4. CASE ~Locked /\ Enqueue(k.row) /\ task' = [task EXCEPT ![t] = Done]
    <2>1. /\ Unique(title') /\ active \subseteq active'
          /\ \A q \in Rows : title'[q].path = title[q].path
          /\ \A q \in Rows : title'[q].status = "awaiting_subtitle" => title[q].status = "awaiting_subtitle"
        BY <1>2, <1>4, EnqueueWaits
    <2>2. GoodSearch(Done, title', excused')
        BY TaskFields DEF GoodSearch
    <2> QED
        BY <1>1, <1>3, <1>4, <2>1, <2>2, TaskWaits
<1>5. CASE /\ ~Locked /\ title' = [title EXCEPT ![k.row].status = "awaiting_subtitle"]
           /\ task' = [task EXCEPT ![t].kind = "poll", ![t].at = "look", ![t].row = None]
           /\ UNCHANGED active
    <2> DEFINE new == [k EXCEPT !.kind = "poll", !.at = "look", !.row = None]
    <2>1. task' = [task EXCEPT ![t] = new]
        BY <1>5
    <2>2. new.kind = "poll" /\ new.at = "look" /\ new.path = k.path
        BY <1>2 DEF TaskStates
    <2>3. GoodSearch(new, title', excused')
        BY <2>2 DEF GoodSearch
    <2>4. /\ Unique(title')
          /\ \A q \in Rows : title'[q].path = title[q].path
          /\ \A q \in Rows \ {k.row} : title'[q].status = title[q].status
        BY <1>2, <1>5, StatusWaits
    <2>5. k.row \in excused \/ title[k.row].path = k.path
        BY <1>1 DEF WaitInv, GoodSearch
    <2>6. ASSUME NEW r \in Rows, title'[r].status = "awaiting_subtitle", r \notin excused'
          PROVE  title[r].status = "awaiting_subtitle" \/ WatchesFor(new, r, title'[r].path)
        <3>1. CASE r = k.row
            BY <1>1, <2>2, <2>4, <2>5, <2>6, <3>1 DEF WatchesFor
        <3> QED
            BY <2>4, <2>6, <3>1
    <2> HIDE DEF new
    <2> QED
        BY <1>1, <1>3, <1>5, <2>1, <2>3, <2>4, <2>6, TaskWaits
<1>6. CASE UNCHANGED <<title, active>> /\ task' = [task EXCEPT ![t] = Done]
    BY <1>1, <1>3, <1>6, DoneWaits, TaskOnlyWaits DEF Awaiting
<1> QED
    BY <1>4, <1>5, <1>6 DEF SearchEnds

LEMMA AskedWaits ==
    ASSUME IInv, WaitInv, NEW t \in Tasks, ReplacementAsked(t)
    PROVE  WaitInv'
<1> DEFINE k == task[t]
<1>1. /\ k.kind = "replace" /\ k.at = "asked" /\ task' = [task EXCEPT ![t] = Done]
      /\ UNCHANGED <<sync, excused, active, up>>
    BY DEF ReplacementAsked, Step
<1>2. k.row \in Rows /\ title[k.row] # NoTitle
    BY <1>1, TaskIs DEF GoodTask
<1>3. \A r \in Rows : ~WatchesFor(k, r, title[r].path)
    BY <1>1 DEF WatchesFor
<1>4. CASE UNCHANGED title
    BY <1>1, <1>3, <1>4, DoneWaits, TaskOnlyWaits DEF Awaiting
<1>5. CASE ~Locked /\ title' = [title EXCEPT ![k.row].status = "awaiting_mkv"]
    <2>1. /\ Unique(title')
          /\ \A q \in Rows : title'[q].path = title[q].path
          /\ \A q \in Rows \ {k.row} : title'[q].status = title[q].status
          /\ title'[k.row].status = "awaiting_mkv"
        BY <1>2, <1>5, StatusWaits
    <2>2. GoodSearch(Done, title', excused')
        BY TaskFields DEF GoodSearch
    <2>3. \A r \in Rows : title'[r].status = "awaiting_subtitle" => title[r].status = "awaiting_subtitle"
        BY <2>1
    <2> QED
        BY <1>1, <1>3, <1>5, <2>1, <2>2, <2>3, TaskWaits
<1> QED
    BY <1>4, <1>5 DEF ReplacementAsked

\* Steps that neither write a title nor end a task.
LEMMA OthersWait ==
    ASSUME IInv, WaitInv, UNCHANGED <<title, active, task, excused, up>>, DraftWaits(title, sync')
    PROVE  WaitInv'
BY WaitMoves DEF WaitInv

LEMMA QuietWaits ==
    ASSUME IInv, WaitInv, UNCHANGED <<title, active, task, excused, up>>, sync'.draft = sync.draft
    PROVE  WaitInv'
BY OthersWait DEF WaitInv, DraftWaits

LEMMA WorldWaits ==
    ASSUME IInv, WaitInv,
           \/ \E f \in Files : Import(f) \/ SubtitleArrives(f)
           \/ \E r \in Rows : WatchBegins(r)
           \/ SyncBegins
    PROVE  WaitInv'
<1>1. UNCHANGED <<title, active, task, excused, up>>
    BY DEF Import, SubtitleArrives, WatchBegins, SyncBegins
<1>2. sync'.draft = sync.draft
    BY Records DEF Import, SubtitleArrives, WatchBegins, SyncBegins, Syncs
<1> QED
    BY <1>1, <1>2, QuietWaits

LEMMA JobEndWaits ==
    ASSUME IInv, WaitInv, NEW r \in Rows, JobEnds(r)
    PROVE  WaitInv'
<1>1. /\ r \in active /\ ~Locked /\ active' = active \ {r}
      /\ title' = [title EXCEPT ![r].status = "idle"]
      /\ UNCHANGED <<task, sync, excused, up>>
    BY DEF JobEnds
<1>2. title[r] # NoTitle
    BY <1>1 DEF IInv, Surroundings
<1>3. /\ Unique(title')
      /\ \A q \in Rows : title'[q].path = title[q].path
      /\ \A q \in Rows \ {r} : title'[q].status = title[q].status
      /\ title'[r].status = "idle"
    BY <1>1, <1>2, StatusWaits
<1>4. DraftWaits(title', sync')
    BY <1>1 DEF DraftWaits, Locked
<1>5. \A q \in Rows : title'[q].status = "awaiting_subtitle" =>
          title[q].status = "awaiting_subtitle" /\ (q \in active => q \in active')
    BY <1>1, <1>3
<1> QED
    BY <1>1, <1>3, <1>4, <1>5, WaitMoves

\* The replacement lands: the row moves, and is excused or gets a poller of its own.
LEMMA WatchEndWaits ==
    ASSUME IInv, WaitInv, WatchEnds
    PROVE  WaitInv'
<1> DEFINE n == watch.row
<1> DEFINE new == arr[watch.saw.item]
<1> DEFINE after(status) == [title EXCEPT ![n].path = new, ![n].status = status]
<1>1. n \in Rows /\ title[n] \in Titles /\ title[n] # NoTitle /\ watch.saw.item \in Items
    BY Records DEF WatchEnds, IInv, GoodWatch
<1>2. excused' = excused \cup Moved(title') /\ UNCHANGED <<sync, up>>
    BY DEF WatchEnds
<1>3. \A r \in Rows : title[r] # NoTitle /\ r \notin excused' => title'[r].path = title[r].path
    BY <1>2 DEF Moved
<1>4. title \in Tables /\ task \in [Tasks -> TaskStates]
    BY DEF IInv, Surroundings, TypeOK, Tables
<1>5. ASSUME NEW s, Unique(after("queued")), title' = after(s)
      PROVE  /\ Unique(title') /\ title'[n].status = s /\ title'[n].path = new
             /\ \A q \in Rows \ {n} : title'[q] = title[q]
    <2> DEFINE put(x) == [title[n] EXCEPT !.path = new, !.status = x]
    <2>1. after("queued") = [title EXCEPT ![n] = put("queued")] /\ after(s) = [title EXCEPT ![n] = put(s)]
        BY <1>1, <1>4
    <2>2. \A x : put(x).path = new /\ put(x).status = x
        BY <1>1 DEF Titles
    <2> HIDE DEF put, after
    <2>3. /\ \A q \in Rows \ {n} : after("queued")[q] = title[q] /\ title'[q] = title[q]
          /\ after("queued")[n] = put("queued") /\ title'[n] = put(s)
        BY <1>1, <1>4, <1>5, <2>1 DEF Tables
    <2>4. put("queued") # NoTitle
        BY <2>2, RowFields
    <2>5. Unique(title')
        <3> SUFFICES ASSUME NEW r \in Rows, NEW q \in Rows, r # q, title'[r] # NoTitle
                     PROVE  title'[r].path # title'[q].path
            BY DEF Unique
        <3>1. after("queued")[r] # NoTitle
            BY <2>3, <2>4
        <3>2. after("queued")[r].path # after("queued")[q].path
            BY <1>5, <3>1 DEF Unique
        <3> QED
            BY <2>2, <2>3, <3>2
    <2> QED
        BY <2>2, <2>3, <2>5
<1>6. CASE UNCHANGED <<title, active, task>>
    <2>1. DraftWaits(title', sync') /\ Unique(title')
        BY <1>2, <1>6 DEF WaitInv, DraftWaits
    <2> QED
        BY <1>2, <1>3, <1>6, <2>1, WaitMoves
<1>7. CASE /\ Unique(after("queued")) /\ ~Locked /\ title' = after("queued")
           /\ active' = active \cup {n} /\ UNCHANGED task
    <2>1. /\ Unique(title') /\ title'[n].status = "queued"
          /\ \A q \in Rows \ {n} : title'[q] = title[q]
        BY <1>5, <1>7
    <2>2. DraftWaits(title', sync')
        BY <1>2, <1>7 DEF DraftWaits, Locked
    <2>3. \A q \in Rows : title'[q].status = "awaiting_subtitle" =>
              title[q].status = "awaiting_subtitle" /\ (q \in active => q \in active')
        BY <1>7, <2>1
    <2> QED
        BY <1>2, <1>3, <1>7, <2>1, <2>2, <2>3, WaitMoves
<1>8. ASSUME Unique(after("queued")), ~Locked, title' = after("awaiting_subtitle"), UNCHANGED active,
             NEW t \in Tasks, task[t] = Done,
             task' = [task EXCEPT ![t] = [Done EXCEPT !.kind = "poll", !.at = "look",
                                             !.item = watch.saw.item, !.path = new]]
      PROVE  WaitInv'
    <2> DEFINE k == [Done EXCEPT !.kind = "poll", !.at = "look",
                                 !.item = watch.saw.item, !.path = new]
    <2>1. k.kind = "poll" /\ k.at = "look" /\ k.path = new /\ task' = [task EXCEPT ![t] = k]
        BY <1>8 DEF Done
    <2>2. /\ Unique(title') /\ title'[n].path = new
          /\ \A q \in Rows \ {n} : title'[q] = title[q]
        BY <1>5, <1>8
    <2>3. \A r \in Rows : title'[r].status = "awaiting_subtitle" =>
              title[r].status = "awaiting_subtitle" \/ WatchesFor(k, r, title'[r].path)
        BY <2>1, <2>2 DEF WatchesFor
    <2>4. GoodSearch(k, title', excused')
        BY <2>1 DEF GoodSearch
    <2> HIDE DEF k, after
    <2> QED
        BY <1>2, <1>3, <1>8, <2>1, <2>2, <2>3, <2>4, DoneWaits, TaskWaits
<1> HIDE DEF after
<1> QED
    BY <1>6, <1>7, <1>8, Zenon DEF WatchEnds, after

LEMMA ViewWaits ==
    ASSUME IInv, WaitInv
    PROVE  /\ Unique(SyncView)
           /\ \A r \in Rows : SyncView[r].status = "awaiting_subtitle" => title[r].status = "awaiting_subtitle"
BY DEF WaitInv, DraftWaits, SyncView, Locked

LEMMA FlushWaits ==
    ASSUME IInv, WaitInv, SyncFlush
    PROVE  WaitInv'
<1> DEFINE after == Upserted(SyncView, sync.row, sync.saw, sync.entry[1], sync.entry[2])
<1>1. UNCHANGED <<title, active, task, excused, up>> /\ sync.at = "flush" /\ sync \in Syncs
    BY Records DEF SyncFlush
<1>2. CASE ~Unique(after)
    <2>1. sync' = SyncIdle
        BY <1>2 DEF SyncFlush
    <2>2. sync'.draft = None
        BY <1>1, <2>1 DEF SyncIdle, Syncs
    <2> QED
        BY <1>1, <2>2, OthersWait DEF DraftWaits
<1>3. CASE Unique(after)
    <2>1. sync' = [sync EXCEPT !.at = "next", !.entry = None, !.row = None, !.saw = NoTitle,
                               !.draft = IF after = SyncView THEN @ ELSE after]
        BY <1>3 DEF SyncFlush
    <2>2. sync'.draft = sync.draft \/ sync'.draft = after
        BY <1>1, <2>1 DEF Syncs
    <2>3. /\ GoodRows(SyncView) /\ Fits(sync.entry[1], sync.entry[2])
          /\ GoodWrite(SyncView, sync.row, sync.saw, sync.entry[1], sync.entry[2])
          /\ sync.row \in Rows \cup {None} /\ sync.saw \in Titles \cup {NoTitle}
          /\ CanWrite(SyncView, sync.row)
        BY <1>1 DEF IInv, GoodSync, SyncView, Locked, SyncFlush, Syncs
    <2>4. \A q \in Rows : after[q].status = "awaiting_subtitle" => SyncView[q].status = "awaiting_subtitle"
        BY <2>3, WriteWaits
    <2>5. CASE sync'.draft = after
        <3>1. DraftWaits(title, sync')
            BY <1>3, <2>4, <2>5, ViewWaits DEF DraftWaits
        <3> QED
            BY <1>1, <3>1, OthersWait
    <2> QED
        BY <1>1, <2>2, <2>5, QuietWaits
<1> QED
    BY <1>2, <1>3

LEMMA SyncWaits ==
    ASSUME IInv, WaitInv, SyncSelect \/ SyncCommit
    PROVE  WaitInv'
<1>1. UNCHANGED <<active, task, up>> /\ sync \in Syncs
    BY Records DEF SyncSelect, SyncCommit
<1>2. CASE SyncSelect
    <2>1. UNCHANGED <<title, excused>>
        BY <1>2 DEF SyncSelect
    <2>2. sync'.draft = None \/ sync'.draft = sync.draft
        BY <1>1, <1>2 DEF SyncSelect, SyncIdle, Syncs
    <2>3. CASE sync'.draft = None
        BY <1>1, <2>1, <2>3, OthersWait DEF DraftWaits
    <2> QED
        BY <1>1, <2>1, <2>2, <2>3, QuietWaits
<1>3. CASE SyncCommit
    <2>1. title' = SyncView /\ excused' = excused \cup Moved(SyncView) /\ sync' = SyncIdle
        BY <1>3 DEF SyncCommit
    <2>2. sync'.draft = None
        BY <1>1, <2>1 DEF SyncIdle, Syncs
    <2>3. DraftWaits(title', sync')
        BY <2>2 DEF DraftWaits
    <2>4. \A r \in Rows : title[r] # NoTitle /\ r \notin excused' => title'[r].path = title[r].path
        BY <2>1 DEF Moved
    <2> QED
        BY <1>1, <2>1, <2>3, <2>4, ViewWaits, WaitMoves
<1> QED
    BY <1>2, <1>3

\* A start brings every poller back.
LEMMA RestartWaits ==
    ASSUME IInv, WaitInv, Crash \/ Restart
    PROVE  WaitInv'
<1>1. CASE Crash
    <2>1. up' = FALSE /\ task' = [t \in Tasks |-> Done] /\ sync' = SyncIdle /\ UNCHANGED title
        BY <1>1 DEF Crash
    <2>2. sync'.draft = None
        BY <2>1, Records DEF SyncIdle, Syncs
    <2> QED
        BY <2>1, <2>2, DoneWaits DEF WaitInv, DraftWaits
<1>2. CASE Restart
    <2> DEFINE poll(r) == [Done EXCEPT !.kind = "poll", !.at = "look",
                                       !.item = title[r].item, !.path = title[r].path]
    <2>1. PICK runs \in [Awaiting -> Tasks] :
             /\ \A r, q \in Awaiting : runs[r] = runs[q] => r = q
             /\ task' = [t \in Tasks |->
                   IF \E r \in Awaiting : runs[r] = t
                   THEN poll(CHOOSE q \in Awaiting : runs[q] = t)
                   ELSE Done]
        BY <1>2, Zenon DEF Restart
    <2>2. \A r : poll(r).kind = "poll" /\ poll(r).at = "look" /\ poll(r).path = title[r].path
        BY DEF Done
    <2>3. UNCHANGED <<title, active, sync>>
        BY <1>2 DEF Restart
    <2> HIDE DEF poll
    <2>4. ASSUME NEW t \in Tasks PROVE GoodSearch(task'[t], title', excused')
        BY <2>1, <2>2, DoneWaits DEF GoodSearch
    <2>5. ASSUME NEW r \in Awaiting PROVE Watched(r)'
        <3>1. runs[r] \in Tasks /\ (CHOOSE q \in Awaiting : runs[q] = runs[r]) = r
            BY <2>1
        <3>2. task'[runs[r]] = poll(r)
            BY <2>1, <3>1
        <3>3. WatchesFor(task'[runs[r]], r, title'[r].path)
            BY <2>2, <2>3, <3>2 DEF WatchesFor
        <3> QED
            BY <3>1, <3>3 DEF Watched
    <2>6. Awaiting' = Awaiting
        BY <2>3 DEF Awaiting
    <2> QED
        BY <2>3, <2>4, <2>5, <2>6 DEF WaitInv, DraftWaits
<1> QED
    BY <1>1, <1>2

LEMMA InitWaits == Init => WaitInv
<1> SUFFICES ASSUME Init PROVE WaitInv
    OBVIOUS
<1> DEFINE first(n) == [item |-> Library[n], path |-> FirstFile[Library[n]], status |-> "idle"]
<1>1. \A r \in Rows : title[r] = IF r \in DOMAIN Library THEN first(r) ELSE NoTitle
    BY DEF Init
<1>2. \A n : first(n).status = "idle" /\ first(n).path = FirstFile[Library[n]]
    OBVIOUS
<1> HIDE DEF first
<1>3. \A r \in Rows : title[r].status # "awaiting_subtitle"
    BY <1>1, <1>2, RowFields
<1>4. ASSUME NEW r \in Rows, NEW q \in Rows, r # q, title[r] # NoTitle PROVE title[r].path # title[q].path
    <2>1. r \in DOMAIN Library /\ title[r].path = FirstFile[Library[r]]
        BY <1>1, <1>2, <1>4
    <2>2. \A n \in DOMAIN Library :
             FirstFile[Library[n]] \in Files /\ Holds[FirstFile[Library[n]]] = {Library[n]}
        BY SyncAssumption DEF Known
    <2>3. CASE q \in DOMAIN Library
        <3>1. title[q].path = FirstFile[Library[q]] /\ Library[q] # Library[r]
            BY <1>1, <1>2, <1>4, <2>1, <2>3, SyncAssumption
        <3> QED
            BY <2>1, <2>2, <2>3, <3>1
    <2>4. CASE q \notin DOMAIN Library
        BY <1>1, <2>1, <2>2, <2>4, RowFields, Constants
    <2> QED
        BY <2>3, <2>4
<1>5. Unique(title) /\ DraftWaits(title, sync)
    BY <1>4 DEF Unique, DraftWaits, Init, NoSync
<1>6. \A t \in Tasks : GoodSearch(task[t], title, excused)
    BY DoneWaits DEF Init
<1> QED
    BY <1>3, <1>5, <1>6 DEF WaitInv, Awaiting

LEMMA NextWaits ==
    ASSUME IInv, WaitInv, [Next]_vars
    PROVE  WaitInv'
<1>1. ASSUME NEW f \in Files, Import(f) \/ SubtitleArrives(f) PROVE WaitInv'
    BY <1>1, WorldWaits
<1>2. ASSUME NEW t \in Tasks, NEW h \in hooks, Deliver(t, h) PROVE WaitInv'
    BY <1>2, DeliverWaits
<1>3. ASSUME NEW t \in Tasks, TaskStep(t) PROVE WaitInv'
    BY <1>3, SelectWaits, WritingWaits, DecidingWaits, FoundWaits, LookWaits, ExpireWaits,
       ResetWaits, SearchEndWaits, AskedWaits DEF TaskStep
<1>4. ASSUME NEW t \in Tasks, NEW r \in Rows, SearchSubtitle(t, r) \/ SearchReplacement(t, r)
      PROVE  WaitInv'
    BY <1>4, SearchingWaits
<1>5. ASSUME NEW r \in Rows, JobEnds(r) \/ WatchBegins(r) PROVE WaitInv'
    BY <1>5, JobEndWaits, WorldWaits
<1>6. CASE WatchEnds
    BY <1>6, WatchEndWaits
<1>7. CASE SyncBegins \/ SyncStep
    BY <1>7, WorldWaits, SyncWaits, FlushWaits DEF SyncStep
<1>8. CASE Crash \/ Restart
    BY <1>8, RestartWaits
<1>9. CASE UNCHANGED vars
    <2>1. UNCHANGED <<title, active, task, excused, up, sync>>
        BY <1>9 DEF vars
    <2> QED
        BY <2>1, QuietWaits
<1> QED
    BY <1>1, <1>2, <1>3, <1>4, <1>5, <1>6, <1>7, <1>8, <1>9 DEF Next

\* A title that waits for its subtitle has a poller for the file it has now, or a job: no
\* order of imports, webhooks, searches, landed replacements, syncs and restarts leaves it
\* waiting for nobody, unless its file moved or its poller died of an error since the start.
THEOREM WaitingHasPoller == Spec => []WaitingIsWatched
<1>1. WaitInv => WaitingIsWatched
    BY DEF WaitInv, WaitingIsWatched, Watched, WatchesFor
<1>2. IInv /\ WaitInv /\ [Next]_vars => WaitInv'
    BY NextWaits
<1>3. Spec => []IInv
    BY InvHolds
<1> QED
    BY <1>1, <1>2, <1>3, InitWaits, PTL DEF Spec

---------------------------------------------------------------------------
(* A sync that nothing disturbs lists everything *)

View(t, s) == IF s.draft # None THEN s.draft ELSE t

\* The items whose entry the sync s has flushed, when Sonarr has the files a.
Visited(a, s) ==
    {i \in Items : /\ a[i] # None /\ <<i, a[i]>> \notin s.todo
                   /\ ~(s.at = "flush" /\ s.entry = <<i, a[i]>>)}

HasTitle(v, a, i) == \E r \in WithPath(v, a[i]) : v[r].item # None /\ a[v[r].item] = a[i]

\* What a select leaves for its write.
Chosen(v, row, saw, i, p) ==
    /\ row = None => Found(v, i, p) = {}
    /\ row # None => row \in Found(v, i, p) /\ saw.item = v[row].item /\ saw.path = v[row].path

\* Rows that are as they were when the sync began, or as Sonarr has them.
Repaired(t, v, a, D) ==
    /\ \A i \in D : HasTitle(v, a, i)
    /\ \A r \in Rows : \/ v[r].item = t[r].item /\ v[r].path = t[r].path
                       \/ v[r].item \in D /\ v[r].path = a[v[r].item]

\* A sync under way in which nobody else writes.
Repairing(t, a, s) ==
    /\ \A e \in s.todo : e \in Entries /\ e[2] = a[e[1]]
    /\ Repaired(t, View(t, s), a, Visited(a, s))
    /\ s.at = "flush" => /\ s.entry \in Entries \ s.todo /\ s.entry[2] = a[s.entry[1]]
                         /\ Chosen(View(t, s), s.row, s.saw, s.entry[1], s.entry[2])

RepairInv ==
    /\ sync.at = "idle" => sync.draft = None
    /\ sync.quiet => up /\ watch = NoWatch /\ \A t \in Tasks : task[t] = Done
    /\ sync.quiet /\ sync.at # "idle" => Repairing(title, arr, sync)

LEMMA ViewIs ==
    ASSUME IInv, WaitInv
    PROVE  /\ SyncView = View(title, sync)
           /\ title \in Tables /\ SyncView \in Tables /\ Unique(SyncView)
           /\ arr \in [Items -> Files \cup {None}] /\ sync \in Syncs
<1>1. SyncView = View(title, sync)
    BY DEF SyncView, View, Locked
<1>2. sync \in Syncs /\ title \in Tables /\ arr \in [Items -> Files \cup {None}]
    BY Records DEF IInv, GoodRows, Surroundings, TypeOK
<1> QED
    BY <1>1, <1>2, ViewWaits DEF View, Syncs

\* A row that has an item that was not visited had it when the sync began.
LEMMA UnvisitedRows ==
    ASSUME NEW t, NEW v, NEW a, NEW D, Repaired(t, v, a, D), NEW i \in Items \ D, NEW r \in WithItem(v, i)
    PROVE  r \in Rows /\ r \in WithItem(t, i) /\ t[r].path = v[r].path
BY DEF Repaired, WithItem

\* The sync adds no second row to an item.
LEMMA StaysAmbiguous ==
    ASSUME NEW t, NEW v, NEW a, NEW D, Repaired(t, v, a, D), NEW i \in Items \ D, Ambiguous(v, i)
    PROVE  Ambiguous(t, i)
<1>1. WithItem(v, i) \subseteq WithItem(t, i)
    BY UnvisitedRows
<1>2. IsFiniteSet(Rows) /\ WithItem(t, i) \subseteq Rows
    BY SyncAssumption, FS_Interval DEF Rows, WithItem
<1>3. IsFiniteSet(WithItem(t, i))
    BY <1>2, FS_Subset
<1>4. /\ IsFiniteSet(WithItem(v, i)) /\ Cardinality(WithItem(v, i)) <= Cardinality(WithItem(t, i))
      /\ Cardinality(WithItem(v, i)) \in Nat /\ Cardinality(WithItem(t, i)) \in Nat
    BY <1>1, <1>3, FS_Subset, FS_CardinalityType
<1> QED
    BY <1>4 DEF Ambiguous

\* What the flush of an entry leaves: the row of the item, with its file.
LEMMA FlushedRow ==
    ASSUME NEW v \in Tables, NEW i \in Items, NEW p \in Files, NEW row \in Rows \cup {None}, NEW saw,
           Chosen(v, row, saw, i, p), CanWrite(v, row),
           NEW n, n = Target(v, row), NEW u, u = Upserted(v, row, saw, i, p)
    PROVE  /\ n \in Rows /\ u \in Tables /\ \A q \in Rows \ {n} : u[q] = v[q]
           /\ u[n].item = i /\ u[n].path = p
           /\ row = None => v[n] = NoTitle /\ WithPath(v, p) = {}
           /\ row # None => v[n] # NoTitle /\ (v[n].item = i \/ v[n].path = p)
<1> DEFINE new == Merged(v, row, saw, i, p)
<1>1. /\ n \in Rows /\ (row # None => n = row) /\ (row = None => v[n] = NoTitle)
      /\ u = [v EXCEPT ![n] = new]
    BY TargetIs DEF Upserted
<1>2. i # None /\ p # None
    BY Constants
<1>3. CASE row = None
    <2>1. new = [item |-> i, path |-> p, status |-> "idle"] /\ new \in Titles
        BY <1>3 DEF Merged, Titles, Statuses
    <2>2. new.item = i /\ new.path = p
        BY <2>1
    <2>3. WithPath(v, p) = {}
        BY <1>3 DEF Chosen, Found
    <2> HIDE DEF new
    <2> QED
        BY <1>1, <1>3, <2>1, <2>2, <2>3 DEF Tables
<1>4. CASE row # None
    <2>1. n = row /\ n \in Found(v, i, p) /\ saw.item = v[n].item /\ saw.path = v[n].path
        BY <1>1, <1>4 DEF Chosen
    <2>2. v[n].item = i \/ v[n].path = p
        BY <2>1 DEF Found, WithItem, WithPath
    <2>3. v[n] \in Titles
        BY <1>1, <1>2, <2>2, RowFields DEF Tables
    <2>4. new = [v[n] EXCEPT !.path = IF saw.path # p THEN p ELSE @,
                             !.item = IF i # None /\ saw.item # i THEN i ELSE @]
        BY <1>4, <2>1 DEF Merged
    <2>5. new \in Titles /\ new.item = i /\ new.path = p
        BY <1>2, <2>1, <2>3, <2>4 DEF Titles
    <2> HIDE DEF new
    <2> QED
        BY <1>1, <1>4, <2>2, <2>3, <2>5, RowFields DEF Tables
<1> QED
    BY <1>3, <1>4

\* A flush that keeps the paths apart repairs one item more.
LEMMA FlushRepairs ==
    ASSUME NEW t, NEW v \in Tables, NEW a \in [Items -> Files \cup {None}],
           NEW D \in SUBSET Items, Repaired(t, v, a, D), \A j \in D : a[j] # None,
           NEW i \in Items, a[i] # None,
           NEW n \in Rows, NEW u \in Tables, \A q \in Rows \ {n} : u[q] = v[q],
           u[n].item = i, u[n].path = a[i],
           v[n] = NoTitle \/ v[n].item = i \/ v[n].path = a[i]
    PROVE  Repaired(t, u, a, D \cup {i})
<1>1. i # None
    BY Constants
<1>2. HasTitle(u, a, i)
    BY <1>1 DEF HasTitle, WithPath
<1>3. ASSUME NEW j \in D PROVE HasTitle(u, a, j)
    <2>1. PICK r \in Rows : v[r].path = a[j] /\ v[r].item # None /\ a[v[r].item] = a[j]
        BY DEF Repaired, HasTitle, WithPath
    <2>2. CASE r = n
        <3>1. v[n] # NoTitle
            BY <2>1, <2>2, RowFields
        <3>2. a[i] = a[j]
            BY <2>1, <2>2, <3>1
        <3> QED
            BY <1>2, <3>2 DEF HasTitle
    <2>3. CASE r # n
        BY <2>1, <2>3 DEF HasTitle, WithPath
    <2> QED
        BY <2>2, <2>3
<1> QED
    BY <1>2, <1>3 DEF Repaired

\* One that does not finds the file of its item with another row, which had it before the
\* sync or has got it from another item.
LEMMA FlushBlocked ==
    ASSUME NEW t, NEW v \in Tables, Unique(v), arr \in [Items -> Files \cup {None}],
           NEW D \in SUBSET Items, Repaired(t, v, arr, D),
           NEW i \in Items \ D, arr[i] # None,
           NEW n \in Rows, NEW u \in Tables, \A q \in Rows \ {n} : u[q] = v[q],
           u[n].item = i, u[n].path = arr[i],
           v[n] = NoTitle => WithPath(v, arr[i]) = {},
           v[n] = NoTitle \/ v[n].item = i \/ v[n].path = arr[i],
           ~Unique(u)
    PROVE  Blocked(t)
<1>1. i # None /\ arr[i] \in Files
    BY Constants
<1>2. PICK q \in Rows \ {n} : v[q].path = arr[i]
    <2>1. PICK r \in Rows, q \in Rows : r # q /\ u[r] # NoTitle /\ u[r].path = u[q].path
        BY DEF Unique
    <2>2. CASE r # n /\ q # n
        BY <2>1, <2>2 DEF Unique
    <2> QED
        BY <2>1, <2>2
<1>3. v[q] # NoTitle /\ v[n] # NoTitle /\ v[n].path # arr[i]
    BY <1>1, <1>2, RowFields DEF Unique, WithPath
<1>4. n \in WithItem(t, i) /\ t[n].path # arr[i]
    BY <1>1, <1>3, UnvisitedRows DEF WithItem
<1>5. CASE v[q].path = t[q].path
    <2>1. q \in WithPath(t, arr[i]) /\ n # q
        BY <1>2, <1>5 DEF WithPath
    <2> QED
        BY <1>4, <2>1 DEF Blocked
<1>6. CASE v[q].item \in D /\ v[q].path = arr[v[q].item]
    <2>1. v[q].item \in Items \ {i} /\ arr[v[q].item] = arr[i]
        BY <1>2, <1>6
    <2> QED
        BY <1>4, <2>1 DEF Blocked
<1> QED
    BY <1>5, <1>6 DEF Repaired

LEMMA BeginRepairs ==
    ASSUME IInv, WaitInv, RepairInv, SyncBegins
    PROVE  RepairInv'
<1> DEFINE all == {<<i, arr[i]>> : i \in {j \in Items : arr[j] # None}}
<1>1. /\ sync.at = "idle" /\ sync.draft = None /\ up /\ sync \in Syncs
      /\ arr \in [Items -> Files \cup {None}]
      /\ sync' = [sync EXCEPT !.at = "next", !.runs = @ + 1, !.todo = all,
                              !.quiet = watch = NoWatch /\ \A t \in Tasks : task[t] = Done]
      /\ UNCHANGED <<arr, title, task, watch, up>>
    BY ViewIs DEF SyncBegins, RepairInv, env
<1>2. /\ sync'.at = "next" /\ sync'.todo = all /\ sync'.draft = None
      /\ sync'.quiet <=> (watch = NoWatch /\ \A t \in Tasks : task[t] = Done)
    BY <1>1 DEF Syncs
<1>3. \A e \in all : e \in Entries /\ e[2] = arr[e[1]]
    BY <1>1 DEF Entries
<1>4. Visited(arr, sync') = {} /\ View(title, sync') = title
    BY <1>2 DEF Visited, View
<1>5. Repairing(title, arr, sync')
    BY <1>2, <1>3, <1>4 DEF Repairing, Repaired
<1> QED
    BY <1>1, <1>2, <1>5 DEF RepairInv

\* What SyncSelect does, told apart.
LEMMA SelectIs ==
    ASSUME IInv, WaitInv, SyncSelect
    PROVE  \E e \in sync.todo :
             /\ e \in Entries
             /\ \/ Ambiguous(SyncView, e[1]) /\ sync'.at = "idle"
                \/ /\ ~Ambiguous(SyncView, e[1])
                   /\ sync'.at = "flush" /\ sync'.todo = sync.todo \ {e} /\ sync'.entry = e
                   /\ sync'.row = RowOf(SyncView, e[1], e[2])
                   /\ sync'.saw = IF sync'.row = None THEN NoTitle ELSE SyncView[sync'.row]
                   /\ sync'.draft = sync.draft /\ sync'.quiet = sync.quiet
<1>1. PICK e \in sync.todo :
         LET r == RowOf(SyncView, e[1], e[2]) IN
         sync' = IF Ambiguous(SyncView, e[1]) THEN SyncIdle
                 ELSE [sync EXCEPT !.at = "flush", !.todo = @ \ {e}, !.entry = e, !.row = r,
                                   !.saw = IF r = None THEN NoTitle ELSE SyncView[r]]
    BY Zenon DEF SyncSelect
<1>2. sync \in Syncs /\ e \in Entries
    BY ViewIs DEF Syncs
<1>3. CASE Ambiguous(SyncView, e[1])
    BY <1>1, <1>2, <1>3 DEF SyncIdle, Syncs
<1>4. CASE ~Ambiguous(SyncView, e[1])
    <2> DEFINE r == RowOf(SyncView, e[1], e[2])
    <2> DEFINE x == IF r = None THEN NoTitle ELSE SyncView[r]
    <2>1. sync' = [sync EXCEPT !.at = "flush", !.todo = @ \ {e}, !.entry = e, !.row = r, !.saw = x]
        BY <1>1, <1>4
    <2> HIDE DEF r, x
    <2>2. /\ sync'.at = "flush" /\ sync'.todo = sync.todo \ {e} /\ sync'.entry = e
          /\ sync'.row = r /\ sync'.saw = x /\ sync'.draft = sync.draft /\ sync'.quiet = sync.quiet
        BY <1>2, <2>1 DEF Syncs
    <2> QED
        BY <1>2, <1>4, <2>2 DEF r, x
<1> QED
    BY <1>3, <1>4

LEMMA SelectRepairs ==
    ASSUME IInv, WaitInv, RepairInv, SyncSelect, sync.quiet
    PROVE  /\ sync'.at = "idle" => Blocked(title)
           /\ sync'.at # "idle" => sync'.quiet /\ Repairing(title, arr, sync')
<1>1. sync.at = "next" /\ Repairing(title, arr, sync)
    BY DEF SyncSelect, RepairInv
<1>2. PICK e \in sync.todo :
             /\ e \in Entries
             /\ \/ Ambiguous(SyncView, e[1]) /\ sync'.at = "idle"
                \/ /\ ~Ambiguous(SyncView, e[1])
                   /\ sync'.at = "flush" /\ sync'.todo = sync.todo \ {e} /\ sync'.entry = e
                   /\ sync'.row = RowOf(SyncView, e[1], e[2])
                   /\ sync'.saw = IF sync'.row = None THEN NoTitle ELSE SyncView[sync'.row]
                   /\ sync'.draft = sync.draft /\ sync'.quiet = sync.quiet
    BY SelectIs
<1> DEFINE i == e[1]
<1> DEFINE D == Visited(arr, sync)
<1>3. /\ i \in Items /\ e = <<i, arr[i]>> /\ e[2] = arr[i] /\ arr[i] \in Files /\ arr[i] # None
    BY <1>1, <1>2, Constants DEF Repairing, Entries
<1>4. i \notin D /\ Repaired(title, SyncView, arr, D)
    BY <1>1, <1>3, ViewIs DEF Visited, Repairing
<1>5. CASE Ambiguous(SyncView, i)
    <2>1. Ambiguous(title, i) /\ sync'.at = "idle"
        BY <1>2, <1>3, <1>4, <1>5, StaysAmbiguous
    <2> QED
        BY <1>3, <2>1 DEF Blocked
<1>6. CASE ~Ambiguous(SyncView, i)
    <2>1. /\ sync'.at = "flush" /\ sync'.todo = sync.todo \ {e} /\ sync'.entry = e
          /\ sync'.row = RowOf(SyncView, i, arr[i])
          /\ sync'.saw = IF sync'.row = None THEN NoTitle ELSE SyncView[sync'.row]
          /\ sync'.draft = sync.draft /\ sync'.quiet = sync.quiet
        BY <1>2, <1>3, <1>6
    <2>2. Visited(arr, sync') = D
        BY <1>1, <1>3, <2>1 DEF Visited
    <2>3. View(title, sync') = SyncView
        BY <2>1, ViewIs DEF View
    <2>4. Found(SyncView, i, arr[i]) \subseteq Rows
        BY DEF Found, WithItem, WithPath
    <2>5. Chosen(SyncView, sync'.row, sync'.saw, i, arr[i])
        <3>1. CASE Found(SyncView, i, arr[i]) = {}
            BY <2>1, <3>1 DEF RowOf, Chosen
        <3>2. CASE Found(SyncView, i, arr[i]) # {}
            BY <2>1, <2>4, <3>2, Constants DEF RowOf, Chosen
        <3> QED
            BY <3>1, <3>2
    <2>6. sync'.entry \in Entries \ sync'.todo /\ sync'.entry[1] = i /\ sync'.entry[2] = arr[i]
        BY <1>2, <1>3, <2>1
    <2>7. \A x \in sync'.todo : x \in Entries /\ x[2] = arr[x[1]]
        BY <1>1, <2>1 DEF Repairing
    <2> HIDE DEF D, i
    <2> QED
        BY <1>4, <2>1, <2>2, <2>3, <2>5, <2>6, <2>7 DEF Repairing
<1> QED
    BY <1>5, <1>6

LEMMA FlushIs ==
    ASSUME IInv, WaitInv, SyncFlush,
           NEW u, u = Upserted(SyncView, sync.row, sync.saw, sync.entry[1], sync.entry[2])
    PROVE  /\ ~Unique(u) => sync'.at = "idle" /\ sync'.draft = None
           /\ Unique(u) => /\ sync'.at = "next" /\ sync'.todo = sync.todo /\ sync'.quiet = sync.quiet
                           /\ sync'.draft = IF u = SyncView THEN sync.draft ELSE u
<1>1. sync' = IF ~Unique(u) THEN SyncIdle
              ELSE [sync EXCEPT !.at = "next", !.entry = None, !.row = None, !.saw = NoTitle,
                                !.draft = IF u = SyncView THEN @ ELSE u]
    BY DEF SyncFlush
<1>2. sync \in Syncs
    BY ViewIs
<1>3. CASE ~Unique(u)
    BY <1>1, <1>2, <1>3 DEF SyncIdle, Syncs
<1>4. CASE Unique(u)
    BY <1>1, <1>2, <1>4 DEF Syncs
<1> QED
    BY <1>3, <1>4

LEMMA FlushRepairing ==
    ASSUME IInv, WaitInv, RepairInv, SyncFlush, sync.quiet
    PROVE  /\ sync'.at = "idle" => Blocked(title)
           /\ sync'.at # "idle" => sync'.quiet /\ Repairing(title, arr, sync')
<1> DEFINE i == sync.entry[1]
<1> DEFINE p == sync.entry[2]
<1> DEFINE D == Visited(arr, sync)
<1> DEFINE v == SyncView
<1> DEFINE n == Target(v, sync.row)
<1> DEFINE u == Upserted(v, sync.row, sync.saw, i, p)
<1>1. /\ sync.at = "flush" /\ CanWrite(v, sync.row) /\ Repairing(title, arr, sync)
      /\ sync \in Syncs /\ v = View(title, sync) /\ v \in Tables /\ Unique(v)
      /\ arr \in [Items -> Files \cup {None}]
    BY ViewIs DEF SyncFlush, RepairInv
<1>2. /\ i \in Items /\ p \in Files /\ p = arr[i] /\ sync.entry = <<i, arr[i]>> /\ arr[i] # None
      /\ sync.entry \notin sync.todo
      /\ Chosen(v, sync.row, sync.saw, i, p) /\ Repaired(title, v, arr, D)
    BY <1>1, Constants DEF Repairing, Entries
<1>3. D \in SUBSET Items /\ i \notin D /\ \A j \in D : arr[j] # None
    BY <1>1, <1>2 DEF Visited
<1>4. sync.row \in Rows \cup {None}
    BY <1>1 DEF Syncs
<1> HIDE DEF i, p, v, D, n, u
<1>5. /\ n \in Rows /\ u \in Tables /\ \A q \in Rows \ {n} : u[q] = v[q]
      /\ u[n].item = i /\ u[n].path = arr[i]
      /\ v[n] = NoTitle => WithPath(v, arr[i]) = {}
      /\ v[n] = NoTitle \/ v[n].item = i \/ v[n].path = arr[i]
    <2>1. /\ n \in Rows /\ u \in Tables /\ \A q \in Rows \ {n} : u[q] = v[q]
          /\ u[n].item = i /\ u[n].path = p
          /\ sync.row = None => v[n] = NoTitle /\ WithPath(v, p) = {}
          /\ sync.row # None => v[n] # NoTitle /\ (v[n].item = i \/ v[n].path = p)
        BY <1>1, <1>2, <1>4, FlushedRow DEF n, u
    <2> QED
        BY <1>2, <2>1
<1>6. /\ ~Unique(u) => sync'.at = "idle" /\ sync'.draft = None
      /\ Unique(u) => /\ sync'.at = "next" /\ sync'.todo = sync.todo /\ sync'.quiet = sync.quiet
                      /\ sync'.draft = IF u = v THEN sync.draft ELSE u
    BY FlushIs DEF u, v, i, p
<1>7. CASE ~Unique(u)
    <2>1. Blocked(title)
        BY <1>1, <1>2, <1>3, <1>5, <1>7, FlushBlocked
    <2> QED
        BY <1>6, <1>7, <2>1
<1>8. CASE Unique(u)
    <2>1. u # None
        BY <1>5, NoneAssumption DEF Tables
    <2>2. View(title, sync') = u
        BY <1>1, <1>6, <1>8, <2>1 DEF View
    <2>3. Visited(arr, sync') = D \cup {i}
        BY <1>1, <1>2, <1>6, <1>8 DEF Visited, D
    <2>4. Repaired(title, u, arr, D \cup {i})
        BY <1>1, <1>2, <1>3, <1>5, FlushRepairs
    <2> QED
        BY <1>1, <1>6, <1>8, <2>2, <2>3, <2>4 DEF Repairing
<1> QED
    BY <1>7, <1>8

LEMMA CommitLists ==
    ASSUME IInv, WaitInv, RepairInv, SyncCommit, sync.quiet
    PROVE  Listed(title')
<1>1. sync.at = "next" /\ sync.todo = {} /\ title' = SyncView /\ Repairing(title, arr, sync)
    BY DEF SyncCommit, RepairInv
<1>2. Repaired(title, SyncView, arr, Visited(arr, sync))
    BY <1>1, ViewIs DEF Repairing
<1>3. \A i \in Items : arr[i] # None => i \in Visited(arr, sync)
    BY <1>1 DEF Visited
<1> QED
    BY <1>1, <1>2, <1>3 DEF Repaired, HasTitle, Listed

\* The end of a job changes the status of a row, which the sync does not look at.
LEMMA JobEndRepairs ==
    ASSUME IInv, WaitInv, RepairInv, NEW r \in Rows, JobEnds(r)
    PROVE  RepairInv'
<1>1. /\ r \in active /\ sync.draft = None /\ title' = [title EXCEPT ![r].status = "idle"]
      /\ UNCHANGED <<arr, task, sync, watch, up>>
    BY DEF JobEnds, Locked, env
<1>2. title[r] # NoTitle /\ title[r] \in Titles /\ title \in Tables
    BY <1>1, ViewIs DEF IInv, Surroundings, Tables
<1>3. \A q \in Rows : title'[q].item = title[q].item /\ title'[q].path = title[q].path
    BY <1>1, <1>2 DEF Titles, Tables
<1>4. \A x : WithItem(title', x) = WithItem(title, x) /\ WithPath(title', x) = WithPath(title, x)
    BY <1>3 DEF WithItem, WithPath
<1>5. View(title, sync) = title /\ View(title', sync) = title'
    BY <1>1 DEF View
<1>6. ASSUME Repairing(title, arr, sync) PROVE Repairing(title', arr, sync)
    <2>1. Repaired(title', title', arr, Visited(arr, sync))
        <3>1. \A i \in Visited(arr, sync) : HasTitle(title', arr, i)
            BY <1>3, <1>4, <1>5, <1>6 DEF Repairing, Repaired, HasTitle, WithPath
        <3> QED
            BY <3>1 DEF Repaired
    <2>2. ASSUME NEW row, NEW saw, NEW i, NEW p, Chosen(title, row, saw, i, p)
          PROVE  Chosen(title', row, saw, i, p)
        <3>1. Found(title', i, p) = Found(title, i, p) /\ Found(title, i, p) \subseteq Rows
            BY <1>4 DEF Found, WithItem, WithPath
        <3> QED
            BY <1>3, <2>2, <3>1 DEF Chosen
    <2> QED
        BY <1>5, <1>6, <2>1, <2>2 DEF Repairing
<1> QED
    BY <1>1, <1>6 DEF RepairInv

\* The steps that a quiet sync excludes, and those that make it noisy.
LEMMA TasksRest == \A t \in Tasks : task[t] = Done => ~TaskStep(t)
BY DEF TaskStep, UpsertSelect, UpsertWrite, HookDecides, FoundEnqueues, PollLook, PollExpires,
       PollResets, SearchEnds, ReplacementAsked, Upserting, Step, Done

LEMMA NoisyKeeps ==
    ASSUME IInv, RepairInv, sync' = [sync EXCEPT !.quiet = FALSE]
    PROVE  RepairInv' /\ (sync'.at = sync.at)
<1>1. sync \in Syncs
    BY DEF IInv, Surroundings
<1>2. sync'.at = sync.at /\ sync'.draft = sync.draft /\ sync'.quiet = FALSE
    BY <1>1 DEF Syncs
<1> QED
    BY <1>2 DEF RepairInv

LEMMA TaskStepKeepsSync ==
    ASSUME NEW t \in Tasks, TaskStep(t)
    PROVE  UNCHANGED <<arr, sync, watch, up>>
BY DEF TaskStep, UpsertSelect, UpsertWrite, HookDecides, FoundEnqueues, PollLook, PollExpires,
       PollResets, SearchEnds, ReplacementAsked, env

\* What a step does to a sync that is alone, and to the end of it.
LEMMA NextRepairs ==
    ASSUME IInv, WaitInv, RepairInv, [Next]_vars
    PROVE  /\ RepairInv'
           /\ sync.quiet /\ sync.at # "idle" /\ sync'.at = "idle" /\ up'
                => Listed(title') \/ Blocked(title)
<1> DEFINE A == sync.quiet /\ sync.at # "idle" /\ sync'.at = "idle" /\ up'
                    => Listed(title') \/ Blocked(title)
<1>1. ASSUME NEW f \in Files, Import(f) PROVE RepairInv' /\ A
    BY <1>1, NoisyKeeps DEF Import
<1>2. ASSUME NEW f \in Files, SubtitleArrives(f) PROVE RepairInv' /\ A
    <2>1. UNCHANGED <<arr, title, task, sync, watch, up>>
        BY <1>2 DEF SubtitleArrives
    <2> QED
        BY <2>1 DEF RepairInv
<1>3. ASSUME NEW t \in Tasks, NEW h \in hooks, Deliver(t, h) PROVE RepairInv' /\ A
    BY <1>3, NoisyKeeps DEF Deliver
<1>4. ASSUME NEW t \in Tasks, TaskStep(t) PROVE RepairInv' /\ A
    <2>1. ~sync.quiet
        BY <1>4, TasksRest DEF RepairInv
    <2> QED
        BY <1>4, <2>1, TaskStepKeepsSync DEF RepairInv
<1>5. ASSUME NEW t \in Tasks, NEW r \in Rows, SearchSubtitle(t, r) \/ SearchReplacement(t, r)
      PROVE  RepairInv' /\ A
    BY <1>5, NoisyKeeps DEF SearchSubtitle, SearchReplacement
<1>6. ASSUME NEW r \in Rows, JobEnds(r) PROVE RepairInv' /\ A
    <2>1. UNCHANGED sync
        BY <1>6 DEF JobEnds
    <2> QED
        BY <1>6, <2>1, JobEndRepairs
<1>7. ASSUME NEW r \in Rows, WatchBegins(r) PROVE RepairInv' /\ A
    BY <1>7, NoisyKeeps DEF WatchBegins
<1>8. CASE WatchEnds
    <2>1. ~sync.quiet /\ UNCHANGED sync
        BY <1>8 DEF WatchEnds, RepairInv
    <2> QED
        BY <2>1 DEF RepairInv
<1>9. CASE SyncBegins
    BY <1>9, BeginRepairs DEF SyncBegins
<1>10. CASE SyncSelect \/ SyncFlush
    <2>1. UNCHANGED <<arr, title, task, watch, up>>
        BY <1>10 DEF SyncSelect, SyncFlush, env
    <2>2. (sync'.at = "idle" => sync'.draft = None) /\ (sync'.quiet => sync.quiet)
        <3>1. sync \in Syncs
            BY ViewIs
        <3>2. CASE sync' = SyncIdle
            BY <3>1, <3>2 DEF SyncIdle, Syncs
        <3>3. CASE SyncSelect /\ sync' # SyncIdle
            BY <1>10, <3>1, <3>3 DEF SyncSelect, Syncs
        <3>4. CASE SyncFlush /\ sync' # SyncIdle
            <4> DEFINE u == Upserted(SyncView, sync.row, sync.saw, sync.entry[1], sync.entry[2])
            <4>1. sync' = [sync EXCEPT !.at = "next", !.entry = None, !.row = None, !.saw = NoTitle,
                                       !.draft = IF u = SyncView THEN @ ELSE u]
                BY <3>4 DEF SyncFlush
            <4> HIDE DEF u
            <4> QED
                BY <3>1, <4>1 DEF Syncs
        <3> QED
            BY <1>10, <3>2, <3>3, <3>4
    <2>3. CASE sync.quiet
        <3>1. /\ sync'.at = "idle" => Blocked(title)
              /\ sync'.at # "idle" => sync'.quiet /\ Repairing(title, arr, sync')
            BY <1>10, <2>3, SelectRepairs, FlushRepairing
        <3> QED
            BY <2>1, <2>2, <2>3, <3>1 DEF RepairInv
    <2>4. CASE ~sync.quiet
        BY <2>2, <2>4 DEF RepairInv
    <2> QED
        BY <2>3, <2>4
<1>11. CASE SyncCommit
    <2>1. sync' = SyncIdle /\ sync \in Syncs
        BY <1>11, ViewIs DEF SyncCommit
    <2>2. sync'.at = "idle" /\ sync'.draft = None /\ sync'.quiet = FALSE
        BY <2>1 DEF SyncIdle, Syncs
    <2> QED
        BY <1>11, <2>2, CommitLists DEF RepairInv
<1>12. CASE Crash
    <2>1. sync' = SyncIdle /\ sync \in Syncs /\ ~up'
        BY <1>12, ViewIs DEF Crash
    <2>2. sync'.at = "idle" /\ sync'.draft = None /\ sync'.quiet = FALSE
        BY <2>1 DEF SyncIdle, Syncs
    <2> QED
        BY <2>1, <2>2 DEF RepairInv
<1>13. CASE Restart
    <2>1. ~sync.quiet /\ UNCHANGED sync
        BY <1>13 DEF Restart, RepairInv
    <2> QED
        BY <2>1 DEF RepairInv
<1>14. CASE UNCHANGED vars
    <2>1. UNCHANGED <<arr, title, task, sync, watch, up>>
        BY <1>14 DEF vars, env
    <2> QED
        BY <2>1 DEF RepairInv
<1> QED
    BY <1>1, <1>2, <1>3, <1>4, <1>5, <1>6, <1>7, <1>8, <1>9, <1>10, <1>11, <1>12, <1>13, <1>14
    DEF Next, SyncStep

\* A library sync with nothing else under way lists every file Sonarr has, whatever webhooks
\* were lost before it and whatever rows it finds, unless one of the collisions of Blocked
\* rolls it back (sync_sonarr_library with upsert_title).
THEOREM QuietSyncLists == Spec => QuietSyncRepairs
<1>1. Init => RepairInv
    BY DEF Init, NoSync, RepairInv
<1>2. IInv /\ WaitInv /\ RepairInv /\ [Next]_vars => RepairInv'
    BY NextRepairs
<1>3. IInv /\ WaitInv /\ RepairInv /\ [Next]_vars
          => [sync.quiet /\ sync.at # "idle" /\ sync'.at = "idle" /\ up'
                => Listed(title') \/ Blocked(title)]_vars
    BY NextRepairs
<1>4. IInv /\ WaitInv /\ [Next]_vars => WaitInv'
    BY NextWaits
<1> QED
    BY <1>1, <1>2, <1>3, <1>4, InvHolds, InitWaits, PTL DEF Spec, QuietSyncRepairs
=============================================================================
