----------------------------- MODULE AppSettings -----------------------------
(***************************************************************************)
(* The settings store: how a start brings a database of any earlier        *)
(* release up to date (init_db in app/db/session.py), and how the settings *)
(* form, the setup wizard and the import of a configuration write it       *)
(* (routers/settings.py, routers/setup.py).                                *)
(*                                                                         *)
(* set_setting commits each key on its own.  A start is a sequence of      *)
(* commits, and the process may stop between any two; so is a save.        *)
(***************************************************************************)
EXTENDS Naturals, FiniteSets, Sequences

CONSTANTS
    Savers,     \* requests that save settings
    Forms,      \* what the form is filled in with
    Files,      \* configurations to import: forms that carry no password
    MaxStarts,  \* bounds of the model
    MaxActs,
    Absent

Modes == {"none", "password", "sso"}

\* Of each form and file: the mode of signing in, whether the user name is filled in, a
\* password is given, the three SSO fields are, and Claude is ticked and configured.
FormShape == [mode : Modes, username : BOOLEAN, password : BOOLEAN,
              sso : BOOLEAN, claude : BOOLEAN, claudeFields : BOOLEAN]

ASSUME SettingsAssumption ==
    /\ IsFiniteSet(Savers)
    /\ Forms \subseteq FormShape
    /\ Files \subseteq {f \in FormShape : ~f.password}
    /\ MaxStarts \in Nat \ {0} /\ MaxActs \in Nat
    /\ Absent \notin BOOLEAN /\ Absent \notin Modes

\* The keys that matter here, with what DEFAULT_SETTINGS has for them.
Default == [version |-> TRUE, seeded |-> FALSE, levelsDone |-> FALSE, preciseDone |-> FALSE,
            enabled |-> FALSE, username |-> FALSE, hash |-> FALSE, sso |-> FALSE,
            mode |-> "none", modeDone |-> FALSE,
            claude |-> FALSE, claudeFields |-> FALSE,
            wizard |-> FALSE, wizardDone |-> FALSE]
Keys == DOMAIN Default

\* The keys each release brought, in their order; a database has those of a prefix.
Brought == <<{"version", "seeded"}, {"levelsDone"}, {"preciseDone"},
             {"enabled", "username", "hash"},
             {"claude", "claudeFields"},
             {"mode", "modeDone", "sso"}, {"wizard", "wizardDone"}>>
KeysOf(release) == UNION {Brought[n] : n \in 1 .. release}

VARIABLES
    release,   \* which release left the database behind; 0 for none
    db,        \* the committed settings
    words,     \* what the word list holds
    title,     \* one title's migrated columns, or Absent
    stage,     \* the step of the start that comes next; one past the last when serving
    up, starts,
    isUpgrade, \* what this start found
    save,      \* the saves under way
    acts,      \* how often the user did something
    chosen,    \* history: what the user decided since, or Absent
    settled,   \* history: the last writer of the form's settings was one undisturbed save
    smooth     \* history: no start has been cut off

vars == <<release, db, words, title, stage, up, starts, isUpgrade, save, acts,
          chosen, settled, smooth>>
user == <<save, acts, chosen, settled>>

----------------------------------------------------------------------------
(* Types *)

OldWords == {"mild", "moderate", "strong"}
NewWords == {"child", "teen"}
Vocabulary == OldWords \cup NewWords

WordLists == {"empty", "old", "new", "defaults"}
Tracks == {Absent, 1, 2}
Title == [threshold : Vocabulary, levels : SUBSET Vocabulary, precise : BOOLEAN,
          mode : {"whole_line", "estimate", "whisper"}, track : Tracks, tracks : Tracks]

\* mutant: the words are renamed before the old column is read.
RenamedFirst == <<"schema", "defaults", "vocabulary", "levels", "tracks", "precise",
                  "seed", "auth", "authDone", "wizard", "wizardDone">>

\* The commits of a start, in their order.
Startup == <<"schema", "defaults", "levels", "tracks", "precise", "vocabulary",
             "seed", "auth", "authDone", "wizard", "wizardDone">>

\* A save between two commits, with the answer it had about the password.
Steps == {"hash", "username", "sso", "mode", "claude", "claudeFields"}
Idle == [at |-> "none"]
Saves == {Idle} \cup
    [at : Steps, form : FormShape, import : BOOLEAN, hash : BOOLEAN, alone : BOOLEAN]

\* Absent stands apart from what it may be found in place of.
ASSUME AbsentAssumption ==
    /\ \A t \in Title : Absent # t
    /\ \A list \in SUBSET Vocabulary : Absent # list
    /\ Absent \notin {1, 2} /\ Absent \notin {"whole_line", "estimate", "whisper", "empty"}

Choices == [levels : (SUBSET Vocabulary) \cup {Absent},
            precise : {"whole_line", "estimate", "whisper", Absent},
            tracks : Tracks, words : {"empty", Absent}, mode : BOOLEAN, wizard : BOOLEAN]

TypeOK ==
    /\ release \in 0 .. Len(Brought)
    /\ \A k \in Keys : db[k] \in {Absent} \cup IF k = "mode" THEN Modes ELSE BOOLEAN
    /\ words \in WordLists
    /\ title = Absent \/ title \in Title
    /\ stage \in 1 .. Len(Startup) + 1
    /\ up \in BOOLEAN /\ starts \in 1 .. MaxStarts /\ isUpgrade \in BOOLEAN
    /\ save \in [Savers -> Saves]
    /\ acts \in 0 .. MaxActs
    /\ chosen \in Choices
    /\ settled \in BOOLEAN /\ smooth \in BOOLEAN

----------------------------------------------------------------------------
Setting(k) == IF db[k] = Absent THEN Default[k] ELSE db[k]
Set(k, v) == db' = [db EXCEPT ![k] = v]

Serving == up /\ stage > Len(Startup)
At(step) == up /\ stage <= Len(Startup) /\ Startup[stage] = step
GoOn == stage' = stage + 1

NothingChosen == [levels |-> Absent, precise |-> Absent, tracks |-> Absent,
                  words |-> Absent, mode |-> FALSE, wizard |-> FALSE]

\* A database as an earlier release left it: its flags are set, whoever had signing in
\* switched on has a name and a password, and its title has the columns of its time.
Init ==
    /\ release \in 0 .. Len(Brought)
    /\ \E login \in BOOLEAN :
         db = [k \in Keys |->
                 IF k \notin KeysOf(release) THEN Absent
                 ELSE IF k \in {"version", "seeded", "levelsDone", "preciseDone",
                                "modeDone", "wizard", "wizardDone"} THEN TRUE
                 ELSE IF k = "mode" THEN IF login THEN "password" ELSE "none"
                 ELSE IF k \in {"enabled", "username", "hash"} THEN login
                 ELSE FALSE]
    /\ words \in IF release = 0 THEN {"empty"}
                 ELSE IF release >= 6 THEN {"new"} ELSE {"old", "new"}
    /\ \E threshold \in {"moderate", "child"}, precise \in BOOLEAN, track \in {Absent, 1} :
         title = IF release = 0 THEN Absent
                 ELSE [threshold |-> threshold,
                       levels |-> IF release >= 2 THEN {threshold} ELSE {"child"},
                       precise |-> precise,
                       mode |-> IF release >= 3 /\ precise THEN "estimate" ELSE "whole_line",
                       track |-> track, tracks |-> Absent]
    /\ stage = 1 /\ up = TRUE /\ starts = 1 /\ isUpgrade = FALSE
    /\ save = [s \in Savers |-> Idle] /\ acts = 0
    /\ chosen = NothingChosen /\ settled = FALSE /\ smooth = TRUE

----------------------------------------------------------------------------
(* init_db *)

\* Tables, columns and the severities of the word list, in one transaction.
Schema ==
    /\ At("schema") /\ GoOn
    /\ words' = IF words = "old" THEN "new" ELSE words
    /\ UNCHANGED <<release, db, title, up, starts, isUpgrade, user, smooth>>

\* mutant: the question is asked when the defaults are there.
DefaultsFirst ==
    /\ At("defaults") /\ GoOn
    /\ db' = [k \in Keys |-> Setting(k)]
    /\ isUpgrade' = (db'["version"] # Absent)
    /\ UNCHANGED <<release, words, title, up, starts, user, smooth>>

\* Whether the database is an old one is asked before the missing keys are added.
Defaults ==
    /\ At("defaults") /\ GoOn
    /\ isUpgrade' = (db["version"] # Absent)
    /\ db' = [k \in Keys |-> Setting(k)]
    /\ UNCHANGED <<release, words, title, up, starts, user, smooth>>

\* The flag and what it stands for are one commit.
Levels ==
    /\ At("levels") /\ GoOn
    /\ title' = IF Setting("levelsDone") \/ title = Absent THEN title
                ELSE [title EXCEPT !.levels = {title.threshold}]
    /\ Set("levelsDone", TRUE)
    /\ UNCHANGED <<release, words, up, starts, isUpgrade, user, smooth>>

\* Not behind the flag: any title with an old index and no new ones.
TracksFromTrack ==
    /\ At("tracks") /\ GoOn
    /\ title' = IF title # Absent /\ title.track # Absent /\ title.tracks = Absent
                THEN [title EXCEPT !.tracks = title.track] ELSE title
    /\ UNCHANGED <<release, db, words, up, starts, isUpgrade, user, smooth>>

PreciseMode ==
    /\ At("precise") /\ GoOn
    /\ title' = IF Setting("preciseDone") \/ title = Absent \/ ~title.precise THEN title
                ELSE [title EXCEPT !.mode = "estimate"]
    /\ Set("preciseDone", TRUE)
    /\ UNCHANGED <<release, words, up, starts, isUpgrade, user, smooth>>

VocabularyMap(w) == IF w = "mild" THEN "child" ELSE IF w \in OldWords THEN "teen" ELSE w

\* _migrate_severity_levels_string.
NewVocabulary(levels) ==
    LET mapped == {VocabularyMap(w) : w \in levels} IN
    IF mapped = {} THEN {"child"} ELSE mapped

TitleVocabulary ==
    /\ At("vocabulary") /\ GoOn
    /\ title' = IF title = Absent \/ title.levels \cap OldWords = {} THEN title
                ELSE [title EXCEPT !.levels = NewVocabulary(title.levels)]
    /\ UNCHANGED <<release, db, words, up, starts, isUpgrade, user, smooth>>

\* mutant: an empty list is seeded, whatever the flag says.
SeedEmpty ==
    /\ At("seed") /\ GoOn
    /\ words' = IF words = "empty" THEN "defaults" ELSE words
    /\ Set("seeded", TRUE)
    /\ UNCHANGED <<release, title, up, starts, isUpgrade, user, smooth>>

Seed ==
    /\ At("seed") /\ GoOn
    /\ words' = IF Setting("seeded") THEN words ELSE "defaults"
    /\ Set("seeded", TRUE)
    /\ UNCHANGED <<release, title, up, starts, isUpgrade, user, smooth>>

\* The mode and its flag are two commits.
AuthMode ==
    /\ At("auth") /\ GoOn
    /\ IF ~Setting("modeDone") /\ Setting("enabled") THEN Set("mode", "password")
       ELSE UNCHANGED db
    /\ UNCHANGED <<release, words, title, up, starts, isUpgrade, user, smooth>>

AuthModeDone ==
    /\ At("authDone") /\ GoOn
    /\ Set("modeDone", TRUE)
    /\ UNCHANGED <<release, words, title, up, starts, isUpgrade, user, smooth>>

\* So are the wizard and its flag; the last of them opens the application.
Wizard ==
    /\ At("wizard") /\ GoOn
    /\ IF ~Setting("wizardDone") /\ isUpgrade THEN Set("wizard", TRUE) ELSE UNCHANGED db
    /\ UNCHANGED <<release, words, title, up, starts, isUpgrade, user, smooth>>

WizardDone ==
    /\ At("wizardDone") /\ GoOn
    /\ Set("wizardDone", TRUE)
    /\ UNCHANGED <<release, words, title, up, starts, isUpgrade, user, smooth>>

StartUp ==
    \/ Schema \/ Defaults \/ Levels \/ TracksFromTrack \/ PreciseMode \/ TitleVocabulary
    \/ Seed \/ AuthMode \/ AuthModeDone \/ Wizard \/ WizardDone

----------------------------------------------------------------------------
(* The user and the queue *)

Acts == Serving /\ acts < MaxActs /\ acts' = acts + 1
Rest == UNCHANGED <<release, stage, up, starts, isUpgrade, smooth>>

\* A title is synced on a fresh install.
TitleArrives ==
    /\ Acts /\ title = Absent
    /\ title' = [threshold |-> "mild", levels |-> {"child"}, precise |-> FALSE,
                 mode |-> "whole_line", track |-> Absent, tracks |-> Absent]
    /\ chosen' = [chosen EXCEPT !.levels = {"child"}, !.precise = "whole_line"]
    /\ UNCHANGED <<db, words, save, settled>> /\ Rest

ChooseLevels(levels) ==
    /\ Acts /\ title # Absent
    /\ title' = [title EXCEPT !.levels = levels]
    /\ chosen' = [chosen EXCEPT !.levels = levels]
    /\ UNCHANGED <<db, words, save, settled>> /\ Rest

ChoosePrecise ==
    /\ Acts /\ title # Absent
    /\ title' = [title EXCEPT !.mode = "whole_line"]
    /\ chosen' = [chosen EXCEPT !.precise = "whole_line"]
    /\ UNCHANGED <<db, words, save, settled>> /\ Rest

\* A job records where it put its tracks.
JobRecordsTracks ==
    /\ Acts /\ title # Absent
    /\ title' = [title EXCEPT !.tracks = 2]
    /\ chosen' = [chosen EXCEPT !.tracks = 2]
    /\ UNCHANGED <<db, words, save, settled>> /\ Rest

\* A replacement file has no track of ours; the old index is left as it is.
ReplacementLands ==
    /\ Acts /\ title # Absent
    /\ title' = [title EXCEPT !.tracks = Absent]
    /\ chosen' = [chosen EXCEPT !.tracks = Absent]
    /\ UNCHANGED <<db, words, save, settled>> /\ Rest

ClearWords ==
    /\ Acts /\ words # "empty"
    /\ words' = "empty"
    /\ chosen' = [chosen EXCEPT !.words = "empty"]
    /\ UNCHANGED <<db, title, save, settled>> /\ Rest

CompleteSetup ==
    /\ Acts
    /\ Set("wizard", TRUE)
    /\ chosen' = [chosen EXCEPT !.wizard = TRUE]
    /\ UNCHANGED <<words, title, save, settled>> /\ Rest

----------------------------------------------------------------------------
(* Saves *)

Busy == {s \in Savers : save[s] # Idle}
Disturbed == [s \in Savers |-> IF s \in Busy THEN [save[s] EXCEPT !.alone = FALSE] ELSE Idle]

\* The form, from the first of its settings that are checked against one another.
BeginSave(s, form) ==
    /\ Acts /\ save[s] = Idle
    /\ save' = [Disturbed EXCEPT ![s] = [at |-> "hash", form |-> form, import |-> FALSE,
                                         hash |-> Setting("hash"), alone |-> Busy = {}]]
    /\ settled' = FALSE
    /\ UNCHANGED <<db, words, title, chosen>> /\ Rest

\* A configuration file: the same keys but the password, in the order of the export.
BeginImport(s, file) ==
    /\ Acts /\ save[s] = Idle
    /\ save' = [Disturbed EXCEPT ![s] = [at |-> "mode", form |-> file, import |-> TRUE,
                                         hash |-> FALSE, alone |-> FALSE]]
    /\ settled' = FALSE
    /\ UNCHANGED <<db, words, title, chosen>> /\ Rest

\* mutant: a key of the file that is no setting gets through.
UnknownKey == [mode |-> "username", username |-> "password", sso |-> "claude",
               claude |-> "claudeFields", claudeFields |-> "none"]

\* The commits of each, and where they end.
FormOrder == [hash |-> "username", username |-> "sso", sso |-> "mode", mode |-> "claude",
              claude |-> "claudeFields", claudeFields |-> "none"]
FileOrder == [mode |-> "username", username |-> "sso", sso |-> "claude",
              claude |-> "claudeFields", claudeFields |-> "none"]

\* mutant: the mode is taken as it was sent.
SavedModeAsSent(k) == k.form.mode

\* A mode is stored only when somebody could sign in with it; a file is not checked.
SavedMode(k) ==
    LET passwordReady == k.form.username /\ (k.hash \/ k.form.password)
        blocked == \/ k.form.mode = "password" /\ ~passwordReady
                   \/ k.form.mode = "sso" /\ ~k.form.sso
    IN IF ~k.import /\ blocked THEN "none" ELSE k.form.mode

SavedClaude(k) == k.form.claude /\ (k.import \/ k.form.claudeFields)

SaveStep(s) ==
    LET k == save[s]
        next == IF k.import THEN FileOrder[k.at] ELSE FormOrder[k.at]
    IN /\ Serving /\ k # Idle
       /\ CASE k.at = "hash" -> IF k.form.password THEN Set("hash", TRUE) ELSE UNCHANGED db
            [] k.at = "username" -> Set("username", k.form.username)
            [] k.at = "sso" -> Set("sso", k.form.sso)
            [] k.at = "mode" -> Set("mode", SavedMode(k))
            [] k.at = "claude" -> Set("claude", SavedClaude(k))
            [] k.at = "claudeFields" -> Set("claudeFields", k.form.claudeFields)
       /\ save' = [save EXCEPT ![s] = IF next = "none" THEN Idle ELSE [k EXCEPT !.at = next]]
       /\ settled' = (next = "none" /\ k.alone)
       /\ chosen' = [chosen EXCEPT !.mode = TRUE]
       /\ UNCHANGED <<words, title, acts>> /\ Rest

----------------------------------------------------------------------------
(* The process *)

Crash ==
    /\ up /\ starts < MaxStarts
    /\ up' = FALSE
    /\ save' = [s \in Savers |-> Idle]
    /\ smooth' = (smooth /\ Serving)
    /\ UNCHANGED <<release, db, words, title, stage, starts, isUpgrade, acts, chosen, settled>>

Restart ==
    /\ ~up
    /\ up' = TRUE /\ starts' = starts + 1 /\ stage' = 1
    /\ UNCHANGED <<release, db, words, title, isUpgrade, user, smooth>>

Next ==
    \/ StartUp
    \/ TitleArrives \/ ChoosePrecise \/ JobRecordsTracks \/ ReplacementLands
    \/ \E levels \in (SUBSET NewWords) \ {{}} : ChooseLevels(levels)
    \/ ClearWords \/ CompleteSetup
    \/ \E s \in Savers :
         \/ \E form \in Forms : BeginSave(s, form)
         \/ \E file \in Files : BeginImport(s, file)
         \/ SaveStep(s)
    \/ Crash \/ Restart

Spec == Init /\ [][Next]_vars

----------------------------------------------------------------------------
(* Properties *)

\* What the user decided survives every later start: a migration runs once, and never
\* over a choice made since (_backfill_multi_severity_fields, _backfill_precise_mode,
\* _seed_default_wordlist_if_empty).
ChoicesAreKept ==
    Serving =>
        /\ chosen.levels # Absent => title.levels = chosen.levels
        /\ chosen.precise # Absent => title.mode = chosen.precise
        /\ chosen.tracks # Absent => title.tracks = chosen.tracks
        /\ chosen.words # Absent => words = chosen.words

\* What an earlier release stored arrives, wherever starts were cut off: the levels in
\* the new words, the precise mode, signing in (init_db and what it calls).
UpgradeIsCarriedOver ==
    Serving /\ release > 0 =>
        /\ words # "old"
        /\ chosen.levels = Absent => title.levels = {VocabularyMap(title.threshold)}
        /\ chosen.precise = Absent /\ title.precise => title.mode = "estimate"
        /\ ~chosen.mode => (Setting("mode") = "password") = Setting("enabled")

\* An upgrade is never sent through the wizard, a fresh install always is, unless its
\* first start was cut off (_mark_setup_wizard_completed_for_upgrade).
WizardIsForNewcomers ==
    Serving =>
        /\ release > 0 => Setting("wizard")
        /\ release = 0 /\ smooth /\ ~chosen.wizard => ~Setting("wizard")

CanSignIn ==
    /\ Setting("mode") = "password" => Setting("username") /\ Setting("hash")
    /\ Setting("mode") = "sso" => Setting("sso")

\* A save that nothing disturbed leaves a login somebody can complete, and Claude on only
\* when it is configured (update_settings).
SettledIsUsable ==
    settled => CanSignIn /\ (Setting("claude") => Setting("claudeFields"))

\* "saving the form with a mode selected but its fields left blank would lock the UI behind a
\* login nobody can complete" (update_settings, routers/settings.py): at rest,
\* somebody can sign in.
SomebodyCanSignIn == Serving /\ Busy = {} => CanSignIn
=============================================================================
