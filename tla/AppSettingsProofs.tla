-------------------------- MODULE AppSettingsProofs --------------------------
(* Theorems about AppSettings, for any number of concurrent saves, of starts *)
(* cut off anywhere, and of things the user does in between. *)
EXTENDS AppSettings, TLAPS

Names == {"version", "seeded", "levelsDone", "preciseDone", "enabled", "username", "hash",
          "sso", "mode", "modeDone", "claude", "claudeFields", "wizard", "wizardDone"}

Values(k) == {Absent} \cup IF k = "mode" THEN Modes ELSE BOOLEAN

\* db is a function on the keys, each with a value of its kind.
Stored ==
    /\ db = [k \in Keys |-> db[k]]
    /\ \A k \in Keys : db[k] \in Values(k)

LEMMA KeysAreNames == Keys = Names
BY DEF Keys, Names, Default

LEMMA DefaultValues ==
    /\ \A k \in Keys \ {"mode"} : Default[k] \in BOOLEAN
    /\ Default["mode"] = "none"
<1>1. /\ Default["version"] = TRUE /\ Default["seeded"] = FALSE
      /\ Default["levelsDone"] = FALSE /\ Default["preciseDone"] = FALSE
      /\ Default["enabled"] = FALSE /\ Default["username"] = FALSE /\ Default["hash"] = FALSE
      /\ Default["sso"] = FALSE /\ Default["modeDone"] = FALSE
      /\ Default["claude"] = FALSE /\ Default["claudeFields"] = FALSE
      /\ Default["wizard"] = FALSE /\ Default["wizardDone"] = FALSE
    BY DEF Default
<1>2. Default["mode"] = "none"
    BY DEF Default
<1>3. ASSUME NEW k \in Keys \ {"mode"} PROVE Default[k] \in BOOLEAN
    BY <1>1, KeysAreNames, Zenon DEF Names
<1> QED
    BY <1>2, <1>3

\* What a commit of one key leaves.
LEMMA SetIs ==
    ASSUME Stored, NEW k \in Keys, NEW v, v \in Values(k), v # Absent, Set(k, v)
    PROVE  /\ Stored'
           /\ Setting(k)' = v /\ db'[k] = v
           /\ \A j \in Keys \ {k} : Setting(j)' = Setting(j) /\ db'[j] = db[j]
<1>1. db' = [db EXCEPT ![k] = v] /\ DOMAIN db = Keys
    BY Zenon DEF Set, Stored
<1>2. db'[k] = v /\ \A j \in Keys \ {k} : db'[j] = db[j]
    BY <1>1, Zenon
<1>3. Stored'
    <2>1. db' = [j \in Keys |-> db'[j]]
        BY <1>1
    <2>2. ASSUME NEW j \in Keys PROVE db'[j] \in Values(j)
        BY <1>2, Zenon DEF Stored
    <2> QED
        BY <2>1, <2>2, Zenon DEF Stored, Values
<1> QED
    BY <1>2, <1>3, Zenon DEF Setting

LEMMA SettingValues ==
    ASSUME Stored
    PROVE  /\ \A k \in Keys \ {"mode"} : Setting(k) \in BOOLEAN
           /\ Setting("mode") \in Modes
<1>1. "mode" \in Keys
    BY KeysAreNames DEF Names
<1>2. ASSUME NEW k \in Keys \ {"mode"} PROVE Setting(k) \in BOOLEAN
    BY DefaultValues, Zenon DEF Stored, Setting, Values
<1>3. Setting("mode") \in Modes
    <2>1. db["mode"] \in {Absent} \cup Modes /\ Default["mode"] \in Modes
        BY <1>1, DefaultValues DEF Stored, Values, Modes
    <2> QED
        BY <2>1, Zenon DEF Setting
<1> QED
    BY <1>2, <1>3

\* Filling in defaults changes no setting.
LEMMA DefaultsKeepSettings ==
    ASSUME Stored, db' = [k \in Keys |-> Setting(k)]
    PROVE  /\ Stored'
           /\ \A k \in Keys : Setting(k)' = Setting(k)
<1>1. \A k \in Keys : db'[k] = Setting(k)
    BY Zenon
<1>2. \A k \in Keys : Setting(k) \in Values(k)
    BY SettingValues, Zenon DEF Values
<1>3. Stored'
    <2>1. db' = [k \in Keys |-> db'[k]]
        BY Zenon
    <2> QED
        BY <1>1, <1>2, <2>1, Zenon DEF Stored, Values
<1> QED
    BY <1>1, <1>3, Zenon DEF Setting

---------------------------------------------------------------------------
(* Types *)

Types ==
    /\ TypeOK /\ Stored
    /\ \A s \in Savers : save[s] # Idle /\ save[s].import => save[s].at # "hash"
    /\ up \/ starts < MaxStarts

SaveRecords ==
    [at : Steps, form : FormShape, import : BOOLEAN, hash : BOOLEAN, alone : BOOLEAN]

\* The commits of a start come in this order.
LEMMA StageOf ==
    ASSUME Types
    PROVE  /\ At("schema") => stage = 1
           /\ At("defaults") => stage = 2
           /\ At("levels") => stage = 3
           /\ At("tracks") => stage = 4
           /\ At("precise") => stage = 5
           /\ At("vocabulary") => stage = 6
           /\ At("seed") => stage = 7
           /\ At("auth") => stage = 8
           /\ At("authDone") => stage = 9
           /\ At("wizard") => stage = 10
           /\ At("wizardDone") => stage = 11
           /\ Len(Startup) = 11 /\ stage \in 1 .. 12
<1>1. Len(Startup) = 11
    BY DEF Startup
<1>2. stage \in 1 .. 12
    BY <1>1 DEF Types, TypeOK
<1>3. ASSUME NEW w, At(w) PROVE stage \in 1 .. 11 /\ w = Startup[stage]
    BY <1>1, <1>2, <1>3 DEF At
<1>4. ASSUME NEW n \in 1 .. 11
      PROVE  /\ n = 1 => Startup[n] = "schema"
             /\ n = 2 => Startup[n] = "defaults"
             /\ n = 3 => Startup[n] = "levels"
             /\ n = 4 => Startup[n] = "tracks"
             /\ n = 5 => Startup[n] = "precise"
             /\ n = 6 => Startup[n] = "vocabulary"
             /\ n = 7 => Startup[n] = "seed"
             /\ n = 8 => Startup[n] = "auth"
             /\ n = 9 => Startup[n] = "authDone"
             /\ n = 10 => Startup[n] = "wizard"
             /\ n = 11 => Startup[n] = "wizardDone"
    BY DEF Startup
<1>5. \A n \in 1 .. 11 : n \in {1, 2, 3, 4, 5, 6, 7, 8, 9, 10, 11}
    OBVIOUS
<1> QED
    BY <1>1, <1>2, <1>3, <1>4, <1>5

\* The settings a step leaves alone.
Same(K) == \A j \in K : Setting(j)' = Setting(j)

LEMMA Untouched ==
    ASSUME UNCHANGED db
    PROVE  Same(Keys) /\ (Stored => Stored')
BY Zenon DEF Same, Setting, Stored

\* A flag is committed.
LEMMA FlagIsSet ==
    ASSUME Stored, NEW k \in Keys, k # "mode", Set(k, TRUE)
    PROVE  Stored' /\ Setting(k)' /\ Same(Keys \ {k})
<1>1. TRUE \in Values(k)
    BY Zenon DEF Values
<1>2. TRUE # Absent
    BY SettingsAssumption, Zenon
<1> QED
    BY <1>1, <1>2, SetIs, Zenon DEF Same

\* What each commit of a start does to the settings.
LEMMA StartUpSettings ==
    ASSUME Types, StartUp
    PROVE  /\ Stored'
           /\ Schema \/ Defaults \/ TracksFromTrack \/ TitleVocabulary => Same(Keys)
           /\ Levels => Setting("levelsDone")' /\ Same(Keys \ {"levelsDone"})
           /\ PreciseMode => Setting("preciseDone")' /\ Same(Keys \ {"preciseDone"})
           /\ Seed => Setting("seeded")' /\ Same(Keys \ {"seeded"})
           /\ AuthMode =>
                /\ Same(Keys \ {"mode"})
                /\ IF ~Setting("modeDone") /\ Setting("enabled")
                   THEN Setting("mode")' = "password" ELSE Setting("mode")' = Setting("mode")
           /\ AuthModeDone => Setting("modeDone")' /\ Same(Keys \ {"modeDone"})
           /\ Wizard =>
                /\ Same(Keys \ {"wizard"})
                /\ IF ~Setting("wizardDone") /\ isUpgrade
                   THEN Setting("wizard")' ELSE Setting("wizard")' = Setting("wizard")
           /\ WizardDone => Setting("wizardDone")' /\ Same(Keys \ {"wizardDone"})
<1> Stored
    BY DEF Types
<1>0. /\ "levelsDone" \in Keys /\ "preciseDone" \in Keys /\ "seeded" \in Keys
      /\ "mode" \in Keys /\ "modeDone" \in Keys /\ "wizard" \in Keys /\ "wizardDone" \in Keys
    BY KeysAreNames DEF Names
<1>1. Schema \/ TracksFromTrack \/ TitleVocabulary => Stored' /\ Same(Keys)
    BY Untouched, Zenon DEF Schema, TracksFromTrack, TitleVocabulary
<1>2. Defaults => Stored' /\ Same(Keys)
    BY DefaultsKeepSettings, Zenon DEF Defaults, Same
<1>3. Levels => Stored' /\ Setting("levelsDone")' /\ Same(Keys \ {"levelsDone"})
    <2>1. Levels => Set("levelsDone", TRUE)
        BY Zenon DEF Levels
    <2>2. "levelsDone" # "mode"
        OBVIOUS
    <2> QED
        BY <1>0, <2>1, <2>2, FlagIsSet, Zenon
<1>4. PreciseMode => Stored' /\ Setting("preciseDone")' /\ Same(Keys \ {"preciseDone"})
    <2>1. PreciseMode => Set("preciseDone", TRUE)
        BY Zenon DEF PreciseMode
    <2>2. "preciseDone" # "mode"
        OBVIOUS
    <2> QED
        BY <1>0, <2>1, <2>2, FlagIsSet, Zenon
<1>5. Seed => Stored' /\ Setting("seeded")' /\ Same(Keys \ {"seeded"})
    <2>1. Seed => Set("seeded", TRUE)
        BY Zenon DEF Seed
    <2>2. "seeded" # "mode"
        OBVIOUS
    <2> QED
        BY <1>0, <2>1, <2>2, FlagIsSet, Zenon
<1>6. ASSUME AuthMode
      PROVE  /\ Stored' /\ Same(Keys \ {"mode"})
             /\ IF ~Setting("modeDone") /\ Setting("enabled")
                THEN Setting("mode")' = "password" ELSE Setting("mode")' = Setting("mode")
    <2>1. CASE ~Setting("modeDone") /\ Setting("enabled")
        <3>1. Set("mode", "password")
            BY <1>6, <2>1, Zenon DEF AuthMode
        <3>2. "password" \in Values("mode") /\ "password" # Absent
            BY SettingsAssumption DEF Values, Modes
        <3> QED
            BY <1>0, <2>1, <3>1, <3>2, SetIs, Zenon DEF Same
    <2>2. CASE ~(~Setting("modeDone") /\ Setting("enabled"))
        <3>1. UNCHANGED db
            BY <1>6, <2>2, Zenon DEF AuthMode
        <3> QED
            BY <1>0, <2>2, <3>1, Untouched, Zenon DEF Same
    <2> QED
        BY <2>1, <2>2
<1>7. AuthModeDone => Stored' /\ Setting("modeDone")' /\ Same(Keys \ {"modeDone"})
    <2>1. AuthModeDone => Set("modeDone", TRUE)
        BY Zenon DEF AuthModeDone
    <2>2. "modeDone" # "mode"
        OBVIOUS
    <2> QED
        BY <1>0, <2>1, <2>2, FlagIsSet, Zenon
<1>8. ASSUME Wizard
      PROVE  /\ Stored' /\ Same(Keys \ {"wizard"})
             /\ IF ~Setting("wizardDone") /\ isUpgrade
                THEN Setting("wizard")' ELSE Setting("wizard")' = Setting("wizard")
    <2>1. CASE ~Setting("wizardDone") /\ isUpgrade
        <3>1. Set("wizard", TRUE) /\ "wizard" # "mode"
            BY <1>8, <2>1, Zenon DEF Wizard
        <3> QED
            BY <1>0, <2>1, <3>1, FlagIsSet, Zenon
    <2>2. CASE ~(~Setting("wizardDone") /\ isUpgrade)
        <3>1. UNCHANGED db
            BY <1>8, <2>2, Zenon DEF Wizard
        <3> QED
            BY <1>0, <2>2, <3>1, Untouched, Zenon DEF Same
    <2> QED
        BY <2>1, <2>2
<1>9. WizardDone => Stored' /\ Setting("wizardDone")' /\ Same(Keys \ {"wizardDone"})
    <2>1. WizardDone => Set("wizardDone", TRUE)
        BY Zenon DEF WizardDone
    <2>2. "wizardDone" # "mode"
        OBVIOUS
    <2> QED
        BY <1>0, <2>1, <2>2, FlagIsSet, Zenon
<1> QED
    BY <1>1, <1>2, <1>3, <1>4, <1>5, <1>6, <1>7, <1>8, <1>9, Zenon DEF StartUp

LEMMA SavesAreRecords ==
    ASSUME Types, NEW s \in Savers, save[s] # Idle
    PROVE  save[s] \in SaveRecords
<1>1. save[s] \in Saves
    BY DEF Types, TypeOK
<1> QED
    BY <1>1, Zenon DEF Saves, SaveRecords

LEMMA RecordFields ==
    ASSUME NEW k \in SaveRecords
    PROVE  /\ k.at \in Steps /\ k.form \in FormShape
           /\ k.import \in BOOLEAN /\ k.hash \in BOOLEAN /\ k.alone \in BOOLEAN
           /\ k.form.mode \in Modes /\ k.form.username \in BOOLEAN /\ k.form.password \in BOOLEAN
           /\ k.form.sso \in BOOLEAN /\ k.form.claude \in BOOLEAN
           /\ k.form.claudeFields \in BOOLEAN
           /\ k # Idle
<1>1. k.at \in Steps /\ k.form \in FormShape
      /\ k.import \in BOOLEAN /\ k.hash \in BOOLEAN /\ k.alone \in BOOLEAN
    BY DEF SaveRecords
<1>2. /\ k.form.mode \in Modes /\ k.form.username \in BOOLEAN /\ k.form.password \in BOOLEAN
      /\ k.form.sso \in BOOLEAN /\ k.form.claude \in BOOLEAN
      /\ k.form.claudeFields \in BOOLEAN
    BY <1>1 DEF FormShape
<1>3. k # Idle
    BY <1>1 DEF Steps, Idle
<1> QED
    BY <1>1, <1>2, <1>3

FormKeys == {"hash", "username", "sso", "mode", "claude", "claudeFields"}

\* What each commit of a save does to the settings.
LEMMA SaveSettings ==
    ASSUME Types, NEW s \in Savers, SaveStep(s)
    PROVE  LET k == save[s] IN
           /\ k \in SaveRecords
           /\ Stored' /\ Same(Keys \ FormKeys)
           /\ k.at = "hash" => /\ Setting("hash")' = (k.form.password \/ Setting("hash"))
                               /\ Same(Keys \ {"hash"})
           /\ k.at = "username" => /\ Setting("username")' = k.form.username
                                   /\ Same(Keys \ {"username"})
           /\ k.at = "sso" => Setting("sso")' = k.form.sso /\ Same(Keys \ {"sso"})
           /\ k.at = "mode" => Setting("mode")' = SavedMode(k) /\ Same(Keys \ {"mode"})
           /\ k.at = "claude" => Setting("claude")' = SavedClaude(k) /\ Same(Keys \ {"claude"})
           /\ k.at = "claudeFields" => /\ Setting("claudeFields")' = k.form.claudeFields
                                       /\ Same(Keys \ {"claudeFields"})
<1> DEFINE k == save[s]
<1>1. k # Idle /\ k \in SaveRecords
    BY SavesAreRecords, Zenon DEF SaveStep
<1>2. /\ k.at \in Steps
      /\ k.form.mode \in Modes /\ k.form.username \in BOOLEAN /\ k.form.password \in BOOLEAN
      /\ k.form.sso \in BOOLEAN /\ k.form.claude \in BOOLEAN
      /\ k.form.claudeFields \in BOOLEAN
    BY <1>1, RecordFields, Zenon
<1>3. Stored
    BY DEF Types
<1>4. FormKeys \subseteq Keys
    BY KeysAreNames DEF FormKeys, Names
<1>5. ASSUME NEW key \in FormKeys \ {"mode"}, NEW v \in BOOLEAN, Set(key, v)
      PROVE  Stored' /\ Setting(key)' = v /\ Same(Keys \ {key}) /\ Same(Keys \ FormKeys)
    <2>1. v \in Values(key) /\ v # Absent /\ key \in Keys
        BY <1>4, <1>5, SettingsAssumption, Zenon DEF Values
    <2> QED
        BY <1>3, <1>5, <2>1, SetIs, Zenon DEF Same
<1>6. CASE k.at = "hash"
    <2>1. IF k.form.password THEN Set("hash", TRUE) ELSE UNCHANGED db
        BY <1>6 DEF SaveStep
    <2>2. CASE k.form.password
        <3>1. Set("hash", TRUE) /\ "hash" \in FormKeys \ {"mode"}
            BY <2>1, <2>2 DEF FormKeys
        <3>2. Stored' /\ Setting("hash")' = TRUE /\ Same(Keys \ {"hash"}) /\ Same(Keys \ FormKeys)
            BY <1>5, <3>1, Zenon
        <3> QED
            BY <1>1, <1>6, <2>2, <3>2
    <2>3. CASE ~k.form.password
        <3>1. UNCHANGED db
            BY <2>1, <2>3
        <3>2. Stored' /\ Same(Keys)
            BY <1>3, <3>1, Untouched
        <3>3. Setting("hash")' = Setting("hash") /\ Same(Keys \ {"hash"}) /\ Same(Keys \ FormKeys)
            BY <1>4, <3>2 DEF Same, FormKeys
        <3>4. Setting("hash") \in BOOLEAN
            BY <1>3, <1>4, SettingValues DEF FormKeys
        <3> QED
            BY <1>1, <1>6, <2>3, <3>2, <3>3, <3>4
    <2> QED
        BY <2>2, <2>3
<1>7. CASE k.at = "username"
    <2>1. Set("username", k.form.username) /\ "username" \in FormKeys \ {"mode"}
        BY <1>7 DEF SaveStep, FormKeys
    <2>2. /\ Stored' /\ Setting("username")' = k.form.username
          /\ Same(Keys \ {"username"}) /\ Same(Keys \ FormKeys)
        BY <1>2, <1>5, <2>1, Zenon
    <2> QED
        BY <1>1, <1>7, <2>2
<1>8. CASE k.at = "sso"
    <2>1. Set("sso", k.form.sso) /\ "sso" \in FormKeys \ {"mode"}
        BY <1>8 DEF SaveStep, FormKeys
    <2>2. /\ Stored' /\ Setting("sso")' = k.form.sso
          /\ Same(Keys \ {"sso"}) /\ Same(Keys \ FormKeys)
        BY <1>2, <1>5, <2>1, Zenon
    <2> QED
        BY <1>1, <1>8, <2>2
<1>9. CASE k.at = "mode"
    <2>1. Set("mode", SavedMode(k)) /\ "mode" \in FormKeys
        BY <1>9 DEF SaveStep, FormKeys
    <2>2. SavedMode(k) \in Modes
        BY <1>2 DEF SavedMode, Modes
    <2>3. SavedMode(k) \in Values("mode") /\ SavedMode(k) # Absent
        BY <2>2, SettingsAssumption DEF Values
    <2>4. Stored' /\ Setting("mode")' = SavedMode(k) /\ Same(Keys \ {"mode"})
        BY <1>3, <1>4, <2>1, <2>3, SetIs, Zenon DEF Same
    <2>5. Same(Keys \ FormKeys)
        BY <2>1, <2>4, Zenon DEF Same
    <2> QED
        BY <1>1, <1>9, <2>4, <2>5
<1>10. CASE k.at = "claude"
    <2>1. Set("claude", SavedClaude(k)) /\ "claude" \in FormKeys \ {"mode"}
        BY <1>10 DEF SaveStep, FormKeys
    <2>2. SavedClaude(k) \in BOOLEAN
        BY Zenon DEF SavedClaude
    <2>3. /\ Stored' /\ Setting("claude")' = SavedClaude(k)
          /\ Same(Keys \ {"claude"}) /\ Same(Keys \ FormKeys)
        BY <1>5, <2>1, <2>2, Zenon
    <2> QED
        BY <1>1, <1>10, <2>3
<1>11. CASE k.at = "claudeFields"
    <2>1. Set("claudeFields", k.form.claudeFields) /\ "claudeFields" \in FormKeys \ {"mode"}
        BY <1>11 DEF SaveStep, FormKeys
    <2>2. /\ Stored' /\ Setting("claudeFields")' = k.form.claudeFields
          /\ Same(Keys \ {"claudeFields"}) /\ Same(Keys \ FormKeys)
        BY <1>2, <1>5, <2>1, Zenon
    <2> QED
        BY <1>1, <1>11, <2>2
<1> QED
    BY <1>2, <1>6, <1>7, <1>8, <1>9, <1>10, <1>11 DEF Steps

\* What the user and the queue do to a title and the word list.
Chooses ==
    \/ TitleArrives \/ ChoosePrecise \/ JobRecordsTracks \/ ReplacementLands
    \/ \E levels \in (SUBSET NewWords) \ {{}} : ChooseLevels(levels)
    \/ ClearWords

\* A save begins.
Begins ==
    \E s \in Savers :
        (\E form \in Forms : BeginSave(s, form)) \/ (\E file \in Files : BeginImport(s, file))

LEMMA OtherSettings ==
    ASSUME Types
    PROVE  /\ Chooses \/ Begins \/ Crash \/ Restart \/ UNCHANGED vars => Stored' /\ Same(Keys)
           /\ CompleteSetup => Stored' /\ Setting("wizard")' /\ Same(Keys \ {"wizard"})
<1> Stored
    BY DEF Types
<1>1. Chooses \/ Begins \/ Crash \/ Restart \/ UNCHANGED vars => UNCHANGED db
    BY Zenon DEF Chooses, Begins, BeginSave, BeginImport, Crash, Restart, vars, TitleArrives,
       ChoosePrecise, JobRecordsTracks, ReplacementLands, ChooseLevels, ClearWords
<1>2. CompleteSetup => Set("wizard", TRUE)
    BY Zenon DEF CompleteSetup
<1>3. "wizard" \in Keys /\ "wizard" # "mode"
    BY KeysAreNames DEF Names
<1> QED
    BY <1>1, <1>2, <1>3, Untouched, FlagIsSet, Zenon

\* A title stays a title.
TitleStays == title' = Absent \/ title' \in Title

\* A step keeps the types when what it changes keeps its own.
LEMMA TypedAgain ==
    ASSUME TypeOK, Stored',
           release' = release, words' \in WordLists, TitleStays,
           stage' \in 1 .. Len(Startup) + 1, up' \in BOOLEAN, starts' \in 1 .. MaxStarts,
           isUpgrade' \in BOOLEAN, save' \in [Savers -> Saves], acts' \in 0 .. MaxActs,
           chosen' \in Choices, settled' \in BOOLEAN, smooth' \in BOOLEAN
    PROVE  TypeOK'
BY Zenon DEF TypeOK, Stored, Values, TitleStays

LEMMA StartUpTypes ==
    ASSUME Types, StartUp
    PROVE  Types'
<1>1. Stored'
    BY StartUpSettings
<1>2. /\ UNCHANGED <<release, up, starts, save, acts, chosen, settled, smooth>>
      /\ stage' = stage + 1 /\ stage \in 1 .. 11
    <2>1. /\ UNCHANGED <<release, up, starts, save, acts, chosen, settled, smooth>>
          /\ stage' = stage + 1
        BY DEF StartUp, Schema, Defaults, Levels, TracksFromTrack, PreciseMode, TitleVocabulary,
               Seed, AuthMode, AuthModeDone, Wizard, WizardDone, GoOn, user
    <2>2. \E w : At(w)
        BY Zenon DEF StartUp, Schema, Defaults, Levels, TracksFromTrack, PreciseMode, TitleVocabulary,
               Seed, AuthMode, AuthModeDone, Wizard, WizardDone
    <2>3. stage <= Len(Startup)
        BY <2>2 DEF At
    <2>4. Len(Startup) = 11 /\ stage \in 1 .. 12
        BY StageOf, Zenon
    <2> QED
        BY <2>1, <2>3, <2>4
<1>3. words' \in WordLists
    <2>1. words \in WordLists
        BY DEF Types, TypeOK
    <2> QED
        BY <2>1 DEF StartUp, Schema, Defaults, Levels, TracksFromTrack, PreciseMode, TitleVocabulary,
               Seed, AuthMode, AuthModeDone, Wizard, WizardDone, WordLists
<1>4. isUpgrade' \in BOOLEAN
    <2>1. isUpgrade \in BOOLEAN
        BY DEF Types, TypeOK
    <2> QED
        BY <2>1, Zenon DEF StartUp, Schema, Defaults, Levels, TracksFromTrack, PreciseMode, TitleVocabulary,
               Seed, AuthMode, AuthModeDone, Wizard, WizardDone
<1>5. TitleStays
    <2> USE DEF TitleStays
    <2>1. title = Absent \/ title \in Title
        BY DEF Types, TypeOK
    <2>2. CASE title' = title
        BY <2>1, <2>2
    <2>3. CASE Levels
        <3>1. CASE title' = [title EXCEPT !.levels = {title.threshold}] /\ title \in Title
            BY <3>1 DEF Title
        <3> QED
            BY <2>1, <2>2, <2>3, <3>1 DEF Levels
    <2>4. CASE TracksFromTrack
        <3>1. CASE title' = [title EXCEPT !.tracks = title.track] /\ title \in Title
            BY <3>1 DEF Title
        <3> QED
            BY <2>1, <2>2, <2>4, <3>1 DEF TracksFromTrack
    <2>5. CASE PreciseMode
        <3>1. CASE title' = [title EXCEPT !.mode = "estimate"] /\ title \in Title
            BY <3>1 DEF Title
        <3> QED
            BY <2>1, <2>2, <2>5, <3>1 DEF PreciseMode
    <2>6. CASE TitleVocabulary
        <3>1. CASE title' = [title EXCEPT !.levels = NewVocabulary(title.levels)] /\ title \in Title
            <4>1. title.levels \in SUBSET Vocabulary
                BY <3>1 DEF Title
            <4>2. \A w \in Vocabulary : VocabularyMap(w) \in Vocabulary
                BY DEF VocabularyMap, Vocabulary, OldWords, NewWords
            <4>3. NewVocabulary(title.levels) \in SUBSET Vocabulary
                BY <4>1, <4>2 DEF NewVocabulary, Vocabulary, NewWords
            <4> QED
                BY <3>1, <4>3 DEF Title
        <3> QED
            BY <2>1, <2>2, <2>6, <3>1 DEF TitleVocabulary
    <2> QED
        BY <2>2, <2>3, <2>4, <2>5, <2>6 DEF StartUp, Schema, Defaults, Seed, AuthMode, AuthModeDone,
           Wizard, WizardDone
<1>6. stage' \in 1 .. Len(Startup) + 1
    <2>1. Len(Startup) = 11
        BY StageOf, Zenon
    <2> QED
        BY <1>2, <2>1
<1>7. TypeOK'
    <2>1. /\ up' \in BOOLEAN /\ starts' \in 1 .. MaxStarts /\ save' \in [Savers -> Saves]
          /\ acts' \in 0 .. MaxActs /\ chosen' \in Choices /\ settled' \in BOOLEAN
          /\ smooth' \in BOOLEAN /\ release' = release /\ TypeOK
        BY <1>2 DEF Types, TypeOK
    <2> QED
        BY <1>1, <1>3, <1>4, <1>5, <1>6, <2>1, TypedAgain, Zenon
<1> QED
    BY <1>1, <1>2, <1>7 DEF Types

LEMMA ChoosesTypes ==
    ASSUME Types, Chooses
    PROVE  Types'
<1>1. Stored'
    BY OtherSettings
<1>2. /\ UNCHANGED <<release, stage, up, starts, isUpgrade, save, settled, smooth>>
      /\ acts < MaxActs /\ acts' = acts + 1
    BY DEF Chooses, TitleArrives, ChoosePrecise, JobRecordsTracks, ReplacementLands, ChooseLevels,
           ClearWords, Acts, Rest
<1>3. acts' \in 0 .. MaxActs
    BY <1>2, SettingsAssumption DEF Types, TypeOK
<1>4. words' \in WordLists
    <2>1. words \in WordLists
        BY DEF Types, TypeOK
    <2> QED
        BY <2>1 DEF Chooses, TitleArrives, ChoosePrecise, JobRecordsTracks, ReplacementLands,
           ChooseLevels, ClearWords, WordLists
<1>5. TitleStays /\ chosen' \in Choices
    <2> USE DEF TitleStays
    <2>1. title = Absent \/ title \in Title
        BY DEF Types, TypeOK
    <2>2. chosen \in Choices
        BY DEF Types, TypeOK
    <2>3. CASE TitleArrives
        BY <2>2, <2>3 DEF TitleArrives, Title, Choices, Vocabulary, OldWords, NewWords, Tracks
    <2>4. CASE ChoosePrecise
        BY <2>1, <2>2, <2>4 DEF ChoosePrecise, Title, Choices
    <2>5. CASE JobRecordsTracks
        BY <2>1, <2>2, <2>5 DEF JobRecordsTracks, Title, Choices, Tracks
    <2>6. CASE ReplacementLands
        BY <2>1, <2>2, <2>6 DEF ReplacementLands, Title, Choices, Tracks
    <2>7. CASE \E levels \in (SUBSET NewWords) \ {{}} : ChooseLevels(levels)
        BY <2>1, <2>2, <2>7 DEF ChooseLevels, Title, Choices, Vocabulary
    <2>8. CASE ClearWords
        BY <2>1, <2>2, <2>8 DEF ClearWords, Choices
    <2> QED
        BY <2>3, <2>4, <2>5, <2>6, <2>7, <2>8 DEF Chooses
<1>6. TypeOK'
    BY <1>1, <1>2, <1>3, <1>4, <1>5, TypedAgain DEF Types, TypeOK
<1> QED
    BY <1>1, <1>2, <1>6 DEF Types

LEMMA SetupTypes ==
    ASSUME Types, CompleteSetup
    PROVE  Types'
<1>1. Stored'
    BY OtherSettings
<1>2. /\ UNCHANGED <<release, words, title, stage, up, starts, isUpgrade, save, settled, smooth>>
      /\ acts < MaxActs /\ acts' = acts + 1 /\ chosen' = [chosen EXCEPT !.wizard = TRUE]
    BY DEF CompleteSetup, Acts, Rest
<1>3. acts' \in 0 .. MaxActs
    BY <1>2, SettingsAssumption DEF Types, TypeOK
<1>4. chosen' \in Choices
    BY <1>2 DEF Types, TypeOK, Choices
<1>5. TypeOK'
    BY <1>1, <1>2, <1>3, <1>4, TypedAgain DEF Types, TypeOK, TitleStays
<1> QED
    BY <1>1, <1>2, <1>5 DEF Types

\* What the save that begins looks like, and what it does to the others.
LEMMA BeginIs ==
    ASSUME Types, Begins
    PROVE  \E s \in Savers, k \in SaveRecords :
              /\ save[s] = Idle /\ Serving
              /\ save' = [Disturbed EXCEPT ![s] = k]
              /\ k.alone => Busy = {} /\ k.at = "hash" /\ k.hash = Setting("hash") /\ ~k.import
              /\ k.import => k.at # "hash"
              /\ UNCHANGED <<release, db, words, title, stage, up, starts, isUpgrade, chosen, smooth>>
              /\ acts < MaxActs /\ acts' = acts + 1 /\ settled' = FALSE
<1>1. CASE \E s \in Savers : \E form \in Forms : BeginSave(s, form)
    <2>1. PICK s \in Savers, form \in Forms : BeginSave(s, form)
        BY <1>1
    <2> DEFINE k == [at |-> "hash", form |-> form, import |-> FALSE,
                     hash |-> Setting("hash"), alone |-> Busy = {}]
    <2>2. form \in FormShape
        BY SettingsAssumption
    <2>3. Setting("hash") \in BOOLEAN
        BY SettingValues, KeysAreNames DEF Types, Names
    <2>4. (Busy = {}) \in BOOLEAN
        BY Zenon
    <2>5. k \in SaveRecords
        BY <2>2, <2>3, <2>4 DEF SaveRecords, Steps
    <2>6. /\ k.at = "hash" /\ k.hash = Setting("hash") /\ ~k.import
          /\ k.alone => Busy = {}
        OBVIOUS
    <2>7. /\ save[s] = Idle /\ Serving
          /\ save' = [Disturbed EXCEPT ![s] = k]
          /\ UNCHANGED <<release, db, words, title, stage, up, starts, isUpgrade, chosen, smooth>>
          /\ acts < MaxActs /\ acts' = acts + 1 /\ settled' = FALSE
        BY <2>1, Zenon DEF BeginSave, Acts, Rest
    <2> HIDE DEF k
    <2> QED
        BY <2>5, <2>6, <2>7, Zenon
<1>2. CASE \E s \in Savers : \E file \in Files : BeginImport(s, file)
    <2>1. PICK s \in Savers, file \in Files : BeginImport(s, file)
        BY <1>2
    <2> DEFINE k == [at |-> "mode", form |-> file, import |-> TRUE, hash |-> FALSE, alone |-> FALSE]
    <2>2. file \in FormShape
        BY SettingsAssumption
    <2>3. k \in SaveRecords
        BY <2>2 DEF SaveRecords, Steps
    <2>4. k.at # "hash" /\ ~k.alone
        OBVIOUS
    <2>5. /\ save[s] = Idle /\ Serving
          /\ save' = [Disturbed EXCEPT ![s] = k]
          /\ UNCHANGED <<release, db, words, title, stage, up, starts, isUpgrade, chosen, smooth>>
          /\ acts < MaxActs /\ acts' = acts + 1 /\ settled' = FALSE
        BY <2>1, Zenon DEF BeginImport, Acts, Rest
    <2> HIDE DEF k
    <2> QED
        BY <2>3, <2>4, <2>5, Zenon
<1> QED
    BY <1>1, <1>2, Zenon DEF Begins

\* A save that begins leaves the others as they are, but no longer alone.
LEMMA DisturbedIs ==
    ASSUME Types
    PROVE  /\ Disturbed \in [Savers -> Saves]
           /\ \A s \in Savers : save[s] = Idle => Disturbed[s] = Idle
           /\ \A s \in Savers : save[s] # Idle =>
                /\ Disturbed[s] \in SaveRecords /\ ~Disturbed[s].alone
                /\ Disturbed[s].at = save[s].at /\ Disturbed[s].import = save[s].import
<1>1. ASSUME NEW s \in Savers, save[s] # Idle
      PROVE  LET k == [save[s] EXCEPT !.alone = FALSE] IN
             /\ k \in SaveRecords /\ ~k.alone /\ k.at = save[s].at /\ k.import = save[s].import
    <2>1. save[s] \in SaveRecords
        BY <1>1, SavesAreRecords
    <2> QED
        BY <2>1 DEF SaveRecords
<1>2. \A s \in Savers : Disturbed[s] = IF save[s] # Idle THEN [save[s] EXCEPT !.alone = FALSE] ELSE Idle
    BY Zenon DEF Disturbed, Busy
<1>3. \A s \in Savers : Disturbed[s] \in Saves
    BY <1>1, <1>2, Zenon DEF Saves, SaveRecords
<1>4. Disturbed \in [Savers -> Saves]
    <2>1. Disturbed = [s \in Savers |-> Disturbed[s]]
        BY Zenon DEF Disturbed
    <2> QED
        BY <1>3, <2>1, Zenon
<1> QED
    BY <1>1, <1>2, <1>4, Zenon

LEMMA BeginsTypes ==
    ASSUME Types, Begins
    PROVE  Types'
<1>1. PICK s \in Savers, k \in SaveRecords :
              /\ save[s] = Idle
              /\ save' = [Disturbed EXCEPT ![s] = k]
              /\ k.import => k.at # "hash"
              /\ UNCHANGED <<release, db, words, title, stage, up, starts, isUpgrade, chosen, smooth>>
              /\ acts < MaxActs /\ acts' = acts + 1 /\ settled' = FALSE
    BY BeginIs, Zenon
<1>2. Stored'
    BY OtherSettings
<1>3. save' \in [Savers -> Saves]
    <2>1. k \in Saves
        BY Zenon DEF Saves, SaveRecords
    <2> QED
        BY <1>1, <2>1, DisturbedIs, Zenon
<1>4. ASSUME NEW q \in Savers, save'[q] # Idle, save'[q].import PROVE save'[q].at # "hash"
    <2>1. CASE q = s
        <3>1. save'[q] = k
            BY <1>1, <2>1, DisturbedIs, Zenon
        <3> QED
            BY <1>1, <1>4, <3>1
    <2>2. CASE q # s
        <3>1. save'[q] = Disturbed[q]
            BY <1>1, <2>2, DisturbedIs, Zenon
        <3>2. save[q] # Idle
            BY <1>4, <3>1, DisturbedIs, Zenon
        <3> QED
            BY <1>4, <3>1, <3>2, DisturbedIs, Zenon DEF Types
    <2> QED
        BY <2>1, <2>2
<1>5. acts' \in 0 .. MaxActs
    BY <1>1, SettingsAssumption DEF Types, TypeOK
<1>6. TypeOK'
    <2>1. /\ words' \in WordLists /\ TitleStays /\ stage' \in 1 .. Len(Startup) + 1
          /\ up' \in BOOLEAN /\ starts' \in 1 .. MaxStarts /\ isUpgrade' \in BOOLEAN
          /\ chosen' \in Choices /\ settled' \in BOOLEAN /\ smooth' \in BOOLEAN
          /\ release' = release /\ TypeOK
        BY <1>1, Zenon DEF Types, TypeOK, TitleStays
    <2> QED
        BY <1>2, <1>3, <1>5, <2>1, TypedAgain, Zenon
<1> QED
    BY <1>1, <1>2, <1>4, <1>6, Zenon DEF Types

\* Where a save goes on.
NextKey(k) == IF k.import THEN FileOrder[k.at] ELSE FormOrder[k.at]

LEMMA NextKeyIs ==
    ASSUME NEW k \in SaveRecords, k.import => k.at # "hash"
    PROVE  /\ NextKey(k) = "none" \/ NextKey(k) \in Steps \ {"hash"}
           /\ ~k.import =>
                /\ k.at = "hash" => NextKey(k) = "username"
                /\ k.at = "username" => NextKey(k) = "sso"
                /\ k.at = "sso" => NextKey(k) = "mode"
                /\ k.at = "mode" => NextKey(k) = "claude"
                /\ k.at = "claude" => NextKey(k) = "claudeFields"
                /\ k.at = "claudeFields" => NextKey(k) = "none"
<1>1. k.at \in Steps /\ k.import \in BOOLEAN
    BY RecordFields
<1> QED
    BY <1>1 DEF NextKey, FileOrder, FormOrder, Steps

LEMMA SaveStepIs ==
    ASSUME Types, NEW s \in Savers, SaveStep(s)
    PROVE  LET k == save[s] IN
           /\ Serving /\ k \in SaveRecords /\ (k.import => k.at # "hash")
           /\ IF NextKey(k) = "none" THEN save' = [save EXCEPT ![s] = Idle]
              ELSE save' = [save EXCEPT ![s] = [k EXCEPT !.at = NextKey(k)]]
           /\ settled' = (NextKey(k) = "none" /\ k.alone)
           /\ chosen' = [chosen EXCEPT !.mode = TRUE]
           /\ UNCHANGED <<release, words, title, stage, up, starts, isUpgrade, acts, smooth>>
<1>1. save[s] # Idle /\ Serving
    BY Zenon DEF SaveStep
<1>2. save[s] \in SaveRecords
    BY <1>1, SavesAreRecords
<1>3. save[s].import => save[s].at # "hash"
    BY <1>1, Zenon DEF Types
<1>4. /\ save' = [save EXCEPT ![s] = IF NextKey(save[s]) = "none" THEN Idle
                                     ELSE [save[s] EXCEPT !.at = NextKey(save[s])]]
      /\ settled' = (NextKey(save[s]) = "none" /\ save[s].alone)
      /\ chosen' = [chosen EXCEPT !.mode = TRUE]
      /\ UNCHANGED <<release, words, title, stage, up, starts, isUpgrade, acts, smooth>>
    BY Zenon DEF SaveStep, NextKey, Rest
<1> QED
    BY <1>1, <1>2, <1>3, <1>4, Zenon

LEMMA SaveStepTypes ==
    ASSUME Types, NEW s \in Savers, SaveStep(s)
    PROVE  Types'
<1> DEFINE k == save[s]
<1> DEFINE after == [k EXCEPT !.at = NextKey(k)]
<1>1. /\ k \in SaveRecords /\ (k.import => k.at # "hash")
      /\ IF NextKey(k) = "none" THEN save' = [save EXCEPT ![s] = Idle]
         ELSE save' = [save EXCEPT ![s] = after]
      /\ settled' = (NextKey(k) = "none" /\ k.alone)
      /\ chosen' = [chosen EXCEPT !.mode = TRUE]
      /\ UNCHANGED <<release, words, title, stage, up, starts, isUpgrade, acts, smooth>>
    BY SaveStepIs, Zenon
<1>2. Stored'
    BY SaveSettings, Zenon
<1>3. NextKey(k) # "none" => after \in SaveRecords /\ after.at # "hash" /\ after.import = k.import
    <2>1. NextKey(k) # "none" => NextKey(k) \in Steps \ {"hash"}
        BY <1>1, NextKeyIs, Zenon
    <2> QED
        BY <1>1, <2>1 DEF SaveRecords
<1>4. save \in [Savers -> Saves]
    BY DEF Types, TypeOK
<1>5. save' \in [Savers -> Saves]
    <2>1. Idle \in Saves /\ (NextKey(k) # "none" => after \in Saves)
        BY <1>3, Zenon DEF Saves, SaveRecords
    <2> HIDE DEF after
    <2> QED
        BY <1>1, <1>4, <2>1, Zenon
<1>6. ASSUME NEW q \in Savers, save'[q] # Idle, save'[q].import PROVE save'[q].at # "hash"
    <2>1. CASE q = s
        <3>1. NextKey(k) # "none" /\ save'[q] = after
            BY <1>1, <1>4, <1>6, <2>1, Zenon
        <3> QED
            BY <1>3, <3>1
    <2>2. CASE q # s
        <3>1. save'[q] = save[q]
            BY <1>1, <1>4, <2>2, Zenon
        <3> QED
            BY <1>6, <3>1, Zenon DEF Types
    <2> QED
        BY <2>1, <2>2
<1>7. chosen' \in Choices
    BY <1>1 DEF Types, TypeOK, Choices
<1>8. settled' \in BOOLEAN
    BY <1>1, Zenon
<1>9. TypeOK'
    <2>1. /\ words' \in WordLists /\ TitleStays /\ stage' \in 1 .. Len(Startup) + 1
          /\ up' \in BOOLEAN /\ starts' \in 1 .. MaxStarts /\ isUpgrade' \in BOOLEAN
          /\ acts' \in 0 .. MaxActs /\ smooth' \in BOOLEAN
          /\ release' = release /\ TypeOK
        BY <1>1, Zenon DEF Types, TypeOK, TitleStays
    <2> QED
        BY <1>2, <1>5, <1>7, <1>8, <2>1, TypedAgain, Zenon
<1> QED
    BY <1>1, <1>2, <1>6, <1>9, Zenon DEF Types

LEMMA ProcessTypes ==
    ASSUME Types, Crash \/ Restart \/ UNCHANGED vars
    PROVE  Types'
<1>1. Stored'
    BY OtherSettings
<1>2. CASE Crash
    <2>1. /\ up' = FALSE /\ save' = [s \in Savers |-> Idle] /\ smooth' = (smooth /\ Serving)
          /\ UNCHANGED <<release, words, title, stage, starts, isUpgrade, acts, chosen, settled>>
        BY <1>2 DEF Crash
    <2>2. save' \in [Savers -> Saves] /\ \A s \in Savers : save'[s] = Idle
        BY <2>1, Zenon DEF Saves
    <2>3. TypeOK'
        <3>1. /\ words' \in WordLists /\ TitleStays /\ stage' \in 1 .. Len(Startup) + 1
              /\ up' \in BOOLEAN /\ starts' \in 1 .. MaxStarts /\ isUpgrade' \in BOOLEAN
              /\ acts' \in 0 .. MaxActs /\ smooth' \in BOOLEAN /\ chosen' \in Choices
              /\ settled' \in BOOLEAN /\ release' = release /\ TypeOK
            BY <2>1, Zenon DEF Types, TypeOK, TitleStays
        <3> QED
            BY <1>1, <2>2, <3>1, TypedAgain, Zenon
    <2>4. starts' < MaxStarts
        BY <1>2, <2>1 DEF Crash
    <2> QED
        BY <1>1, <2>2, <2>3, <2>4, Zenon DEF Types
<1>3. CASE Restart
    <2>1. /\ up' = TRUE /\ starts' = starts + 1 /\ stage' = 1
          /\ UNCHANGED <<release, words, title, isUpgrade, save, acts, chosen, settled, smooth>>
        BY <1>3 DEF Restart, user
    <2>2. starts' \in 1 .. MaxStarts /\ stage' \in 1 .. Len(Startup) + 1
        <3>1. stage' \in 1 .. Len(Startup) + 1
            <4>1. Len(Startup) = 11
                BY StageOf, Zenon
            <4> QED
                BY <2>1, <4>1
        <3> QED
            BY <1>3, <2>1, <3>1, SettingsAssumption DEF Types, TypeOK, Restart
    <2>3. TypeOK'
        <3>1. /\ words' \in WordLists /\ TitleStays /\ up' \in BOOLEAN /\ isUpgrade' \in BOOLEAN
              /\ acts' \in 0 .. MaxActs /\ smooth' \in BOOLEAN /\ chosen' \in Choices
              /\ settled' \in BOOLEAN /\ release' = release /\ save' \in [Savers -> Saves] /\ TypeOK
            BY <2>1, Zenon DEF Types, TypeOK, TitleStays
        <3> QED
            BY <1>1, <2>2, <3>1, TypedAgain, Zenon
    <2> QED
        BY <1>1, <2>1, <2>3, Zenon DEF Types
<1>4. CASE UNCHANGED vars
    BY <1>1, <1>4, Zenon DEF Types, TypeOK, vars
<1> QED
    BY <1>2, <1>3, <1>4

---------------------------------------------------------------------------
(* How settings and stages move *)

LEMMA NextCases ==
    ASSUME [Next]_vars
    PROVE  \/ StartUp \/ Chooses \/ CompleteSetup \/ Begins
           \/ \E s \in Savers : SaveStep(s)
           \/ Crash \/ Restart \/ UNCHANGED vars
BY Zenon DEF Next, Chooses, Begins

TypesHold == Types /\ [Next]_vars => Types'

LEMMA TypesAreKept == TypesHold
BY NextCases, StartUpTypes, ChoosesTypes, SetupTypes, BeginsTypes, SaveStepTypes, ProcessTypes, Zenon
   DEF TypesHold

\* A start does its commits one after another.
LEMMA StartUpStage ==
    ASSUME Types, StartUp
    PROVE  /\ stage' = stage + 1 /\ stage \in 1 .. 11 /\ up /\ ~Serving
           /\ UNCHANGED <<release, up, starts, save, acts, chosen, settled, smooth>>
           /\ Schema => stage = 1
           /\ Defaults => stage = 2
           /\ Levels => stage = 3
           /\ TracksFromTrack => stage = 4
           /\ PreciseMode => stage = 5
           /\ TitleVocabulary => stage = 6
           /\ Seed => stage = 7
           /\ AuthMode => stage = 8
           /\ AuthModeDone => stage = 9
           /\ Wizard => stage = 10
           /\ WizardDone => stage = 11
<1>1. /\ stage' = stage + 1
      /\ UNCHANGED <<release, up, starts, save, acts, chosen, settled, smooth>>
    BY DEF StartUp, Schema, Defaults, Levels, TracksFromTrack, PreciseMode, TitleVocabulary,
           Seed, AuthMode, AuthModeDone, Wizard, WizardDone, GoOn, user
<1>2. PICK w : At(w)
    BY Zenon DEF StartUp, Schema, Defaults, Levels, TracksFromTrack, PreciseMode, TitleVocabulary,
           Seed, AuthMode, AuthModeDone, Wizard, WizardDone
<1>3. Len(Startup) = 11 /\ stage \in 1 .. 12
    BY StageOf, Zenon
<1>4. stage \in 1 .. 11 /\ up /\ ~Serving
    BY <1>2, <1>3 DEF At, Serving
<1>5. /\ Schema => stage = 1
      /\ Defaults => stage = 2
      /\ Levels => stage = 3
      /\ TracksFromTrack => stage = 4
      /\ PreciseMode => stage = 5
      /\ TitleVocabulary => stage = 6
      /\ Seed => stage = 7
      /\ AuthMode => stage = 8
      /\ AuthModeDone => stage = 9
      /\ Wizard => stage = 10
      /\ WizardDone => stage = 11
    <2>1. /\ Schema => At("schema")
          /\ Defaults => At("defaults")
          /\ Levels => At("levels")
          /\ TracksFromTrack => At("tracks")
          /\ PreciseMode => At("precise")
          /\ TitleVocabulary => At("vocabulary")
          /\ Seed => At("seed")
          /\ AuthMode => At("auth")
          /\ AuthModeDone => At("authDone")
          /\ Wizard => At("wizard")
          /\ WizardDone => At("wizardDone")
        BY Zenon DEF Schema, Defaults, Levels, TracksFromTrack, PreciseMode, TitleVocabulary,
           Seed, AuthMode, AuthModeDone, Wizard, WizardDone
    <2> QED
        BY <2>1, StageOf
<1> QED
    BY <1>1, <1>4, <1>5, Zenon

\* Only a restart takes a start back to its first commit.
LEMMA StageMoves ==
    ASSUME Types, [Next]_vars, ~StartUp
    PROVE  stage' = stage \/ stage' = 1
<1>1. CASE Chooses
    BY <1>1, Zenon DEF Chooses, TitleArrives, ChoosePrecise, JobRecordsTracks, ReplacementLands,
           ChooseLevels, ClearWords, Rest
<1>2. CASE CompleteSetup
    BY <1>2, Zenon DEF CompleteSetup, Rest
<1>3. CASE Begins
    BY <1>3, Zenon DEF Begins, BeginSave, BeginImport, Rest
<1>4. CASE \E s \in Savers : SaveStep(s)
    BY <1>4, SaveStepIs, Zenon
<1>5. CASE Crash \/ Restart \/ UNCHANGED vars
    BY <1>5, Zenon DEF Crash, Restart, vars
<1> QED
    BY <1>1, <1>2, <1>3, <1>4, <1>5, NextCases

\* Flags stay set, and each is set by one commit.
LEMMA SettingsMove ==
    ASSUME Types, [Next]_vars
    PROVE  /\ Setting("levelsDone") => Setting("levelsDone")'
           /\ Setting("preciseDone") => Setting("preciseDone")'
           /\ Setting("seeded") => Setting("seeded")'
           /\ Setting("modeDone") => Setting("modeDone")'
           /\ Setting("wizardDone") => Setting("wizardDone")'
           /\ Setting("wizard") => Setting("wizard")'
           /\ Setting("levelsDone")' => Setting("levelsDone") \/ Levels
           /\ Setting("preciseDone")' => Setting("preciseDone") \/ PreciseMode
           /\ Setting("modeDone")' => Setting("modeDone") \/ AuthModeDone
           /\ Setting("wizardDone")' => Setting("wizardDone") \/ WizardDone
           /\ Setting("wizard")' =>
                \/ Setting("wizard") \/ CompleteSetup
                \/ Wizard /\ ~Setting("wizardDone") /\ isUpgrade
           /\ Setting("enabled")' = Setting("enabled")
           /\ \/ Setting("mode")' = Setting("mode")
              \/ AuthMode /\ ~Setting("modeDone") /\ Setting("enabled")
              \/ \E s \in Savers : SaveStep(s)
           /\ Same(FormKeys \ {"mode"}) \/ \E s \in Savers : SaveStep(s)
<1> DEFINE Flagged == {"levelsDone", "preciseDone", "seeded", "modeDone", "wizardDone", "wizard",
                       "enabled", "mode"}
<1> DEFINE Rst == FormKeys \ {"mode"}
<1>1. Flagged \subseteq Keys /\ Rst \subseteq Keys /\ Flagged \cap FormKeys = {"mode"}
    BY KeysAreNames DEF Names, FormKeys
<1>2. CASE Schema \/ Defaults \/ TracksFromTrack \/ TitleVocabulary \/ Chooses \/ Begins
           \/ Crash \/ Restart \/ UNCHANGED vars
    <2>1. Same(Keys)
        BY <1>2, StartUpSettings, OtherSettings, Zenon DEF StartUp
    <2>2. Same(Flagged) /\ Same(Rst)
        BY <1>1, <2>1, Zenon DEF Same
    <2> QED
        BY <2>2, Zenon DEF Same
<1>3. CASE Levels
    <2>1. Setting("levelsDone")' /\ Same(Keys \ {"levelsDone"})
        BY <1>3, StartUpSettings, Zenon DEF StartUp
    <2>2. Same(Flagged \ {"levelsDone"}) /\ Same(Rst)
        BY <1>1, <2>1 DEF Same, FormKeys
    <2> QED
        BY <1>3, <2>1, <2>2 DEF Same
<1>4. CASE PreciseMode
    <2>1. Setting("preciseDone")' /\ Same(Keys \ {"preciseDone"})
        BY <1>4, StartUpSettings, Zenon DEF StartUp
    <2>2. Same(Flagged \ {"preciseDone"}) /\ Same(Rst)
        BY <1>1, <2>1 DEF Same, FormKeys
    <2> QED
        BY <1>4, <2>1, <2>2 DEF Same
<1>5. CASE Seed
    <2>1. Setting("seeded")' /\ Same(Keys \ {"seeded"})
        BY <1>5, StartUpSettings, Zenon DEF StartUp
    <2>2. Same(Flagged \ {"seeded"}) /\ Same(Rst)
        BY <1>1, <2>1 DEF Same, FormKeys
    <2> QED
        BY <1>5, <2>1, <2>2 DEF Same
<1>6. CASE AuthMode
    <2>1. /\ Same(Keys \ {"mode"})
          /\ Setting("mode")' = Setting("mode") \/ (~Setting("modeDone") /\ Setting("enabled"))
        BY <1>6, StartUpSettings, Zenon DEF StartUp
    <2>2. Same(Flagged \ {"mode"}) /\ Same(Rst)
        BY <1>1, <2>1 DEF Same, FormKeys
    <2>3. /\ Setting("levelsDone")' = Setting("levelsDone")
          /\ Setting("preciseDone")' = Setting("preciseDone")
          /\ Setting("seeded")' = Setting("seeded")
          /\ Setting("modeDone")' = Setting("modeDone")
          /\ Setting("wizardDone")' = Setting("wizardDone")
          /\ Setting("wizard")' = Setting("wizard")
          /\ Setting("enabled")' = Setting("enabled")
        BY <2>2 DEF Same
    <2> QED
        BY <1>6, <2>1, <2>2, <2>3
<1>7. CASE AuthModeDone
    <2>1. Setting("modeDone")' /\ Same(Keys \ {"modeDone"})
        BY <1>7, StartUpSettings, Zenon DEF StartUp
    <2>2. Same(Flagged \ {"modeDone"}) /\ Same(Rst)
        BY <1>1, <2>1 DEF Same, FormKeys
    <2> QED
        BY <1>7, <2>1, <2>2 DEF Same
<1>8. CASE Wizard
    <2>1. /\ Same(Keys \ {"wizard"})
          /\ IF ~Setting("wizardDone") /\ isUpgrade
             THEN Setting("wizard")' ELSE Setting("wizard")' = Setting("wizard")
        BY <1>8, StartUpSettings, Zenon DEF StartUp
    <2>2. Same(Flagged \ {"wizard"}) /\ Same(Rst)
        BY <1>1, <2>1 DEF Same, FormKeys
    <2> QED
        BY <1>8, <2>1, <2>2 DEF Same
<1>9. CASE WizardDone
    <2>1. Setting("wizardDone")' /\ Same(Keys \ {"wizardDone"})
        BY <1>9, StartUpSettings, Zenon DEF StartUp
    <2>2. Same(Flagged \ {"wizardDone"}) /\ Same(Rst)
        BY <1>1, <2>1 DEF Same, FormKeys
    <2> QED
        BY <1>9, <2>1, <2>2 DEF Same
<1>10. CASE CompleteSetup
    <2>1. Setting("wizard")' /\ Same(Keys \ {"wizard"})
        BY <1>10, OtherSettings, Zenon
    <2>2. Same(Flagged \ {"wizard"}) /\ Same(Rst)
        BY <1>1, <2>1 DEF Same, FormKeys
    <2> QED
        BY <1>10, <2>1, <2>2 DEF Same
<1>11. CASE \E s \in Savers : SaveStep(s)
    <2>1. Same(Keys \ FormKeys)
        BY <1>11, SaveSettings, Zenon
    <2>2. Same(Flagged \ {"mode"})
        BY <1>1, <2>1 DEF Same
    <2>3. /\ Setting("levelsDone")' = Setting("levelsDone")
          /\ Setting("preciseDone")' = Setting("preciseDone")
          /\ Setting("seeded")' = Setting("seeded")
          /\ Setting("modeDone")' = Setting("modeDone")
          /\ Setting("wizardDone")' = Setting("wizardDone")
          /\ Setting("wizard")' = Setting("wizard")
          /\ Setting("enabled")' = Setting("enabled")
        BY <2>2 DEF Same
    <2> QED
        BY <1>11, <2>3
<1> QED
    BY <1>2, <1>3, <1>4, <1>5, <1>6, <1>7, <1>8, <1>9, <1>10, <1>11, NextCases DEF StartUp

\* A commit of a start leaves its flag.
Flags ==
    /\ stage > 3 => Setting("levelsDone")
    /\ stage > 5 => Setting("preciseDone")
    /\ stage > 7 => Setting("seeded")
    /\ stage > 9 => Setting("modeDone")
    /\ stage > 11 => Setting("wizardDone")

LEMMA FlagsAreKept ==
    ASSUME Types, Flags, [Next]_vars
    PROVE  Flags'
<1>1. CASE StartUp
    <2>1. stage' = stage + 1 /\ stage \in 1 .. 11
        BY <1>1, StartUpStage, Zenon
    <2>2. /\ stage = 3 => Levels
          /\ stage = 5 => PreciseMode
          /\ stage = 7 => Seed
          /\ stage = 9 => AuthModeDone
          /\ stage = 11 => WizardDone
        BY <1>1, StartUpStage DEF StartUp
    <2>3. /\ Levels => Setting("levelsDone")'
          /\ PreciseMode => Setting("preciseDone")'
          /\ Seed => Setting("seeded")'
          /\ AuthModeDone => Setting("modeDone")'
          /\ WizardDone => Setting("wizardDone")'
        BY <1>1, StartUpSettings, Zenon
    <2> QED
        BY <2>1, <2>2, <2>3, SettingsMove DEF Flags
<1>2. CASE ~StartUp
    BY <1>2, StageMoves, SettingsMove DEF Flags
<1> QED
    BY <1>1, <1>2

---------------------------------------------------------------------------
(* What the user chose is kept *)

\* A choice comes after the flag of its migration, so that no later start touches it.
Kept ==
    /\ chosen.levels # Absent =>
         /\ title # Absent /\ title.levels = chosen.levels
         /\ chosen.levels \cap OldWords = {} /\ Setting("levelsDone")
    /\ chosen.precise # Absent =>
         title # Absent /\ title.mode = chosen.precise /\ Setting("preciseDone")
    /\ chosen.tracks # Absent => title # Absent /\ title.tracks = chosen.tracks
    /\ chosen.words # Absent => words = "empty" /\ Setting("seeded")

LEMMA TitleShape ==
    ASSUME Types
    PROVE  /\ title # Absent => title \in Title
           /\ chosen \in Choices
BY DEF Types, TypeOK

LEMMA StartUpKeeps ==
    ASSUME Types, Kept, StartUp
    PROVE  Kept'
<1>1. chosen' = chosen
    BY StartUpStage, Zenon
<1>2. /\ Setting("levelsDone") => Setting("levelsDone")'
      /\ Setting("preciseDone") => Setting("preciseDone")'
      /\ Setting("seeded") => Setting("seeded")'
    BY SettingsMove, Zenon DEF Next
<1>3. /\ title # Absent => title \in Title
      /\ chosen \in Choices
    BY TitleShape, Zenon
<1>4. chosen.words # Absent => words' = "empty"
    <2>1. CASE Schema \/ Seed
        BY <2>1 DEF Schema, Seed, Kept
    <2>2. CASE ~(Schema \/ Seed)
        BY <2>2 DEF StartUp, Defaults, Levels, TracksFromTrack, PreciseMode, TitleVocabulary,
           AuthMode, AuthModeDone, Wizard, WizardDone, Kept
    <2> QED
        BY <2>1, <2>2
<1>5. /\ title # Absent => title' # Absent
      /\ chosen.levels # Absent => title'.levels = title.levels
      /\ chosen.precise # Absent => title'.mode = title.mode
      /\ chosen.tracks # Absent => title'.tracks = title.tracks
    <2>1. CASE title' = title
        BY <2>1
    <2>2. CASE title # Absent /\ Levels /\ title' = [title EXCEPT !.levels = {title.threshold}]
               /\ ~Setting("levelsDone")
        <3>1. title' \in Title /\ title'.mode = title.mode /\ title'.tracks = title.tracks
            BY <1>3, <2>2 DEF Title
        <3>2. chosen.levels = Absent
            BY <2>2 DEF Kept
        <3> QED
            BY <3>1, <3>2, AbsentAssumption
    <2>3. CASE title # Absent /\ title.tracks = Absent /\ title' = [title EXCEPT !.tracks = title.track]
        <3>1. title' \in Title /\ title'.mode = title.mode /\ title'.levels = title.levels
            BY <1>3, <2>3 DEF Title
        <3>2. chosen.tracks = Absent
            BY <2>3 DEF Kept
        <3> QED
            BY <3>1, <3>2, AbsentAssumption
    <2>4. CASE title # Absent /\ ~Setting("preciseDone") /\ title' = [title EXCEPT !.mode = "estimate"]
        <3>1. title' \in Title /\ title'.levels = title.levels /\ title'.tracks = title.tracks
            BY <1>3, <2>4 DEF Title
        <3>2. chosen.precise = Absent
            BY <2>4 DEF Kept
        <3> QED
            BY <3>1, <3>2, AbsentAssumption
    <2>5. CASE title # Absent /\ title.levels \cap OldWords # {}
               /\ title' = [title EXCEPT !.levels = NewVocabulary(title.levels)]
        <3>1. title'.mode = title.mode /\ title'.tracks = title.tracks
            BY <1>3, <2>5 DEF Title
        <3>2. chosen.levels = Absent
            BY <2>5 DEF Kept
        <3>3. title' # Absent
            <4>1. TitleStays /\ title' = [title EXCEPT !.levels = NewVocabulary(title.levels)]
                BY <2>5, StartUpTypes DEF Types, TypeOK, TitleStays
            <4>2. \A w \in Vocabulary : VocabularyMap(w) \in Vocabulary
                BY DEF VocabularyMap, Vocabulary, OldWords, NewWords
            <4>3. title.levels \in SUBSET Vocabulary
                BY <1>3, <2>5 DEF Title
            <4>4. NewVocabulary(title.levels) \in SUBSET Vocabulary
                BY <4>2, <4>3 DEF NewVocabulary, Vocabulary, NewWords
            <4>5. title' \in Title
                BY <1>3, <2>5, <4>4 DEF Title
            <4> QED
                BY <4>5, AbsentAssumption
        <3> QED
            BY <3>1, <3>2, <3>3
    <2>6. \/ title' = title
          \/ title # Absent /\ Levels /\ title' = [title EXCEPT !.levels = {title.threshold}]
               /\ ~Setting("levelsDone")
          \/ title # Absent /\ title.tracks = Absent /\ title' = [title EXCEPT !.tracks = title.track]
          \/ title # Absent /\ ~Setting("preciseDone") /\ title' = [title EXCEPT !.mode = "estimate"]
          \/ title # Absent /\ title.levels \cap OldWords # {}
               /\ title' = [title EXCEPT !.levels = NewVocabulary(title.levels)]
        BY Zenon DEF StartUp, Schema, Defaults, Levels, TracksFromTrack, PreciseMode, TitleVocabulary,
           Seed, AuthMode, AuthModeDone, Wizard, WizardDone
    <2> QED
        BY <2>1, <2>2, <2>3, <2>4, <2>5, <2>6
<1> QED
    BY <1>1, <1>2, <1>4, <1>5 DEF Kept

LEMMA ChoosesKeeps ==
    ASSUME Types, Flags, Kept, Chooses
    PROVE  Kept'
<1>1. /\ Setting("levelsDone")' = Setting("levelsDone")
      /\ Setting("preciseDone")' = Setting("preciseDone")
      /\ Setting("seeded")' = Setting("seeded")
    BY OtherSettings, KeysAreNames DEF Same, Names
<1>2. Setting("levelsDone") /\ Setting("preciseDone") /\ Setting("seeded")
    <2>1. stage > 11
        <3>1. Len(Startup) = 11 /\ stage \in 1 .. 12
            BY StageOf, Zenon
        <3>2. Serving
            BY Zenon DEF Chooses, TitleArrives, ChoosePrecise, JobRecordsTracks, ReplacementLands,
               ChooseLevels, ClearWords, Acts
        <3> QED
            BY <3>1, <3>2 DEF Serving
    <2>2. stage > 3 /\ stage > 5 /\ stage > 7
        <3>1. stage \in 1 .. 12
            BY StageOf, Zenon
        <3> QED
            BY <2>1, <3>1
    <2> QED
        BY <2>2, Zenon DEF Flags
<1>3. /\ title # Absent => title \in Title
      /\ chosen \in Choices
    BY TitleShape, Zenon
<1>4. CASE TitleArrives
    <2>1. chosen.tracks = Absent
        BY <1>4 DEF TitleArrives, Kept
    <2>2. title' \in Title
        BY <1>4 DEF TitleArrives, Title, Vocabulary, OldWords, NewWords, Tracks
    <2>3. title' # Absent
        BY <2>2, AbsentAssumption
    <2>4. /\ chosen'.levels = {"child"} /\ chosen'.precise = "whole_line"
          /\ chosen'.tracks = chosen.tracks /\ chosen'.words = chosen.words
          /\ title'.levels = {"child"} /\ title'.mode = "whole_line" /\ words' = words
        BY <1>3, <1>4 DEF TitleArrives, Choices
    <2>5. {"child"} \cap OldWords = {}
        BY DEF OldWords
    <2> QED
        BY <1>1, <1>2, <2>1, <2>3, <2>4, <2>5 DEF Kept
<1>5. CASE \E levels \in (SUBSET NewWords) \ {{}} : ChooseLevels(levels)
    <2>1. PICK levels \in (SUBSET NewWords) \ {{}} : ChooseLevels(levels)
        BY <1>5
    <2>2. title \in Title /\ title' = [title EXCEPT !.levels = levels] /\ words' = words
          /\ chosen' = [chosen EXCEPT !.levels = levels]
        BY <1>3, <2>1 DEF ChooseLevels
    <2>3. title' \in Title /\ levels \cap OldWords = {}
        BY <2>2 DEF Title, Vocabulary, NewWords, OldWords
    <2>4. /\ title'.levels = levels /\ title'.mode = title.mode /\ title'.tracks = title.tracks
          /\ chosen'.levels = levels /\ chosen'.precise = chosen.precise
          /\ chosen'.tracks = chosen.tracks /\ chosen'.words = chosen.words
        BY <1>3, <2>2 DEF Title, Choices
    <2>5. title' # Absent
        BY <2>3, AbsentAssumption
    <2> QED
        BY <1>1, <1>2, <2>2, <2>3, <2>4, <2>5 DEF Kept
<1>6. CASE ChoosePrecise
    <2>1. title \in Title /\ title' = [title EXCEPT !.mode = "whole_line"] /\ words' = words
          /\ chosen' = [chosen EXCEPT !.precise = "whole_line"]
        BY <1>3, <1>6 DEF ChoosePrecise
    <2>2. title' \in Title
        BY <2>1 DEF Title
    <2>3. /\ title'.levels = title.levels /\ title'.mode = "whole_line" /\ title'.tracks = title.tracks
          /\ chosen'.levels = chosen.levels /\ chosen'.precise = "whole_line"
          /\ chosen'.tracks = chosen.tracks /\ chosen'.words = chosen.words
        BY <1>3, <2>1 DEF Title, Choices
    <2>4. title' # Absent
        BY <2>2, AbsentAssumption
    <2> QED
        BY <1>1, <1>2, <2>1, <2>3, <2>4 DEF Kept
<1>7. CASE JobRecordsTracks \/ ReplacementLands
    <2>1. PICK n \in Tracks : title \in Title /\ title' = [title EXCEPT !.tracks = n] /\ words' = words
          /\ chosen' = [chosen EXCEPT !.tracks = n]
        BY <1>3, <1>7 DEF JobRecordsTracks, ReplacementLands, Tracks
    <2>2. title' \in Title
        BY <2>1 DEF Title
    <2>3. /\ title'.levels = title.levels /\ title'.mode = title.mode /\ title'.tracks = n
          /\ chosen'.levels = chosen.levels /\ chosen'.precise = chosen.precise
          /\ chosen'.tracks = n /\ chosen'.words = chosen.words
        BY <1>3, <2>1 DEF Title, Choices
    <2>4. title' # Absent
        BY <2>2, AbsentAssumption
    <2> QED
        BY <1>1, <1>2, <2>1, <2>3, <2>4 DEF Kept
<1>8. CASE ClearWords
    <2>1. words' = "empty" /\ title' = title /\ chosen' = [chosen EXCEPT !.words = "empty"]
        BY <1>8 DEF ClearWords
    <2>2. /\ chosen'.levels = chosen.levels /\ chosen'.precise = chosen.precise
          /\ chosen'.tracks = chosen.tracks
        BY <1>3, <2>1 DEF Choices
    <2> QED
        BY <1>1, <1>2, <2>1, <2>2 DEF Kept
<1> QED
    BY <1>4, <1>5, <1>6, <1>7, <1>8 DEF Chooses

\* The other steps leave the title, the words and what was chosen of them alone.
LEMMA OthersLeaveChoices ==
    ASSUME Types, [Next]_vars, ~StartUp, ~Chooses
    PROVE  /\ UNCHANGED <<release, title, words, isUpgrade>>
           /\ chosen'.levels = chosen.levels /\ chosen'.precise = chosen.precise
           /\ chosen'.tracks = chosen.tracks /\ chosen'.words = chosen.words
           /\ chosen.mode => chosen'.mode
           /\ chosen.wizard => chosen'.wizard
           /\ (\E s \in Savers : SaveStep(s)) => chosen'.mode
           /\ CompleteSetup => chosen'.wizard
<1>1. chosen \in Choices
    BY TitleShape, Zenon
<1>0. ~(CompleteSetup /\ \E s \in Savers : SaveStep(s))
    <2>1. acts \in Nat
        BY SettingsAssumption DEF Types, TypeOK
    <2>2. acts + 1 # acts
        BY <2>1
    <2>3. CompleteSetup => acts' = acts + 1
        BY Zenon DEF CompleteSetup, Acts
    <2>4. \A s \in Savers : SaveStep(s) => acts' = acts
        BY Zenon DEF SaveStep
    <2> QED
        BY <2>2, <2>3, <2>4, Zenon
<1>2. CASE CompleteSetup
    <2>1. UNCHANGED <<release, title, words, isUpgrade>> /\ chosen' = [chosen EXCEPT !.wizard = TRUE]
        BY <1>2 DEF CompleteSetup, Rest
    <2>2. /\ chosen'.levels = chosen.levels /\ chosen'.precise = chosen.precise
          /\ chosen'.tracks = chosen.tracks /\ chosen'.words = chosen.words
          /\ chosen'.mode = chosen.mode /\ chosen'.wizard = TRUE
        BY <1>1, <2>1 DEF Choices
    <2>3. ~ \E s \in Savers : SaveStep(s)
        BY <1>0, <1>2
    <2> QED
        BY <2>1, <2>2, <2>3
<1>3. CASE \E s \in Savers : SaveStep(s)
    <2>1. /\ UNCHANGED <<release, title, words, isUpgrade, acts>>
          /\ chosen' = [chosen EXCEPT !.mode = TRUE]
        BY <1>3, SaveStepIs, Zenon
    <2>2. /\ chosen'.levels = chosen.levels /\ chosen'.precise = chosen.precise
          /\ chosen'.tracks = chosen.tracks /\ chosen'.words = chosen.words
          /\ chosen'.mode = TRUE /\ chosen'.wizard = chosen.wizard
        BY <1>1, <2>1 DEF Choices
    <2>3. ~CompleteSetup
        BY <1>0, <1>3
    <2> QED
        BY <2>1, <2>2, <2>3
<1>4. CASE ~CompleteSetup /\ ~(\E s \in Savers : SaveStep(s))
    <2>1. Begins \/ Crash \/ Restart \/ UNCHANGED vars
        BY <1>4, NextCases, Zenon
    <2>2. UNCHANGED <<release, title, words, isUpgrade, chosen>>
        BY <2>1, Zenon DEF Begins, BeginSave, BeginImport, Rest, Crash, Restart, vars, user
    <2> QED
        BY <1>4, <2>2
<1> QED
    BY <1>2, <1>3, <1>4

LEMMA ChoicesStayKept ==
    ASSUME Types, Flags, Kept, [Next]_vars
    PROVE  Kept'
<1>1. CASE ~StartUp /\ ~Chooses
    BY <1>1, OthersLeaveChoices, SettingsMove DEF Kept
<1> QED
    BY <1>1, StartUpKeeps, ChoosesKeeps

---------------------------------------------------------------------------
(* What an earlier release stored arrives *)

Carried ==
    release > 0 =>
        /\ title # Absent
        /\ stage > 1 => words # "old"
        /\ chosen.levels = Absent =>
             /\ Setting("levelsDone") => \/ title.levels = {title.threshold}
                                         \/ title.levels = {VocabularyMap(title.threshold)}
             /\ stage > 6 => title.levels = {VocabularyMap(title.threshold)}
        /\ chosen.precise = Absent /\ title.precise /\ Setting("preciseDone") => title.mode = "estimate"
        /\ ~chosen.mode =>
             /\ Setting("mode") = "password" => Setting("enabled")
             /\ Setting("modeDone") \/ stage > 8 => (Setting("enabled") => Setting("mode") = "password")

\* The new words of an old one, and of its new words.
LEMMA MappedTwice ==
    ASSUME NEW w \in Vocabulary
    PROVE  /\ VocabularyMap(w) \in Vocabulary /\ VocabularyMap(w) \notin OldWords
           /\ w \notin OldWords => VocabularyMap(w) = w
           /\ NewVocabulary({w}) = {VocabularyMap(w)}
<1>1. /\ VocabularyMap(w) \in Vocabulary /\ VocabularyMap(w) \notin OldWords
      /\ w \notin OldWords => VocabularyMap(w) = w
    BY DEF VocabularyMap, Vocabulary, OldWords, NewWords
<1>2. {VocabularyMap(v) : v \in {w}} = {VocabularyMap(w)}
    OBVIOUS
<1>3. NewVocabulary({w}) = {VocabularyMap(w)}
    BY <1>2 DEF NewVocabulary
<1> QED
    BY <1>1, <1>3

LEMMA StartUpCarries ==
    ASSUME Types, Flags, Carried, StartUp
    PROVE  Carried'
<1> SUFFICES ASSUME release > 0 PROVE Carried'
    BY StartUpStage DEF Carried
<1>1. /\ stage' = stage + 1 /\ stage \in 1 .. 11 /\ release' = release /\ chosen' = chosen
    BY StartUpStage, Zenon
<1>2. title \in Title
    BY TitleShape DEF Carried
<1>3. words' # "old"
    <2>1. stage \in 1 .. 11 /\ (stage > 1 => words # "old")
        BY <1>1 DEF Carried
    <2>2. stage = 1 => Schema
        BY StartUpStage DEF StartUp
    <2>3. CASE Schema \/ Seed
        <3>1. Seed => words # "old"
            BY <2>1, StartUpStage
        <3>2. CASE Schema
            BY <3>2 DEF Schema
        <3>3. CASE Seed
            BY <3>1, <3>3 DEF Seed
        <3> QED
            BY <2>3, <3>2, <3>3
    <2>4. CASE ~(Schema \/ Seed)
        <3>1. words' = words
            BY <2>4 DEF StartUp, Defaults, Levels, TracksFromTrack, PreciseMode, TitleVocabulary,
               AuthMode, AuthModeDone, Wizard, WizardDone
        <3> QED
            BY <2>1, <2>2, <2>4, <3>1
    <2> QED
        BY <2>3, <2>4
<1>4. /\ title' # Absent
      /\ title'.threshold = title.threshold /\ title'.precise = title.precise
      /\ title'.levels = title.levels \/ Levels \/ TitleVocabulary
      /\ title'.mode = title.mode \/ PreciseMode
    <2>1. CASE title' = title
        BY <2>1 DEF Carried
    <2>2. CASE Levels
        <3>1. CASE title' = [title EXCEPT !.levels = {title.threshold}]
            <4>1. title' \in Title
                BY <1>2, <3>1 DEF Title
            <4>2. title'.threshold = title.threshold /\ title'.precise = title.precise
                  /\ title'.mode = title.mode
                BY <1>2, <3>1 DEF Title
            <4> QED
                BY <2>2, <4>1, <4>2, AbsentAssumption
        <3> QED
            BY <2>1, <2>2, <3>1 DEF Levels
    <2>3. CASE TracksFromTrack
        BY <1>2, <2>1, <2>3, AbsentAssumption DEF TracksFromTrack, Title
    <2>4. CASE PreciseMode
        BY <1>2, <2>1, <2>4, AbsentAssumption DEF PreciseMode, Title
    <2>5. CASE TitleVocabulary /\ title' # title
        <3>1. title' = [title EXCEPT !.levels = NewVocabulary(title.levels)]
            BY <2>5 DEF TitleVocabulary
        <3>2. NewVocabulary(title.levels) \in SUBSET Vocabulary
            <4>1. title.levels \in SUBSET Vocabulary
                BY <1>2 DEF Title
            <4>2. \A w \in Vocabulary : VocabularyMap(w) \in Vocabulary
                BY DEF VocabularyMap, Vocabulary, OldWords, NewWords
            <4> QED
                BY <4>1, <4>2 DEF NewVocabulary, Vocabulary, NewWords
        <3>3. title' \in Title
            BY <1>2, <3>1, <3>2 DEF Title
        <3>4. title' # Absent
            BY <3>3, AbsentAssumption
        <3>5. title'.threshold = title.threshold /\ title'.precise = title.precise
              /\ title'.mode = title.mode
            BY <1>2, <3>1 DEF Title
        <3> QED
            BY <2>5, <3>4, <3>5
    <2> QED
        BY <2>1, <2>2, <2>3, <2>4, <2>5 DEF StartUp, Schema, Defaults, Seed, AuthMode, AuthModeDone,
           Wizard, WizardDone
<1> DEFINE new == {VocabularyMap(title.threshold)}
<1>5. title.threshold \in Vocabulary
    BY <1>2 DEF Title
<1>6. ASSUME chosen.levels = Absent
      PROVE  /\ Setting("levelsDone")' => title'.levels = {title.threshold} \/ title'.levels = new
             /\ stage' > 6 => title'.levels = new
    <2>1. CASE Levels
        <3>1. title'.levels = IF Setting("levelsDone") THEN title.levels ELSE {title.threshold}
            BY <1>2, <2>1, AbsentAssumption DEF Levels, Title
        <3>2. stage' = 4
            BY <1>1, <2>1, StartUpStage
        <3> QED
            BY <1>6, <3>1, <3>2 DEF Carried
    <2>2. CASE TitleVocabulary
        <3>1. Setting("levelsDone")
            BY <2>2, StartUpStage DEF Flags
        <3>2. title.levels = {title.threshold} \/ title.levels = new
            BY <1>6, <3>1 DEF Carried
        <3>3. title'.levels = IF title.levels \cap OldWords = {} THEN title.levels
                              ELSE NewVocabulary(title.levels)
            BY <1>2, <2>2, AbsentAssumption DEF TitleVocabulary, Title
        <3>4. CASE title.levels = new
            <4>1. title.levels \cap OldWords = {}
                <5>1. VocabularyMap(title.threshold) \notin OldWords
                    BY <1>5, MappedTwice
                <5> QED
                    BY <3>4, <5>1
            <4> QED
                BY <3>3, <3>4, <4>1
        <3>5. CASE title.levels = {title.threshold}
            <4>1. CASE title.threshold \in OldWords
                <5>1. title.levels \cap OldWords # {}
                    BY <3>5, <4>1
                <5>2. NewVocabulary(title.levels) = new
                    BY <1>5, <3>5, MappedTwice
                <5> QED
                    BY <3>3, <5>1, <5>2
            <4>2. CASE title.threshold \notin OldWords
                <5>1. title.levels \cap OldWords = {}
                    BY <3>5, <4>2
                <5>2. new = {title.threshold}
                    BY <1>5, <4>2, MappedTwice
                <5> QED
                    BY <3>3, <3>5, <5>1, <5>2
            <4> QED
                BY <4>1, <4>2
        <3> QED
            BY <3>2, <3>4, <3>5
    <2>3. CASE ~Levels /\ ~TitleVocabulary
        <3>1. title'.levels = title.levels
            BY <1>4, <2>3
        <3>2. Setting("levelsDone")' => Setting("levelsDone")
            BY <2>3, SettingsMove DEF Next
        <3>3. stage' > 6 => stage > 6
            <4>1. stage = 6 => TitleVocabulary
                BY StartUpStage DEF StartUp
            <4> QED
                BY <1>1, <2>3, <4>1
        <3> QED
            BY <1>6, <3>1, <3>2, <3>3 DEF Carried
    <2> QED
        BY <2>1, <2>2, <2>3
<1>7. chosen.precise = Absent /\ title.precise /\ Setting("preciseDone")' => title'.mode = "estimate"
    <2>1. CASE PreciseMode
        <3>1. title'.mode = IF Setting("preciseDone") \/ ~title.precise THEN title.mode ELSE "estimate"
            BY <1>2, <2>1, AbsentAssumption DEF PreciseMode, Title
        <3> QED
            BY <3>1 DEF Carried
    <2>2. CASE ~PreciseMode
        <3>1. title'.mode = title.mode
            BY <1>4, <2>2
        <3>2. Setting("preciseDone")' => Setting("preciseDone")
            BY <2>2, SettingsMove DEF Next
        <3> QED
            BY <3>1, <3>2 DEF Carried
    <2> QED
        BY <2>1, <2>2
<1>8. ASSUME ~chosen.mode
      PROVE  /\ Setting("mode")' = "password" => Setting("enabled")'
             /\ Setting("modeDone")' \/ stage' > 8 =>
                  (Setting("enabled")' => Setting("mode")' = "password")
    <2>0. Setting("enabled")' = Setting("enabled")
        BY SettingsMove, Zenon DEF Next
    <2>1. CASE AuthMode
        <3>1. IF ~Setting("modeDone") /\ Setting("enabled")
              THEN Setting("mode")' = "password" ELSE Setting("mode")' = Setting("mode")
            BY <2>1, StartUpSettings, Zenon
        <3>2. /\ Setting("mode") = "password" => Setting("enabled")
              /\ Setting("modeDone") => (Setting("enabled") => Setting("mode") = "password")
            BY <1>8 DEF Carried
        <3> QED
            BY <2>0, <3>1, <3>2
    <2>2. CASE ~AuthMode
        <3>0. ~ \E s \in Savers : SaveStep(s)
            BY StartUpStage, SaveStepIs, Zenon
        <3>1. Setting("mode")' = Setting("mode")
            BY <2>2, <3>0, SettingsMove, Zenon DEF Next
        <3>2. Setting("modeDone")' \/ stage' > 8 => Setting("modeDone") \/ stage > 8
            <4>1. stage = 8 => AuthMode
                BY StartUpStage DEF StartUp
            <4>2. AuthModeDone => stage = 9
                BY StartUpStage, Zenon
            <4>3. Setting("modeDone")' => Setting("modeDone") \/ AuthModeDone
                BY SettingsMove, Zenon DEF Next
            <4> QED
                BY <1>1, <2>2, <4>1, <4>2, <4>3
        <3> QED
            BY <1>8, <2>0, <3>1, <3>2 DEF Carried
    <2> QED
        BY <2>1, <2>2
<1> QED
    BY <1>1, <1>3, <1>4, <1>6, <1>7, <1>8 DEF Carried

LEMMA ChoosesCarries ==
    ASSUME Types, Carried, Chooses
    PROVE  Carried'
<1> SUFFICES ASSUME release > 0 PROVE Carried'
    BY DEF Carried, Chooses, TitleArrives, ChoosePrecise, JobRecordsTracks, ReplacementLands,
           ChooseLevels, ClearWords, Rest
<1>1. release' = release /\ stage' = stage
    BY Zenon DEF Chooses, TitleArrives, ChoosePrecise, JobRecordsTracks, ReplacementLands,
           ChooseLevels, ClearWords, Rest
<1>2. /\ Setting("levelsDone")' = Setting("levelsDone")
      /\ Setting("preciseDone")' = Setting("preciseDone")
      /\ Setting("modeDone")' = Setting("modeDone")
      /\ Setting("mode")' = Setting("mode")
      /\ Setting("enabled")' = Setting("enabled")
    BY OtherSettings, KeysAreNames DEF Same, Names
<1>3. title \in Title /\ title # Absent /\ chosen \in Choices
    BY TitleShape DEF Carried
<1>4. ~TitleArrives
    BY <1>3 DEF TitleArrives
<1>5. words' = words \/ words' = "empty"
    BY DEF Chooses, TitleArrives, ChoosePrecise, JobRecordsTracks, ReplacementLands,
           ChooseLevels, ClearWords
<1>6. /\ title' # Absent
      /\ title'.threshold = title.threshold /\ title'.precise = title.precise
      /\ chosen'.mode = chosen.mode
      /\ chosen'.levels = Absent => chosen.levels = Absent /\ title'.levels = title.levels
      /\ chosen'.precise = Absent => chosen.precise = Absent /\ title'.mode = title.mode
    <2>1. CASE \E levels \in (SUBSET NewWords) \ {{}} : ChooseLevels(levels)
        <3>1. PICK levels \in (SUBSET NewWords) \ {{}} : ChooseLevels(levels)
            BY <2>1
        <3>2. title' = [title EXCEPT !.levels = levels] /\ chosen' = [chosen EXCEPT !.levels = levels]
            BY <3>1 DEF ChooseLevels
        <3>3. title' \in Title /\ levels \in SUBSET Vocabulary
            BY <1>3, <3>2 DEF Title, Vocabulary
        <3>4. /\ title'.threshold = title.threshold /\ title'.precise = title.precise
              /\ title'.mode = title.mode /\ chosen'.levels = levels
              /\ chosen'.precise = chosen.precise /\ chosen'.mode = chosen.mode
            BY <1>3, <3>2 DEF Title, Choices
        <3> QED
            BY <3>3, <3>4, AbsentAssumption
    <2>2. CASE ChoosePrecise
        <3>1. title' = [title EXCEPT !.mode = "whole_line"]
              /\ chosen' = [chosen EXCEPT !.precise = "whole_line"]
            BY <2>2 DEF ChoosePrecise
        <3>2. title' \in Title
            BY <1>3, <3>1 DEF Title
        <3>3. /\ title'.threshold = title.threshold /\ title'.precise = title.precise
              /\ title'.levels = title.levels /\ chosen'.levels = chosen.levels
              /\ chosen'.precise = "whole_line" /\ chosen'.mode = chosen.mode
            BY <1>3, <3>1 DEF Title, Choices
        <3> QED
            BY <3>2, <3>3, AbsentAssumption
    <2>3. CASE JobRecordsTracks \/ ReplacementLands
        <3>1. PICK n \in Tracks : title' = [title EXCEPT !.tracks = n]
                                  /\ chosen' = [chosen EXCEPT !.tracks = n]
            BY <2>3 DEF JobRecordsTracks, ReplacementLands, Tracks
        <3>2. title' \in Title
            BY <1>3, <3>1 DEF Title
        <3>3. /\ title'.threshold = title.threshold /\ title'.precise = title.precise
              /\ title'.levels = title.levels /\ title'.mode = title.mode
              /\ chosen'.levels = chosen.levels /\ chosen'.precise = chosen.precise
              /\ chosen'.mode = chosen.mode
            BY <1>3, <3>1 DEF Title, Choices
        <3> QED
            BY <3>2, <3>3, AbsentAssumption
    <2>4. CASE ClearWords
        <3>1. title' = title /\ chosen' = [chosen EXCEPT !.words = "empty"]
            BY <2>4 DEF ClearWords
        <3>2. chosen'.levels = chosen.levels /\ chosen'.precise = chosen.precise
              /\ chosen'.mode = chosen.mode
            BY <1>3, <3>1 DEF Choices
        <3> QED
            BY <1>3, <3>1, <3>2
    <2> QED
        BY <1>4, <2>1, <2>2, <2>3, <2>4 DEF Chooses
<1> QED
    BY <1>1, <1>2, <1>3, <1>5, <1>6 DEF Carried

LEMMA UpgradeStaysCarried ==
    ASSUME Types, Flags, Carried, [Next]_vars
    PROVE  Carried'
<1>1. CASE ~StartUp /\ ~Chooses
    <2> SUFFICES ASSUME release > 0 PROVE Carried'
        BY <1>1, OthersLeaveChoices DEF Carried
    <2>1. /\ UNCHANGED <<release, title, words, isUpgrade>>
          /\ chosen'.levels = chosen.levels /\ chosen'.precise = chosen.precise
          /\ chosen.mode => chosen'.mode
          /\ (\E s \in Savers : SaveStep(s)) => chosen'.mode
        BY <1>1, OthersLeaveChoices, Zenon
    <2>2. /\ Setting("levelsDone")' => Setting("levelsDone")
          /\ Setting("preciseDone")' => Setting("preciseDone")
          /\ Setting("modeDone")' => Setting("modeDone")
          /\ Setting("enabled")' = Setting("enabled")
          /\ Setting("mode")' = Setting("mode") \/ \E s \in Savers : SaveStep(s)
        BY <1>1, SettingsMove, Zenon DEF StartUp
    <2>3. (stage' > 1 => stage > 1) /\ (stage' > 6 => stage > 6) /\ (stage' > 8 => stage > 8)
        BY <1>1, StageMoves
    <2> QED
        BY <2>1, <2>2, <2>3 DEF Carried
<1> QED
    BY <1>1, StartUpCarries, ChoosesCarries

---------------------------------------------------------------------------
(* Whether a start is an upgrade *)

Newcomer ==
    /\ release > 0 =>
         /\ db["version"] # Absent
         /\ stage > 2 => isUpgrade
         /\ Setting("wizardDone") \/ stage > 10 => Setting("wizard")
    /\ release = 0 /\ smooth =>
         /\ Setting("wizardDone") \/ (up /\ (IF stage <= 2 THEN db["version"] = Absent ELSE ~isUpgrade))
         /\ ~chosen.wizard => ~Setting("wizard")

LEMMA VersionStays ==
    ASSUME Types, [Next]_vars
    PROVE  IF Defaults THEN db'["version"] # Absent ELSE db'["version"] = db["version"]
<1>1. "version" \in Keys
    BY KeysAreNames DEF Names
<1>2. ASSUME NEW k, k # "version", NEW v, Set(k, v) PROVE db'["version"] = db["version"]
    BY <1>1, <1>2, Zenon DEF Set, Types, Stored
<1>3. CASE Defaults
    <2>1. db'["version"] = Setting("version")
        BY <1>1, <1>3, Zenon DEF Defaults
    <2>2. Setting("version") \in BOOLEAN
        BY <1>1, SettingValues DEF Types
    <2> QED
        BY <1>3, <2>1, <2>2, SettingsAssumption
<1>4. ASSUME ~Defaults PROVE db'["version"] = db["version"]
    <2>1. CASE UNCHANGED db
        BY <2>1
    <2>2. CASE Levels
        BY <1>2, <2>2 DEF Levels
    <2>3. CASE PreciseMode
        BY <1>2, <2>3 DEF PreciseMode
    <2>4. CASE Seed
        BY <1>2, <2>4 DEF Seed
    <2>5. CASE AuthMode
        BY <1>2, <2>5 DEF AuthMode
    <2>6. CASE AuthModeDone
        BY <1>2, <2>6 DEF AuthModeDone
    <2>7. CASE Wizard
        BY <1>2, <2>7 DEF Wizard
    <2>8. CASE WizardDone
        BY <1>2, <2>8 DEF WizardDone
    <2>9. CASE CompleteSetup
        BY <1>2, <2>9 DEF CompleteSetup
    <2>10. CASE \E s \in Savers : SaveStep(s)
        <3>1. PICK s \in Savers : SaveStep(s)
            BY <2>10
        <3>2. save[s].at \in Steps
            BY <3>1, SaveStepIs, RecordFields
        <3> QED
            BY <1>2, <3>1, <3>2 DEF SaveStep, Steps
    <2>11. CASE Chooses \/ Begins \/ Crash \/ Restart \/ UNCHANGED vars \/ Schema \/ TracksFromTrack
             \/ TitleVocabulary
        <3>1. UNCHANGED db
            BY <2>11, Zenon DEF Chooses, Begins, BeginSave, BeginImport, Crash, Restart, vars,
               TitleArrives, ChoosePrecise, JobRecordsTracks, ReplacementLands, ChooseLevels,
               ClearWords, Schema, TracksFromTrack, TitleVocabulary
        <3> QED
            BY <2>1, <3>1
    <2> QED
        BY <1>4, <2>2, <2>3, <2>4, <2>5, <2>6, <2>7, <2>8, <2>9, <2>10, <2>11, NextCases, Zenon DEF StartUp
<1> QED
    BY <1>3, <1>4

LEMMA NewcomerStays ==
    ASSUME Types, Flags, Newcomer, [Next]_vars
    PROVE  Newcomer'
<1>1. /\ release' = release
      /\ chosen.wizard => chosen'.wizard
      /\ CompleteSetup => chosen'.wizard
      /\ isUpgrade' = isUpgrade \/ Defaults
    <2>1. CASE StartUp
        <3>1. release' = release /\ chosen' = chosen
            BY <2>1, StartUpStage, Zenon
        <3>2. isUpgrade' = isUpgrade \/ Defaults
            BY <2>1, Zenon DEF StartUp, Schema, Levels, TracksFromTrack, PreciseMode, TitleVocabulary,
               Seed, AuthMode, AuthModeDone, Wizard, WizardDone
        <3>3. ~CompleteSetup
            BY <2>1, StartUpStage, Zenon DEF CompleteSetup, Acts
        <3> QED
            BY <3>1, <3>2, <3>3
    <2>2. CASE Chooses
        <3>1. release' = release /\ isUpgrade' = isUpgrade
            BY <2>2, Zenon DEF Chooses, TitleArrives, ChoosePrecise, JobRecordsTracks,
               ReplacementLands, ChooseLevels, ClearWords, Rest
        <3>2. chosen \in Choices
            BY TitleShape, Zenon
        <3>3. chosen'.wizard = chosen.wizard
            BY <2>2, <3>2 DEF Chooses, TitleArrives, ChoosePrecise, JobRecordsTracks,
               ReplacementLands, ChooseLevels, ClearWords, Choices
        <3>4. CompleteSetup => chosen'.wizard
            BY <3>2 DEF CompleteSetup, Choices
        <3> QED
            BY <3>1, <3>3, <3>4
    <2>3. CASE ~StartUp /\ ~Chooses
        BY <2>3, OthersLeaveChoices, Zenon
    <2> QED
        BY <2>1, <2>2, <2>3
<1>2. IF Defaults THEN db'["version"] # Absent ELSE db'["version"] = db["version"]
    BY VersionStays, Zenon
<1>3. /\ Setting("wizardDone") => Setting("wizardDone")'
      /\ Setting("wizard") => Setting("wizard")'
      /\ Setting("wizardDone")' => Setting("wizardDone") \/ WizardDone
      /\ Setting("wizard")' => \/ Setting("wizard") \/ CompleteSetup
                               \/ Wizard /\ ~Setting("wizardDone") /\ isUpgrade
    BY SettingsMove, Zenon
<1>4. stage \in 1 .. 12
    BY StageOf, Zenon
<1>5. StartUp => /\ stage' = stage + 1 /\ up' = up /\ smooth' = smooth /\ up
                 /\ Defaults <=> stage = 2
                 /\ Wizard <=> stage = 10
                 /\ WizardDone => stage = 11
    BY StartUpStage DEF StartUp
<1>6. ~StartUp => ~Defaults /\ ~Wizard /\ ~WizardDone
    BY Zenon DEF StartUp
<1>7. Defaults => (isUpgrade' <=> db["version"] # Absent)
    BY Zenon DEF Defaults
<1>8. ASSUME release > 0
      PROVE  /\ db'["version"] # Absent
             /\ stage' > 2 => isUpgrade'
             /\ Setting("wizardDone")' \/ stage' > 10 => Setting("wizard")'
    <2>1. db["version"] # Absent
        BY <1>8 DEF Newcomer
    <2>2. db'["version"] # Absent
        BY <1>2, <2>1
    <2>3. stage' > 2 => isUpgrade'
        <3>1. stage > 2 => isUpgrade
            BY <1>8 DEF Newcomer
        <3>2. CASE StartUp
            <4>1. CASE Defaults
                BY <1>7, <2>1, <4>1, Zenon
            <4>2. CASE ~Defaults
                <5>1. isUpgrade' = isUpgrade /\ (stage' > 2 => stage > 2)
                    BY <1>1, <1>4, <1>5, <3>2, <4>2
                <5> QED
                    BY <3>1, <5>1
            <4> QED
                BY <4>1, <4>2
        <3>3. CASE ~StartUp
            BY <1>1, <1>4, <1>6, <3>1, <3>3, StageMoves
        <3> QED
            BY <3>2, <3>3
    <2>4. Setting("wizardDone")' \/ stage' > 10 => Setting("wizard")'
        <3>1. Setting("wizardDone") \/ stage > 10 => Setting("wizard")
            BY <1>8 DEF Newcomer
        <3>2. CASE Wizard
            <4>1. IF ~Setting("wizardDone") /\ isUpgrade
                  THEN Setting("wizard")' ELSE Setting("wizard")' = Setting("wizard")
                BY <3>2, StartUpSettings, Zenon DEF StartUp
            <4>2. isUpgrade
                BY <1>5, <1>6, <1>8, <3>2 DEF Newcomer
            <4> QED
                BY <3>1, <4>1, <4>2
        <3>3. CASE StartUp /\ ~Wizard
            BY <1>3, <1>4, <1>5, <3>1, <3>3
        <3>4. CASE ~StartUp
            BY <1>3, <1>4, <1>6, <3>1, <3>4, StageMoves
        <3> QED
            BY <1>6, <3>2, <3>3, <3>4
    <2> QED
        BY <2>2, <2>3, <2>4
<1>9. ASSUME release = 0, smooth'
      PROVE  /\ Setting("wizardDone")' \/ (up' /\ (IF stage' <= 2 THEN db'["version"] = Absent ELSE ~isUpgrade'))
             /\ ~chosen'.wizard => ~Setting("wizard")'
    <2>1. CASE Crash
        <3>1. smooth /\ Serving /\ ~StartUp
            BY <1>5, <1>9, <2>1, Zenon DEF Crash
        <3>2. Setting("wizardDone")
            <4>1. Len(Startup) = 11
                BY StageOf, Zenon
            <4>2. stage > 11
                BY <3>1, <4>1 DEF Serving
            <4> QED
                BY <4>2 DEF Flags
        <3>3. ~CompleteSetup
            BY <2>1, Zenon DEF Crash, CompleteSetup, Rest
        <3> QED
            BY <1>1, <1>3, <1>6, <1>9, <3>1, <3>2, <3>3 DEF Newcomer
    <2>2. CASE StartUp
        <3>1. smooth /\ ~CompleteSetup
            BY <1>5, <1>9, <2>2, StartUpStage, Zenon DEF CompleteSetup, Acts
        <3>2. Setting("wizardDone") \/ (up /\ (IF stage <= 2 THEN db["version"] = Absent ELSE ~isUpgrade))
            BY <1>9, <3>1 DEF Newcomer
        <3>3. ~chosen.wizard => ~Setting("wizard")
            BY <1>9, <3>1 DEF Newcomer
        <3>4. ~chosen'.wizard => ~Setting("wizard")'
            <4>1. ~(Wizard /\ ~Setting("wizardDone") /\ isUpgrade)
                BY <1>5, <2>2, <3>2
            <4> QED
                BY <1>1, <1>3, <3>1, <3>3, <4>1
        <3>5. CASE Setting("wizardDone")
            BY <1>3, <3>4, <3>5
        <3>6. CASE ~Setting("wizardDone")
            <4>1. up' /\ (IF stage <= 2 THEN db["version"] = Absent ELSE ~isUpgrade)
                BY <1>5, <2>2, <3>2, <3>6
            <4>2. CASE Defaults
                <5>1. ~isUpgrade' /\ stage' = 3
                    BY <1>5, <1>7, <2>2, <4>1, <4>2
                <5> QED
                    BY <3>4, <4>1, <5>1
            <4>3. CASE ~Defaults
                <5>1. /\ isUpgrade' = isUpgrade /\ db'["version"] = db["version"]
                      /\ stage' <= 2 <=> stage <= 2
                    BY <1>1, <1>2, <1>4, <1>5, <2>2, <4>3
                <5> QED
                    BY <3>4, <4>1, <5>1
            <4> QED
                BY <4>2, <4>3
        <3> QED
            BY <3>5, <3>6
    <2>3. CASE ~Crash /\ ~StartUp
        <3>1. (smooth' = smooth /\ up' = up /\ stage' = stage) \/ Restart
            BY <2>3, NextCases, SaveStepIs, Zenon DEF Chooses, TitleArrives, ChoosePrecise,
               JobRecordsTracks, ReplacementLands, ChooseLevels, ClearWords, CompleteSetup, Begins,
               BeginSave, BeginImport, Rest, vars
        <3>2. smooth /\ (Restart => ~up)
            BY <1>9, <3>1, Zenon DEF Restart
        <3> QED
            BY <1>1, <1>2, <1>3, <1>6, <1>9, <2>3, <3>1, <3>2 DEF Newcomer
    <2> QED
        BY <2>1, <2>2, <2>3
<1> QED
    BY <1>1, <1>8, <1>9 DEF Newcomer

---------------------------------------------------------------------------
(* A save that nothing disturbed *)

\* What such a save has committed so far is what it was given.
Alone(s) ==
    LET k == save[s] IN
    /\ ~k.import
    /\ \A q \in Savers \ {s} : save[q] = Idle
    /\ k.at = "hash" => Setting("hash") = k.hash
    /\ k.at # "hash" => Setting("hash") = (k.hash \/ k.form.password)
    /\ k.at \in {"sso", "mode", "claude", "claudeFields"} => Setting("username") = k.form.username
    /\ k.at \in {"mode", "claude", "claudeFields"} => Setting("sso") = k.form.sso
    /\ k.at \in {"claude", "claudeFields"} => Setting("mode") = SavedMode(k)
    /\ k.at = "claudeFields" => Setting("claude") = SavedClaude(k)

Usable == CanSignIn /\ (Setting("claude") => Setting("claudeFields"))

Saving ==
    /\ \A s \in Savers : save[s] # Idle => Serving
    /\ settled => Setting("modeDone") /\ Usable
    /\ \A s \in Savers : save[s] # Idle /\ save[s].alone => Alone(s)

\* Each commit of a save that is alone adds to what Alone says of it, and the last one
\* leaves settings that go together.
LEMMA SaveStepSaves ==
    ASSUME Types, Flags, Saving, NEW s \in Savers, SaveStep(s)
    PROVE  Saving'
<1> DEFINE k == save[s]
<1> DEFINE after == [k EXCEPT !.at = NextKey(k)]
<1>1. /\ Serving /\ k \in SaveRecords /\ (k.import => k.at # "hash")
      /\ IF NextKey(k) = "none" THEN save' = [save EXCEPT ![s] = Idle]
         ELSE save' = [save EXCEPT ![s] = after]
      /\ settled' = (NextKey(k) = "none" /\ k.alone)
      /\ UNCHANGED <<stage, up>>
    BY SaveStepIs, Zenon
<1>2. save \in [Savers -> Saves] /\ k # Idle
    BY <1>1, RecordFields DEF Types, TypeOK
<1>3. \A q \in Savers \ {s} : save'[q] = save[q]
    BY <1>1, <1>2, Zenon
<1>4. save'[s] = IF NextKey(k) = "none" THEN Idle ELSE after
    BY <1>1, <1>2, Zenon
<1>5. \A q \in Savers : save'[q] # Idle => Serving'
    BY <1>1, Zenon DEF Serving
<1>6. ASSUME k.alone
      PROVE  /\ Alone(s)
             /\ NextKey(k) = "none" => Usable'
             /\ NextKey(k) # "none" => Alone(s)'
    <2>1. Alone(s)
        BY <1>2, <1>6, Zenon DEF Saving
    <2>2. ~k.import
        BY <2>1 DEF Alone
    <2>3. /\ k.at = "hash" => NextKey(k) = "username"
          /\ k.at = "username" => NextKey(k) = "sso"
          /\ k.at = "sso" => NextKey(k) = "mode"
          /\ k.at = "mode" => NextKey(k) = "claude"
          /\ k.at = "claude" => NextKey(k) = "claudeFields"
          /\ k.at = "claudeFields" => NextKey(k) = "none"
        BY <1>1, <2>2, NextKeyIs, Zenon
    <2>4. /\ k.at = "hash" => /\ Setting("hash")' = (k.form.password \/ Setting("hash"))
                              /\ Same(Keys \ {"hash"})
          /\ k.at = "username" => /\ Setting("username")' = k.form.username
                                  /\ Same(Keys \ {"username"})
          /\ k.at = "sso" => Setting("sso")' = k.form.sso /\ Same(Keys \ {"sso"})
          /\ k.at = "mode" => Setting("mode")' = SavedMode(k) /\ Same(Keys \ {"mode"})
          /\ k.at = "claude" => Setting("claude")' = SavedClaude(k) /\ Same(Keys \ {"claude"})
          /\ k.at = "claudeFields" => /\ Setting("claudeFields")' = k.form.claudeFields
                                      /\ Same(Keys \ {"claudeFields"})
        BY SaveSettings, Zenon
    <2>5. FormKeys \subseteq Keys /\ k.at \in Steps
        BY <1>1, RecordFields, KeysAreNames DEF FormKeys, Names
    <2>6. /\ k.at # "hash" => Setting("hash")' = Setting("hash")
          /\ k.at # "username" => Setting("username")' = Setting("username")
          /\ k.at # "sso" => Setting("sso")' = Setting("sso")
          /\ k.at # "mode" => Setting("mode")' = Setting("mode")
          /\ k.at # "claude" => Setting("claude")' = Setting("claude")
        BY <2>4, <2>5 DEF Same, FormKeys, Steps
    <2>7. CASE k.at = "claudeFields"
        <3>1. /\ Setting("hash")' = (k.hash \/ k.form.password)
              /\ Setting("username")' = k.form.username /\ Setting("sso")' = k.form.sso
              /\ Setting("mode")' = SavedMode(k) /\ Setting("claude")' = SavedClaude(k)
              /\ Setting("claudeFields")' = k.form.claudeFields
            BY <2>1, <2>4, <2>6, <2>7 DEF Alone
        <3>2. /\ k.import \in BOOLEAN /\ k.hash \in BOOLEAN
              /\ k.form.mode \in Modes /\ k.form.username \in BOOLEAN /\ k.form.password \in BOOLEAN
              /\ k.form.sso \in BOOLEAN /\ k.form.claude \in BOOLEAN
              /\ k.form.claudeFields \in BOOLEAN
            BY <1>1, RecordFields
        <3>3. Setting("mode")' = "password" => k.form.username /\ (k.hash \/ k.form.password)
            BY <2>2, <3>1, <3>2 DEF SavedMode
        <3>4. Setting("mode")' = "sso" => k.form.sso
            BY <2>2, <3>1, <3>2 DEF SavedMode
        <3>5. Setting("claude")' => k.form.claudeFields
            BY <2>2, <3>1, <3>2 DEF SavedClaude
        <3>6. Usable'
            BY <3>1, <3>3, <3>4, <3>5 DEF Usable, CanSignIn
        <3> QED
            BY <2>1, <2>3, <2>7, <3>6
    <2>8. CASE k.at # "claudeFields"
        <3>1. NextKey(k) # "none" /\ NextKey(k) = after.at /\ save'[s] = after
            BY <1>1, <1>4, <2>3, <2>5, <2>8 DEF Steps, SaveRecords
        <3>2. /\ after.import = k.import /\ after.hash = k.hash /\ after.form = k.form
              /\ SavedMode(after) = SavedMode(k) /\ SavedClaude(after) = SavedClaude(k)
            BY <1>1 DEF SaveRecords, SavedMode, SavedClaude
        <3>3. \A q \in Savers \ {s} : save'[q] = Idle
            BY <1>3, <2>1 DEF Alone
        <3> HIDE DEF after
        <3>4. k.at = "hash" => Setting("hash")' = (k.hash \/ k.form.password)
            <4>1. k.hash \in BOOLEAN /\ k.form.password \in BOOLEAN
                BY <1>1, RecordFields
            <4> QED
                BY <2>1, <2>4, <4>1 DEF Alone
        <3>5. Setting("hash")' = (k.hash \/ k.form.password)
            BY <2>1, <2>6, <3>4 DEF Alone
        <3>6. after.at \in {"sso", "mode", "claude", "claudeFields"} =>
                Setting("username")' = k.form.username
            BY <2>1, <2>3, <2>4, <2>5, <2>6, <3>1 DEF Alone, Steps
        <3>7. after.at \in {"mode", "claude", "claudeFields"} => Setting("sso")' = k.form.sso
            BY <2>1, <2>3, <2>4, <2>5, <2>6, <3>1 DEF Alone, Steps
        <3>8. after.at \in {"claude", "claudeFields"} => Setting("mode")' = SavedMode(k)
            BY <2>1, <2>3, <2>4, <2>5, <2>6, <3>1 DEF Alone, Steps
        <3>9. after.at = "claudeFields" => Setting("claude")' = SavedClaude(k)
            BY <2>1, <2>3, <2>4, <2>5, <2>6, <3>1 DEF Alone, Steps
        <3>10. after.at # "hash"
            BY <2>3, <2>5, <2>8, <3>1 DEF Steps
        <3>11. Alone(s)'
            <4>1. SavedMode(save[s])' = SavedMode(k) /\ SavedClaude(save[s])' = SavedClaude(k)
                BY <3>1, <3>2 DEF SavedMode, SavedClaude
            <4> HIDE DEF k
            <4> QED
                BY <2>2, <3>1, <3>2, <3>3, <3>5, <3>6, <3>7, <3>8, <3>9, <3>10, <4>1 DEF Alone
        <3> QED
            BY <2>1, <3>1, <3>11
    <2> QED
        BY <2>7, <2>8
<1>7. settled' => Setting("modeDone")' /\ Usable'
    <2>1. Setting("modeDone")
        <3>1. Len(Startup) = 11 /\ stage \in 1 .. 12
            BY StageOf, Zenon
        <3>2. stage > 9
            BY <1>1, <3>1 DEF Serving
        <3> QED
            BY <3>2 DEF Flags
    <2>2. Setting("modeDone")'
        BY <2>1, SettingsMove, Zenon DEF Next
    <2> QED
        BY <1>1, <1>6, <2>2
<1>8. ASSUME NEW q \in Savers, save'[q] # Idle, save'[q].alone PROVE Alone(q)'
    <2>1. CASE q = s
        <3>1. NextKey(k) # "none" /\ save'[s] = after
            BY <1>4, <1>8, <2>1
        <3>2. k.alone
            BY <1>1, <1>8, <2>1, <3>1 DEF SaveRecords
        <3> QED
            BY <1>6, <2>1, <3>1, <3>2
    <2>2. CASE q # s
        <3>1. save'[q] = save[q]
            BY <1>3, <2>2
        <3>2. Alone(q)
            BY <1>8, <3>1 DEF Saving
        <3>3. save[s] = Idle
            BY <2>2, <3>2 DEF Alone
        <3> QED
            BY <1>2, <3>3
    <2> QED
        BY <2>1, <2>2
<1> QED
    BY <1>5, <1>7, <1>8 DEF Saving

LEMMA BeginsSaves ==
    ASSUME Types, Saving, Begins
    PROVE  Saving'
<1>1. PICK s \in Savers, k \in SaveRecords :
              /\ save[s] = Idle /\ Serving
              /\ save' = [Disturbed EXCEPT ![s] = k]
              /\ k.alone => Busy = {} /\ k.at = "hash" /\ k.hash = Setting("hash") /\ ~k.import
              /\ UNCHANGED <<stage, up>> /\ settled' = FALSE
    BY BeginIs, Zenon
<1>2. save'[s] = k /\ \A q \in Savers \ {s} : save'[q] = Disturbed[q]
    BY <1>1, DisturbedIs, Zenon
<1>3. Serving'
    BY <1>1 DEF Serving
<1>4. ASSUME NEW q \in Savers, save'[q] # Idle, save'[q].alone PROVE Alone(q)'
    <2>1. q = s
        BY <1>2, <1>4, DisturbedIs, Zenon
    <2>2. /\ Busy = {} /\ k.at = "hash" /\ k.hash = Setting("hash") /\ ~k.import
        BY <1>1, <1>2, <1>4, <2>1
    <2>3. \A r \in Savers \ {s} : save'[r] = Idle
        BY <1>2, <2>2, DisturbedIs, Zenon DEF Busy
    <2>4. Setting("hash")' = Setting("hash")
        BY OtherSettings, KeysAreNames DEF Same, Names
    <2> QED
        BY <1>2, <2>1, <2>2, <2>3, <2>4 DEF Alone
<1> QED
    BY <1>1, <1>3, <1>4 DEF Saving

\* Any other step leaves the form's settings alone, the mode but for its migration.
LEMMA OthersLeaveSaves ==
    ASSUME Types, Flags, Saving, [Next]_vars, ~Begins, ~(\E s \in Savers : SaveStep(s))
    PROVE  Saving'
<1>1. CASE Crash \/ StartUp
    <2>1. \A s \in Savers : save'[s] = Idle
        <3>1. CASE Crash
            BY <3>1, Zenon DEF Crash
        <3>2. CASE StartUp
            BY <3>2, StartUpStage, Zenon DEF Saving
        <3> QED
            BY <1>1, <3>1, <3>2
    <2>2. settled' = settled
        BY <1>1, StartUpStage, Zenon DEF Crash
    <2>3. ASSUME settled PROVE Setting("modeDone")' /\ Usable'
        <3>1. Setting("modeDone") /\ Usable
            BY <2>3 DEF Saving
        <3>2. /\ Setting("modeDone") => Setting("modeDone")'
              /\ \/ Setting("mode")' = Setting("mode")
                 \/ AuthMode /\ ~Setting("modeDone") /\ Setting("enabled")
              /\ Same(FormKeys \ {"mode"})
            BY SettingsMove, Zenon
        <3>3. /\ Setting("mode")' = Setting("mode") /\ Setting("username")' = Setting("username")
              /\ Setting("hash")' = Setting("hash") /\ Setting("sso")' = Setting("sso")
              /\ Setting("claude")' = Setting("claude")
              /\ Setting("claudeFields")' = Setting("claudeFields")
            BY <3>1, <3>2 DEF Same, FormKeys
        <3> QED
            BY <3>1, <3>2, <3>3 DEF Usable, CanSignIn
    <2> QED
        BY <2>1, <2>2, <2>3 DEF Saving
<1>2. CASE ~Crash /\ ~StartUp
    <2>1. Chooses \/ CompleteSetup \/ Restart \/ UNCHANGED vars
        BY <1>2, NextCases, Zenon
    <2>2. /\ save' = save /\ settled' = settled
          /\ Restart \/ (stage' = stage /\ up' = up)
        BY <2>1, Zenon DEF Chooses, TitleArrives, ChoosePrecise, JobRecordsTracks,
           ReplacementLands, ChooseLevels, ClearWords, CompleteSetup, Rest, Restart, user, vars
    <2>3. Same(FormKeys) /\ Setting("modeDone")' = Setting("modeDone")
        <3>1. Same(Keys \ {"wizard"})
            <4>1. CASE CompleteSetup
                BY <4>1, OtherSettings, Zenon
            <4>2. CASE ~CompleteSetup
                <5>1. Same(Keys)
                    BY <2>1, <4>2, OtherSettings, Zenon
                <5> QED
                    BY <5>1, Zenon DEF Same
            <4> QED
                BY <4>1, <4>2
        <3> QED
            BY <3>1, KeysAreNames DEF Same, Names, FormKeys
    <2>4. /\ Setting("mode")' = Setting("mode") /\ Setting("username")' = Setting("username")
          /\ Setting("hash")' = Setting("hash") /\ Setting("sso")' = Setting("sso")
          /\ Setting("claude")' = Setting("claude")
          /\ Setting("claudeFields")' = Setting("claudeFields")
        BY <2>3 DEF Same, FormKeys
    <2>5. settled' => Setting("modeDone")' /\ Usable'
        BY <2>2, <2>3, <2>4 DEF Saving, Usable, CanSignIn
    <2>6. ASSUME NEW s \in Savers, save'[s] # Idle
          PROVE  Serving' /\ (save'[s].alone => Alone(s)')
        <3>1. save[s] # Idle /\ Serving
            BY <2>2, <2>6 DEF Saving
        <3>2. Serving'
            BY <2>2, <3>1 DEF Serving, Restart
        <3>3. save'[s].alone => Alone(s)'
            <4>1. save[s].alone => Alone(s)
                BY <3>1 DEF Saving
            <4> QED
                BY <2>2, <2>4, <4>1 DEF Alone, SavedMode, SavedClaude
        <3> QED
            BY <3>2, <3>3
    <2> QED
        BY <2>5, <2>6 DEF Saving
<1> QED
    BY <1>1, <1>2

---------------------------------------------------------------------------
(* The inductive invariant *)

IInv == Types /\ Flags /\ Kept /\ Carried /\ Newcomer /\ Saving

\* The keys a database of an earlier release has.
LEMMA EarlierKeys ==
    ASSUME NEW r \in 0 .. Len(Brought)
    PROVE  /\ KeysOf(0) = {}
           /\ r > 0 => "version" \in KeysOf(r)
           /\ "levelsDone" \in KeysOf(r) <=> r >= 2
           /\ "preciseDone" \in KeysOf(r) <=> r >= 3
           /\ "enabled" \in KeysOf(r) <=> r >= 4
           /\ "mode" \in KeysOf(r) <=> r >= 6
           /\ "modeDone" \in KeysOf(r) <=> r >= 6
           /\ "wizard" \in KeysOf(r) <=> r >= 7
           /\ "wizardDone" \in KeysOf(r) <=> r >= 7
<1>1. /\ Len(Brought) = 7
      /\ Brought[1] = {"version", "seeded"} /\ Brought[2] = {"levelsDone"}
      /\ Brought[3] = {"preciseDone"} /\ Brought[4] = {"enabled", "username", "hash"}
      /\ Brought[5] = {"claude", "claudeFields"} /\ Brought[6] = {"mode", "modeDone", "sso"}
      /\ Brought[7] = {"wizard", "wizardDone"}
    BY DEF Brought
<1>2. ASSUME NEW k PROVE k \in KeysOf(r) <=> \E n \in 1 .. r : k \in Brought[n]
    BY DEF KeysOf
<1>3. r \in 0 .. 7 /\ \A n \in 1 .. r : n \in {1, 2, 3, 4, 5, 6, 7} /\ n <= r
    BY <1>1
<1>4. \A n \in {1, 2, 3, 4, 5, 6, 7} : n <= r => n \in 1 .. r
    BY <1>3
<1>5. \A n \in {1, 2, 3, 4, 5, 6, 7} :
          /\ "version" \in Brought[n] <=> n = 1
          /\ "levelsDone" \in Brought[n] <=> n = 2
          /\ "preciseDone" \in Brought[n] <=> n = 3
          /\ "enabled" \in Brought[n] <=> n = 4
          /\ "mode" \in Brought[n] <=> n = 6
          /\ "modeDone" \in Brought[n] <=> n = 6
          /\ "wizard" \in Brought[n] <=> n = 7
          /\ "wizardDone" \in Brought[n] <=> n = 7
    BY <1>1
<1>6. KeysOf(0) = {}
    BY DEF KeysOf
<1>7. ASSUME NEW k, NEW m \in {1, 2, 3, 4, 5, 6, 7},
             \A n \in {1, 2, 3, 4, 5, 6, 7} : k \in Brought[n] <=> n = m
      PROVE  k \in KeysOf(r) <=> m <= r
    <2>1. k \in KeysOf(r) => m <= r
        BY <1>2, <1>3, <1>7, Zenon
    <2>2. m <= r => k \in KeysOf(r)
        BY <1>2, <1>4, <1>7, Zenon
    <2> QED
        BY <2>1, <2>2
<1>8. "version" \in KeysOf(r) <=> 1 <= r
    BY <1>5, <1>7
<1>9. "levelsDone" \in KeysOf(r) <=> 2 <= r
    BY <1>5, <1>7
<1>10. "preciseDone" \in KeysOf(r) <=> 3 <= r
    BY <1>5, <1>7
<1>11. "enabled" \in KeysOf(r) <=> 4 <= r
    BY <1>5, <1>7
<1>12. "mode" \in KeysOf(r) <=> 6 <= r
    BY <1>5, <1>7
<1>13. "modeDone" \in KeysOf(r) <=> 6 <= r
    BY <1>5, <1>7
<1>14. "wizard" \in KeysOf(r) <=> 7 <= r
    BY <1>5, <1>7
<1>15. "wizardDone" \in KeysOf(r) <=> 7 <= r
    BY <1>5, <1>7
<1> QED
    BY <1>3, <1>6, <1>8, <1>9, <1>10, <1>11, <1>12, <1>13, <1>14, <1>15

\* What a database of an earlier release says.
LEMMA InitSettings ==
    ASSUME Init
    PROVE  /\ Stored
           /\ release > 0 => db["version"] # Absent
           /\ release = 0 => db["version"] = Absent /\ ~Setting("wizardDone") /\ ~Setting("wizard")
           /\ Setting("levelsDone") => release >= 2
           /\ Setting("preciseDone") => release >= 3
           /\ Setting("wizardDone") => Setting("wizard")
           /\ Setting("mode") = "password" => Setting("enabled")
           /\ Setting("modeDone") => (Setting("enabled") => Setting("mode") = "password")
<1> DEFINE given == {"version", "seeded", "levelsDone", "preciseDone", "modeDone", "wizard", "wizardDone"}
<1>1. PICK login \in BOOLEAN :
         db = [k \in Keys |->
                 IF k \notin KeysOf(release) THEN Absent
                 ELSE IF k \in given THEN TRUE
                 ELSE IF k = "mode" THEN IF login THEN "password" ELSE "none"
                 ELSE IF k \in {"enabled", "username", "hash"} THEN login
                 ELSE FALSE]
    BY Zenon DEF Init
<1>2. /\ "version" \in Keys /\ "levelsDone" \in Keys /\ "preciseDone" \in Keys
      /\ "enabled" \in Keys /\ "mode" \in Keys /\ "modeDone" \in Keys
      /\ "wizard" \in Keys /\ "wizardDone" \in Keys
    BY KeysAreNames DEF Names
<1>3. \A k \in given : k \in Keys => db[k] = IF k \in KeysOf(release) THEN TRUE ELSE Absent
    BY <1>1, Zenon
<1>4. db["mode"] = IF "mode" \notin KeysOf(release) THEN Absent
                   ELSE IF login THEN "password" ELSE "none"
    <2>1. "mode" \notin given
        OBVIOUS
    <2> HIDE DEF given
    <2> QED
        BY <1>1, <1>2, <2>1, Zenon
<1>5. db["enabled"] = IF "enabled" \in KeysOf(release) THEN login ELSE Absent
    <2>1. "enabled" \notin given /\ "enabled" # "mode"
        OBVIOUS
    <2> HIDE DEF given
    <2> QED
        BY <1>1, <1>2, <2>1, Zenon
<1>6. TRUE # Absent /\ FALSE # Absent /\ "none" # Absent /\ "password" # Absent
    BY SettingsAssumption DEF Modes
<1>7. Stored
    <2>1. db = [k \in Keys |-> db[k]]
        BY <1>1, Zenon
    <2>2. ASSUME NEW k \in Keys PROVE db[k] \in Values(k)
        <3>1. CASE k = "mode"
            BY <1>4, <3>1 DEF Values, Modes
        <3>2. CASE k # "mode"
            <4>1. db[k] \in {Absent, TRUE, login, FALSE}
                BY <1>1, <3>2, Zenon
            <4> QED
                BY <3>2, <4>1, Zenon DEF Values
        <3> QED
            BY <3>1, <3>2
    <2> QED
        BY <2>1, <2>2, Zenon DEF Stored
<1>8. /\ KeysOf(0) = {}
      /\ release > 0 => "version" \in KeysOf(release)
      /\ "levelsDone" \in KeysOf(release) <=> release >= 2
      /\ "preciseDone" \in KeysOf(release) <=> release >= 3
      /\ "enabled" \in KeysOf(release) <=> release >= 4
      /\ "mode" \in KeysOf(release) <=> release >= 6
      /\ "modeDone" \in KeysOf(release) <=> release >= 6
      /\ "wizard" \in KeysOf(release) <=> release >= 7
      /\ "wizardDone" \in KeysOf(release) <=> release >= 7
      /\ release \in Nat
    BY EarlierKeys DEF Init, Brought
<1>9. /\ db["version"] = IF "version" \in KeysOf(release) THEN TRUE ELSE Absent
      /\ Setting("levelsDone") <=> "levelsDone" \in KeysOf(release)
      /\ Setting("preciseDone") <=> "preciseDone" \in KeysOf(release)
      /\ Setting("modeDone") <=> "modeDone" \in KeysOf(release)
      /\ Setting("wizard") <=> "wizard" \in KeysOf(release)
      /\ Setting("wizardDone") <=> "wizardDone" \in KeysOf(release)
    <2>1. ASSUME NEW k \in {"levelsDone", "preciseDone", "modeDone", "wizard", "wizardDone"}
          PROVE  Setting(k) <=> k \in KeysOf(release)
        <3>1. k \in given /\ k \in Keys
            BY <1>2
        <3>2. Default[k] = FALSE
            BY <2>1 DEF Default
        <3>3. db[k] = IF k \in KeysOf(release) THEN TRUE ELSE Absent
            BY <1>3, <3>1
        <3> HIDE DEF given
        <3> QED
            BY <1>6, <3>2, <3>3, Zenon DEF Setting
    <2>2. db["version"] = IF "version" \in KeysOf(release) THEN TRUE ELSE Absent
        BY <1>2, <1>3
    <2> QED
        BY <2>1, <2>2
<1>10. /\ Setting("mode") = "password" <=> "mode" \in KeysOf(release) /\ login
       /\ Setting("enabled") <=> "enabled" \in KeysOf(release) /\ login
    <2>1. Default["mode"] = "none" /\ Default["enabled"] = FALSE
        BY DEF Default
    <2>2. Setting("enabled") <=> "enabled" \in KeysOf(release) /\ login
        <3>1. CASE "enabled" \in KeysOf(release)
            <4>1. db["enabled"] = login /\ login # Absent
                BY <1>5, <1>6, <3>1
            <4> QED
                BY <3>1, <4>1 DEF Setting
        <3>2. CASE "enabled" \notin KeysOf(release)
            BY <1>5, <2>1, <3>2 DEF Setting
        <3> QED
            BY <3>1, <3>2
    <2>3. Setting("mode") = "password" <=> "mode" \in KeysOf(release) /\ login
        BY <1>4, <1>6, <2>1 DEF Setting
    <2> QED
        BY <2>2, <2>3
<1>11. release = 0 => ~("version" \in KeysOf(release)) /\ ~("wizard" \in KeysOf(release))
                      /\ ~("wizardDone" \in KeysOf(release))
    BY <1>8
<1>12. release >= 7 => release >= 4
    BY <1>8
<1>13. release > 0 => db["version"] # Absent
    BY <1>6, <1>8, <1>9
<1>14. release = 0 => db["version"] = Absent /\ ~Setting("wizardDone") /\ ~Setting("wizard")
    BY <1>9, <1>11
<1>15. /\ Setting("levelsDone") => release >= 2
       /\ Setting("preciseDone") => release >= 3
       /\ Setting("wizardDone") => Setting("wizard")
    BY <1>8, <1>9
<1>16. "mode" \in KeysOf(release) => "enabled" \in KeysOf(release)
    BY <1>8
<1>17. /\ Setting("mode") = "password" => Setting("enabled")
       /\ Setting("modeDone") => (Setting("enabled") => Setting("mode") = "password")
    BY <1>8, <1>9, <1>10, <1>16
<1> QED
    BY <1>7, <1>13, <1>14, <1>15, <1>17

\* The rest of an initial state.
LEMMA InitRest ==
    ASSUME Init
    PROVE  /\ release \in 0 .. Len(Brought)
           /\ words \in {"empty", "new", "old"}
           /\ stage = 1 /\ up = TRUE /\ starts = 1 /\ isUpgrade = FALSE
           /\ save = [s \in Savers |-> Idle] /\ acts = 0
           /\ chosen = NothingChosen /\ settled = FALSE /\ smooth = TRUE
           /\ release = 0 => title = Absent
           /\ release > 0 => \E threshold \in {"moderate", "child"}, precise \in BOOLEAN,
                                track \in {Absent, 1} :
                title = [threshold |-> threshold,
                         levels |-> IF release >= 2 THEN {threshold} ELSE {"child"},
                         precise |-> precise,
                         mode |-> IF release >= 3 /\ precise THEN "estimate" ELSE "whole_line",
                         track |-> track, tracks |-> Absent]
<1>1. /\ release \in 0 .. Len(Brought)
      /\ stage = 1 /\ up = TRUE /\ starts = 1 /\ isUpgrade = FALSE
      /\ save = [s \in Savers |-> Idle] /\ acts = 0
      /\ chosen = NothingChosen /\ settled = FALSE /\ smooth = TRUE
      /\ words \in IF release = 0 THEN {"empty"}
                   ELSE IF release >= 6 THEN {"new"} ELSE {"old", "new"}
      /\ \E threshold \in {"moderate", "child"}, precise \in BOOLEAN, track \in {Absent, 1} :
           title = IF release = 0 THEN Absent
                   ELSE [threshold |-> threshold,
                         levels |-> IF release >= 2 THEN {threshold} ELSE {"child"},
                         precise |-> precise,
                         mode |-> IF release >= 3 /\ precise THEN "estimate" ELSE "whole_line",
                         track |-> track, tracks |-> Absent]
    BY Zenon DEF Init
<1>2. words \in {"empty", "new", "old"}
    BY <1>1
<1>3. release > 0 => release # 0
    OBVIOUS
<1> QED
    BY <1>1, <1>2, <1>3, Zenon

LEMMA InitTypes == Init => Types
<1> SUFFICES ASSUME Init PROVE Types
    OBVIOUS
<1>1. Stored
    BY InitSettings
<1>2. Len(Startup) = 11 /\ Len(Brought) = 7
    BY DEF Startup, Brought
<1>3. /\ release \in 0 .. Len(Brought) /\ words \in WordLists /\ stage \in 1 .. Len(Startup) + 1
      /\ starts \in 1 .. MaxStarts /\ acts \in 0 .. MaxActs
    BY <1>2, InitRest, SettingsAssumption DEF WordLists
<1>4. title = Absent \/ title \in Title
    <2>1. release = 0 \/ release > 0
        BY <1>2, <1>3
    <2> QED
        BY <2>1, InitRest DEF Title, Tracks, Vocabulary, OldWords, NewWords
<1>5. save \in [Savers -> Saves] /\ \A s \in Savers : save[s] = Idle
    BY InitRest, Zenon DEF Saves
<1>6. chosen \in Choices
    <2>1. NothingChosen \in Choices
        BY DEF NothingChosen, Choices, Tracks
    <2> QED
        BY <2>1, InitRest, Zenon
<1>7. up \in BOOLEAN /\ isUpgrade \in BOOLEAN /\ settled \in BOOLEAN /\ smooth \in BOOLEAN /\ up
    BY InitRest, Zenon
<1>8. TypeOK
    BY <1>1, <1>3, <1>4, <1>5, <1>6, <1>7, Zenon DEF TypeOK, Stored, Values
<1> QED
    BY <1>1, <1>5, <1>7, <1>8, Zenon DEF Types

LEMMA InitInv == Init => IInv
<1> SUFFICES ASSUME Init PROVE IInv
    OBVIOUS
<1>1. Types
    BY InitTypes
<1>2. stage = 1 /\ up = TRUE /\ isUpgrade = FALSE /\ settled = FALSE /\ chosen = NothingChosen
    BY InitRest, Zenon
<1>3. Flags
    BY <1>2 DEF Flags
<1>4. Saving
    <2>1. \A s \in Savers : save[s] = Idle
        BY InitRest, Zenon
    <2> QED
        BY <1>2, <2>1, Zenon DEF Saving
<1>5. /\ chosen.levels = Absent /\ chosen.precise = Absent /\ chosen.tracks = Absent
      /\ chosen.words = Absent
    BY <1>2 DEF NothingChosen
<1>6. Kept
    BY <1>5 DEF Kept
<1>7. Carried
    <2> SUFFICES ASSUME release > 0 PROVE Carried
        BY DEF Carried
    <2>1. PICK threshold \in {"moderate", "child"}, precise \in BOOLEAN, track \in {Absent, 1} :
                title = [threshold |-> threshold,
                         levels |-> IF release >= 2 THEN {threshold} ELSE {"child"},
                         precise |-> precise,
                         mode |-> IF release >= 3 /\ precise THEN "estimate" ELSE "whole_line",
                         track |-> track, tracks |-> Absent]
        BY InitRest, Zenon
    <2>2. title \in Title
        BY <2>1 DEF Title, Tracks, Vocabulary, OldWords, NewWords
    <2>3. title # Absent
        BY <2>2, AbsentAssumption
    <2>4. /\ release >= 2 => title.levels = {title.threshold}
          /\ release >= 3 /\ title.precise => title.mode = "estimate"
        BY <2>1
    <2>5. /\ Setting("levelsDone") => release >= 2
          /\ Setting("preciseDone") => release >= 3
          /\ Setting("mode") = "password" => Setting("enabled")
          /\ Setting("modeDone") => (Setting("enabled") => Setting("mode") = "password")
        BY InitSettings, Zenon
    <2> QED
        BY <1>2, <2>3, <2>4, <2>5 DEF Carried
<1>8. Newcomer
    <2>1. /\ release > 0 => db["version"] # Absent
          /\ release = 0 => db["version"] = Absent /\ ~Setting("wizardDone") /\ ~Setting("wizard")
          /\ Setting("wizardDone") => Setting("wizard")
        BY InitSettings, Zenon
    <2> QED
        BY <1>2, <2>1 DEF Newcomer
<1> QED
    BY <1>1, <1>3, <1>4, <1>6, <1>7, <1>8 DEF IInv

LEMMA NextInv == IInv /\ [Next]_vars => IInv'
<1> SUFFICES ASSUME IInv, [Next]_vars PROVE IInv'
    OBVIOUS
<1>1. Types /\ Flags /\ Kept /\ Carried /\ Newcomer /\ Saving
    BY DEF IInv
<1>2. Types'
    BY <1>1, TypesAreKept, Zenon DEF TypesHold
<1>3. Flags' /\ Kept' /\ Carried' /\ Newcomer'
    BY <1>1, FlagsAreKept, ChoicesStayKept, UpgradeStaysCarried, NewcomerStays, Zenon
<1>4. Saving'
    BY <1>1, BeginsSaves, SaveStepSaves, OthersLeaveSaves, Zenon
<1> QED
    BY <1>2, <1>3, <1>4, Zenon DEF IInv

---------------------------------------------------------------------------
(* Theorems *)

THEOREM InvHolds == Spec => []IInv
BY InitInv, NextInv, PTL DEF Spec

\* When a start is done, each of its commits is.
LEMMA ServingIsLast == Types /\ Serving => stage > 11
<1>1. ASSUME Types, Serving PROVE stage > 11
    <2>1. Len(Startup) = 11
        BY <1>1, StageOf, Zenon
    <2> QED
        BY <1>1, <2>1 DEF Serving
<1> QED
    BY <1>1

\* The store, the title, the starts and the saves keep their types.
THEOREM TypeCorrect == Spec => []TypeOK
<1>1. IInv => TypeOK
    BY Zenon DEF IInv, Types
<1> QED
    BY <1>1, InvHolds, PTL

\* A choice of the user survives every later start, wherever starts are cut off
\* (_backfill_multi_severity_fields, _backfill_precise_mode,
\* _seed_default_wordlist_if_empty in db/session.py).
THEOREM ChoicesSurvive == Spec => []ChoicesAreKept
<1>1. IInv => ChoicesAreKept
    <2> SUFFICES ASSUME IInv PROVE ChoicesAreKept
        OBVIOUS
    <2>1. chosen.words \in {"empty", Absent}
        BY DEF IInv, Types, TypeOK, Choices
    <2> QED
        BY <2>1 DEF IInv, Kept, ChoicesAreKept
<1> QED
    BY <1>1, InvHolds, PTL

\* What a database of any earlier release holds arrives in the new columns, words and
\* mode of signing in, wherever starts are cut off (init_db in db/session.py).
THEOREM UpgradeArrives == Spec => []UpgradeIsCarriedOver
<1>1. IInv => UpgradeIsCarriedOver
    <2> SUFFICES ASSUME IInv, Serving, release > 0
                 PROVE  /\ words # "old"
                        /\ chosen.levels = Absent => title.levels = {VocabularyMap(title.threshold)}
                        /\ chosen.precise = Absent /\ title.precise => title.mode = "estimate"
                        /\ ~chosen.mode => (Setting("mode") = "password") = Setting("enabled")
        BY DEF UpgradeIsCarriedOver
    <2>1. stage > 11
        BY ServingIsLast DEF IInv
    <2>2. stage > 1 /\ stage > 5 /\ stage > 6 /\ stage > 8
        <3>1. stage \in 1 .. 12
            BY StageOf, Zenon DEF IInv
        <3> QED
            BY <2>1, <3>1
    <2>3. Setting("preciseDone")
        BY <2>2 DEF IInv, Flags
    <2>4. Carried
        BY DEF IInv
    <2>5. Setting("enabled") \in BOOLEAN
        BY SettingValues, KeysAreNames DEF IInv, Types, Names
    <2>6. ~chosen.mode => (Setting("mode") = "password" <=> Setting("enabled"))
        BY <2>2, <2>4 DEF Carried
    <2>7. ~chosen.mode => (Setting("mode") = "password") = Setting("enabled")
        BY <2>5, <2>6
    <2> QED
        BY <2>2, <2>3, <2>4, <2>7 DEF Carried
<1> QED
    BY <1>1, InvHolds, PTL

\* An upgrade is never sent through the setup wizard; a fresh install is, unless its
\* first start was cut off (_mark_setup_wizard_completed_for_upgrade).
THEOREM OnlyNewcomersSetUp == Spec => []WizardIsForNewcomers
<1>1. IInv => WizardIsForNewcomers
    <2> SUFFICES ASSUME IInv, Serving PROVE WizardIsForNewcomers
        BY DEF WizardIsForNewcomers
    <2>1. stage > 11
        BY ServingIsLast DEF IInv
    <2>2. Setting("wizardDone")
        BY <2>1 DEF IInv, Flags
    <2> QED
        BY <2>2 DEF IInv, Newcomer, WizardIsForNewcomers
<1> QED
    BY <1>1, InvHolds, PTL

\* A save that nothing disturbed leaves a login somebody can complete, and Claude on
\* only when it is configured, whatever starts follow (update_settings).
THEOREM UndisturbedSaveIsUsable == Spec => []SettledIsUsable
<1>1. IInv => SettledIsUsable
    BY DEF IInv, Saving, Usable, SettledIsUsable
<1> QED
    BY <1>1, InvHolds, PTL
=============================================================================
