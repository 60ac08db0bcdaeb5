---------------------------- MODULE LibraryProofs ----------------------------
(***************************************************************************)
(* What the stores of whole files and directories guarantee for any number *)
(* of versions, processes, packs, paths, crashes and intrusions.           *)
(***************************************************************************)
EXTENDS MCLibrary, SequenceTheorems, WellFoundedInduction, TLAPS

-----------------------------------------------------------------------------
(* The two files of an avatar *)

SpecIInv == SpecTypeOK /\ SpecInv

SaveSteps == {"idle", "reading", "create", "flush", "rename", "sync"}
LoadSteps == {"idle", "primary", "backup", "done"}
SpecFiles == [now : Contents, old : Contents, solid : BOOLEAN]
Saves == [step : SaveSteps, version : 0 .. MaxSave, name : Names, copied : 0 .. MaxSave]
Loads == [step : LoadSteps, seen : Contents, floor : 0 .. MaxSave, raced : BOOLEAN, got : Contents \cup {Failed}]
Parts == [version : 0 .. MaxSave, solid : BOOLEAN]

SpecPart == spec \in [Names -> SpecFiles]
SavePart == save \in Saves /\ temporary \in Parts /\ lastSaved \in 0 .. MaxSave
LoadPart == load \in Loads
UpsetPart == upsets \in 0 .. MaxUpset /\ wasBad \subseteq Names
SpecParts == SpecPart /\ SavePart /\ LoadPart /\ UpsetPart

LEMMA SpecTypesAre == (SpecTypeOK <=> SpecParts) /\ (SpecTypeOK' <=> SpecParts')
BY DEF SpecTypeOK, SpecParts, SpecPart, SavePart, LoadPart, UpsetPart, SpecFiles, Saves, Loads, Parts, SaveSteps, LoadSteps

LEMMA SpecNumbers ==
    /\ MaxSave \in Nat /\ MaxUpset \in Nat /\ Contents \subseteq Int /\ 0 \in Contents /\ -1 \in Contents
    /\ \A v \in 0 .. MaxSave : v \in Contents
    /\ \A v \in Contents : v > 0 => v \in 0 .. MaxSave
    /\ \A v \in Contents : v <= MaxSave
BY SpecAssumption DEF SpecAssumption, Contents, Bad

LEMMA SpecInvInit == SpecInit => SpecIInv
<1> SUFFICES ASSUME SpecInit PROVE SpecIInv  OBVIOUS
<1> USE SpecNumbers
<1>1. SpecTypeOK  BY DEF SpecInit, SpecTypeOK, File, Missing, NoSave, NoPart, NoLoad, Names
<1>2. SaveKeeps /\ LoadKeeps
  BY DEF SpecInit, SaveKeeps, LoadKeeps, File, Missing, NoSave, NoPart, NoLoad, Names
<1>3. AvatarIsKept /\ SavedIsRead /\ LoadIsRecent
  BY DEF SpecInit, AvatarIsKept, SavedIsRead, LoadIsRecent, File, Missing, NoSave, NoPart, NoLoad, Names
<1> QED  BY <1>1, <1>2, <1>3 DEF SpecIInv, SpecInv

\* A call of save() that is over leaves its version to be counted on from.
LEMMA SaveOver ==
    ASSUME SavePart, Ended
    PROVE  /\ save' \in Saves /\ save'.step = "idle" /\ save'.version = save.version /\ save'.copied = 0
           /\ save'.name = "primary"
<1>1. save \in Saves /\ save' = [save EXCEPT !.step = "idle", !.name = "primary", !.copied = 0]
  BY DEF SavePart, Ended, Missing
<1>2. "idle" \in SaveSteps /\ "primary" \in Names /\ 0 \in 0 .. MaxSave
  BY SpecNumbers DEF SaveSteps, Names
<1> QED  BY <1>1, <1>2 DEF Saves

LEMMA SaveBegins ==
    ASSUME SavePart, NEW name \in Names, NEW copied \in 0 .. MaxSave, Begin(name, copied)
    PROVE  /\ save' \in Saves /\ save'.step = "create" /\ save'.version = save.version /\ save'.copied = copied
           /\ save'.name = name
BY DEF SavePart, Begin, Saves, SaveSteps

\* What a power loss leaves under a name is one of the two things it held.
LEMMA PowerLeaves ==
    ASSUME NEW f \in SpecFiles, f.solid, NEW g \in AfterPowerLoss(f)
    PROVE  /\ g \in SpecFiles /\ g.solid /\ g.old = g.now /\ (g.now = f.now \/ g.now = f.old)
<1>1. PICK v \in {IF f.solid THEN f.now ELSE Bad, f.old} : g = File(v, v, TRUE)
  BY DEF AfterPowerLoss
<1>2. v \in {f.now, f.old} /\ v \in Contents  BY <1>1 DEF SpecFiles
<1>3. g = [now |-> v, old |-> v, solid |-> TRUE]  BY <1>1 DEF File
<1> QED  BY <1>2, <1>3 DEF SpecFiles

\* An upset is one more of MaxUpset.
LEMMA Upsets == ASSUME UpsetPart, wasBad' \subseteq Names, Upset \/ Smooth PROVE UpsetPart'
BY SpecNumbers DEF UpsetPart, Upset, Smooth

LEMMA SpecTypesStep == SpecIInv /\ [SpecNext]_specVars => SpecTypeOK'
<1> SUFFICES ASSUME SpecIInv, [SpecNext]_specVars PROVE SpecParts'  BY SpecTypesAre
<1>i. SpecParts /\ SaveKeeps  BY SpecTypesAre DEF SpecIInv, SpecInv
<1>p. SpecPart /\ SavePart /\ LoadPart /\ UpsetPart  BY <1>i DEF SpecParts
<1>a. ASSUME UNCHANGED spec PROVE SpecPart'  BY <1>a, <1>p DEF SpecPart
<1>b. ASSUME UNCHANGED load PROVE LoadPart'  BY <1>b, <1>p DEF LoadPart
<1>c. ASSUME UNCHANGED <<save, temporary, lastSaved>> PROVE SavePart'  BY <1>c, <1>p DEF SavePart
<1>d. ASSUME UNCHANGED wasBad, Upset \/ Smooth PROVE UpsetPart'  BY <1>d, <1>p, Upsets DEF UpsetPart
<1>e. ASSUME save' \in Saves, temporary' \in Parts, UNCHANGED lastSaved PROVE SavePart'
  BY <1>e, <1>p DEF SavePart
<1>n. NoPart \in Parts /\ NoLoad \in Loads
  BY SpecNumbers DEF NoPart, Missing, NoLoad, Parts, Loads, LoadSteps
<1>o. ASSUME Ended, temporary' = NoPart \/ UNCHANGED temporary, UNCHANGED lastSaved PROVE SavePart'
  BY <1>o, <1>n, <1>p, <1>e, SaveOver DEF SavePart
<1>q. ASSUME SpecPart', SavePart', LoadPart', UpsetPart' PROVE SpecParts'  BY <1>q DEF SpecParts
<1>s. ASSUME NEW step \in SaveSteps PROVE [save EXCEPT !.step = step] \in Saves
  BY <1>p DEF SavePart, Saves
<1>l. ASSUME NEW got \in Contents \cup {Failed}, Answered(got) PROVE LoadPart'
  BY <1>l, <1>p DEF LoadPart, Answered, Loads, LoadSteps
<1>1. CASE Save
 <2>1. save' = [save EXCEPT !.step = "reading", !.version = save.version + 1] /\ save.version < MaxSave
   BY <1>1 DEF Save
 <2>2. save' \in Saves
  <3>1. save \in Saves /\ save.version + 1 \in 0 .. MaxSave
    BY <2>1, <1>p, SpecNumbers DEF SavePart, Saves
  <3>2. "reading" \in SaveSteps  BY DEF SaveSteps
  <3> QED  BY <2>1, <3>1, <3>2 DEF Saves
 <2>3. SavePart'  BY <1>1, <2>2, <1>p, <1>e DEF Save, SavePart
 <2> QED  BY <1>1, <2>3, <1>a, <1>b, <1>d, <1>q DEF Save, Smooth
<1>2. CASE Choose
 <2>1. save' \in Saves
  <3>1. CASE Ended  BY <3>1, <1>p, SaveOver
  <3>2. CASE Readable("primary") /\ Begin("backup", spec["primary"].now)
    BY <3>2, <1>p, SpecNumbers, SaveBegins DEF Readable, SpecPart, SpecFiles, Names, Missing
  <3>3. ASSUME NEW name \in Names, Begin(name, save.version) PROVE save' \in Saves
    BY <1>p, <3>3, SaveBegins DEF SavePart, Saves
  <3> QED  BY <1>2, <3>1, <3>2, <3>3 DEF Choose, Names
 <2>2. SavePart'  BY <1>2, <2>1, <1>p, <1>e DEF Choose, SavePart
 <2> QED  BY <1>2, <2>2, <1>a, <1>b, <1>d, <1>q DEF Choose
<1>3. CASE CreatePart
 <2>1. SavePart'
  <3>1. CASE Upset /\ temporary' = NoPart /\ Ended  BY <3>1, <1>3, <1>o DEF CreatePart
  <3>2. CASE Smooth /\ temporary' = [version |-> save.copied, solid |-> FALSE] /\ save' = [save EXCEPT !.step = "flush"]
    BY <3>2, <1>s, <1>p, <1>3, <1>e DEF SaveSteps, SavePart, Saves, CreatePart, Parts
  <3> QED  BY <1>3, <3>1, <3>2 DEF CreatePart
 <2> QED  BY <1>3, <2>1, <1>a, <1>b, <1>d, <1>q DEF CreatePart
<1>4. CASE FlushPart
  BY <1>4, <1>o, <1>s, <1>p, <1>e, <1>a, <1>b, <1>d, <1>q DEF FlushPart, SaveSteps, SavePart, Parts
<1>5. CASE RenamePart
 <2>1. SavePart'  BY <1>5, <1>o, <1>s, <1>n, <1>e DEF RenamePart, SaveSteps
 <2>2. SpecPart' /\ LoadPart'
  <3>1. CASE UNCHANGED <<spec, load>>  BY <3>1, <1>a, <1>b
  <3>2. CASE /\ spec' = [spec EXCEPT ![save.name] = Replaced(save.name)]
             /\ load' = [load EXCEPT !.raced = @ \/ load.step = save.name]
    BY <1>p, SpecNumbers, <3>2 DEF SavePart, Saves, Parts, SpecPart, SpecFiles, Replaced, File,
      LoadPart, Loads
  <3> QED  BY <1>5, <3>1, <3>2 DEF RenamePart
 <2>3. Upset \/ Smooth  BY <1>5 DEF RenamePart
 <2> QED  BY <1>5, <2>1, <2>2, <2>3, <1>d, <1>q DEF RenamePart
<1>6. CASE SyncDirectory
 <2>1. SpecPart'
  <3>1. ASSUME NEW n \in Names PROVE Flushed(spec[n]) \in SpecFiles
    BY <1>p, SpecNumbers DEF SpecPart, SpecFiles, Bad, Flushed
  <3> QED  BY <1>6, <3>1, <1>a DEF SyncDirectory, SpecPart
 <2>2. SavePart'
   BY <1>p, <1>6, SaveBegins, <1>e, <1>o, SaveOver DEF SavePart, Saves, SyncDirectory, Names
 <2> QED  BY <1>6, <2>1, <2>2, <1>b, <1>d, <1>q DEF SyncDirectory
<1>7. CASE BeginLoad
  BY <1>p, <1>7, SpecNumbers, <1>a, <1>c, <1>d, <1>q DEF SpecPart, SpecFiles, Names, SavePart,
    BeginLoad, Missing, LoadPart, Loads, LoadSteps, Smooth
<1>8. CASE ReadPrimary
 <2>0. load.seen \in Contents /\ spec["backup"].now \in Contents
   BY <1>p DEF LoadPart, Loads, SpecPart, SpecFiles, Names
 <2>1. CASE \E got \in Contents \cup {Failed} : Answered(got)
   BY <1>8, <2>1, <1>l, <1>a, <1>c, <1>d, <1>q DEF ReadPrimary, Smooth
 <2>2. CASE load' = [load EXCEPT !.step = "backup", !.seen = spec["backup"].now]
  <3>1. LoadPart'  BY <2>0, <2>2, <1>p DEF LoadPart, Loads, LoadSteps
  <3> QED  BY <1>8, <3>1, <1>a, <1>c, <1>d, <1>q DEF ReadPrimary, Smooth
 <2> QED  BY <1>8, <2>0, <2>1, <2>2 DEF ReadPrimary
<1>9. CASE ReadBackup
  BY <1>9, <1>p, <1>l, <1>a, <1>c, <1>d, <1>q DEF ReadBackup, LoadPart, Loads, Smooth
<1>10. CASE SaverDies
  BY <1>10, <1>p, <1>n, <1>o, <1>a, <1>d, <1>q DEF SaverDies, Interrupted, LoadPart
<1>11. CASE LosePower
 <2>1. LoadPart' /\ SavePart'  BY <1>11, <1>p, <1>n, <1>o DEF LosePower, Interrupted, LoadPart
 <2>2. SpecPart'
  <3>1. PICK p \in AfterPowerLoss(spec["primary"]), b \in AfterPowerLoss(spec["backup"]) :
            spec' = [n \in Names |-> IF n = "primary" THEN p ELSE b]
    BY <1>11 DEF LosePower
  <3>2. spec["primary"] \in SpecFiles /\ spec["backup"] \in SpecFiles  BY <1>p DEF SpecPart, Names
  <3>3. spec["primary"].solid /\ spec["backup"].solid  BY <1>i DEF SaveKeeps, Names
  <3>4. p \in SpecFiles /\ b \in SpecFiles  BY <3>2, <3>3, PowerLeaves
  <3> QED  BY <3>1, <3>4 DEF SpecPart
 <2> QED  BY <1>11, <2>1, <2>2, <1>d, <1>q DEF LosePower
<1>12. ASSUME NEW name \in Names, GoBad(name) PROVE SpecParts'
  BY <1>12, <1>p, SpecNumbers, Upsets, <1>b, <1>c, <1>q DEF GoBad, File, Bad, SpecPart, SpecFiles,
    UpsetPart
<1>13. CASE UNCHANGED specVars  BY <1>13, <1>a, <1>b, <1>c, <1>d, <1>q DEF specVars, Smooth
<1> QED
  BY <1>1, <1>2, <1>3, <1>4, <1>5, <1>6, <1>7, <1>8, <1>9, <1>10, <1>11, <1>12, <1>13
  DEF SpecNext, SaveStep, LoadStep

LEMMA SpecInvStep == SpecIInv /\ [SpecNext]_specVars => SpecInv'
<1> SUFFICES ASSUME SpecIInv, [SpecNext]_specVars PROVE SpecInv'  OBVIOUS
<1>i. /\ SpecParts /\ SaveKeeps /\ LoadKeeps
      /\ AvatarIsKept /\ SavedIsRead /\ LoadIsRecent
  BY SpecTypesAre DEF SpecIInv, SpecInv
<1>j. SpecParts'  BY SpecTypesStep, SpecTypesAre
<1>p. SpecPart /\ SavePart /\ LoadPart /\ UpsetPart /\ SpecPart' /\ SavePart' /\ LoadPart'
  BY <1>i, <1>j DEF SpecParts
<1>t. /\ save.version \in Nat /\ save.copied \in Nat /\ lastSaved \in Nat /\ save.name \in Names
      /\ temporary.version \in Nat /\ load.floor \in Nat /\ load.seen \in Int
      /\ \A n \in Names : spec[n].now \in Int /\ spec[n].old \in Int
 <2>1. save.version \in Nat /\ save.copied \in Nat /\ lastSaved \in Nat /\ save.name \in Names /\ temporary.version \in Nat
   BY <1>p, SpecNumbers DEF SavePart, Saves, Parts
 <2>2. load.floor \in Nat /\ load.seen \in Int
  <3>1. load.floor \in 0 .. MaxSave /\ load.seen \in Contents  BY <1>p DEF LoadPart, Loads
  <3>2. load.floor \in Nat  BY <3>1
  <3>3. load.seen \in Int  BY <3>1, SpecNumbers
  <3> QED  BY <3>2, <3>3
 <2>3. \A n \in Names : spec[n].now \in Int /\ spec[n].old \in Int
   BY <1>p, SpecNumbers DEF SpecPart, SpecFiles
 <2> QED  BY <2>1, <2>2, <2>3
<1>n. "primary" \in Names /\ "backup" \in Names /\ \A n \in Names : n = "primary" \/ n = "backup"
  BY DEF Names
<1>k. SaveKeeps' => AvatarIsKept'  BY DEF SaveKeeps, AvatarIsKept, Listed, Readable
<1>q. ASSUME SaveKeeps', SavedIsRead', LoadKeeps', LoadIsRecent' PROVE SpecInv'
  BY <1>q, <1>k DEF SpecInv
<1>s. ASSUME UNCHANGED <<spec, save, temporary, lastSaved>> PROVE SaveKeeps'
  BY <1>s, <1>i DEF SaveKeeps
<1>r. ASSUME UNCHANGED <<spec, lastSaved>>, wasBad \subseteq wasBad' PROVE SavedIsRead'
  BY <1>r, <1>i DEF SavedIsRead
<1>m. ASSUME UNCHANGED load, wasBad \subseteq wasBad' PROVE LoadKeeps' /\ LoadIsRecent'
  BY <1>m, <1>i DEF LoadKeeps, LoadIsRecent
<1>o. ASSUME Ended, UNCHANGED <<spec, lastSaved>> PROVE SaveKeeps'
  BY <1>o, <1>p, SaveOver, <1>i, <1>t DEF SaveKeeps
<1>1. CASE Save
  BY <1>1, <1>p, <1>i, <1>t, <1>n, <1>r, <1>m, <1>q DEF Save, SavePart, Saves, SaveKeeps
<1>2. CASE Choose
 <2>0. save.step = "reading" /\ UNCHANGED <<spec, temporary, lastSaved>>  BY <1>2 DEF Choose
 <2>1. ASSUME NEW name \in Names, NEW copied \in 0 .. MaxSave, Begin(name, copied), 0 < copied, copied <= save.version,
              name = "primary" => copied = save.version
       PROVE  SaveKeeps'
   BY <2>1, <1>p, SaveBegins, <2>0, <1>i, <1>t DEF SaveKeeps
 <2>2. SaveKeeps'
  <3>1. CASE Ended  BY <3>1, <2>0, <1>o
  <3>2. CASE Readable("primary") /\ Begin("backup", spec["primary"].now)
    BY <3>2, <1>i, <1>n, <1>p, SpecNumbers, <2>1 DEF Readable, Missing, SaveKeeps, SpecPart,
      SpecFiles
  <3>3. ASSUME NEW name \in Names, Begin(name, save.version) PROVE SaveKeeps'
    BY <2>0, <1>p, <1>i, <1>t, <3>3, <2>1 DEF SavePart, Saves, SaveKeeps
  <3> QED  BY <1>2, <3>1, <3>2, <3>3, <1>n DEF Choose
 <2> QED  BY <1>2, <2>2, <1>r, <1>m, <1>q DEF Choose
<1>3. CASE CreatePart
  BY <1>3, <1>o, <1>p, <1>i, <1>t, <1>r, <1>m, <1>q DEF CreatePart, SavePart, Saves, SaveKeeps
<1>4. CASE FlushPart
  BY <1>4, <1>o, <1>p, <1>i, <1>t, <1>r, <1>m, <1>q DEF FlushPart, SavePart, Saves, Parts, SaveKeeps
<1>5. CASE RenamePart
 <2>1. CASE Ended /\ UNCHANGED <<spec, load>>  BY <1>5, <2>1, <1>o, <1>r, <1>m, <1>q DEF RenamePart
 <2>2. CASE /\ spec' = [spec EXCEPT ![save.name] = Replaced(save.name)]
            /\ save' = [save EXCEPT !.step = "sync"]
            /\ load' = [load EXCEPT !.raced = @ \/ load.step = save.name]
  <3>0. save.step = "rename" /\ UNCHANGED <<lastSaved, wasBad>>  BY <1>5 DEF RenamePart
  <3>1. save'.step = "sync" /\ save'.version = save.version /\ save'.copied = save.copied /\ save'.name = save.name
    BY <2>2, <1>p DEF SavePart, Saves
  <3>2. /\ temporary.version = save.copied /\ temporary.solid /\ 0 < save.copied /\ save.copied <= save.version
        /\ save.name = "primary" => save.copied = save.version
    BY <3>0, <1>i DEF SaveKeeps
  <3>3. /\ spec'[save.name].now = save.copied /\ spec'[save.name].solid /\ spec'[save.name].old = spec[save.name].old
        /\ \A n \in Names : n # save.name => spec'[n] = spec[n]
    BY <2>2, <3>2, <1>t, <1>p DEF SpecPart, Replaced, File
  <3>4. ASSUME lastSaved > 0 PROVE \E n \in Names : spec'[n].now > Missing /\ spec'[n].old > Missing
   <4>1. PICK n \in Names : spec[n].now > Missing /\ spec[n].old > Missing
     BY <3>4, <1>i DEF SaveKeeps
   <4> QED  BY <4>1, <3>2, <3>3 DEF Missing
  <3>5. SaveKeeps'  BY <3>2, <3>3, <1>i, <1>t, <3>0, <1>n, <3>1, <3>4 DEF SaveKeeps
  <3>6. SavedIsRead'  BY <3>0, <1>i, <3>2, <3>3, <1>t, <1>n DEF SaveKeeps, SavedIsRead
  <3>7. /\ load'.step = load.step /\ load'.seen = load.seen /\ load'.floor = load.floor /\ load'.got = load.got
        /\ load.raced => load'.raced
    BY <2>2, <1>p DEF LoadPart, Loads
  <3>8. LoadKeeps' /\ LoadIsRecent'  BY <3>0, <3>7, <1>i DEF LoadKeeps, LoadIsRecent
  <3> QED  BY <3>5, <3>6, <3>8, <1>q
 <2> QED  BY <1>5, <2>1, <2>2 DEF RenamePart
<1>6. CASE SyncDirectory
 <2>0. save.step = "sync" /\ UNCHANGED <<wasBad, load>>  BY <1>6 DEF SyncDirectory
 <2>1. CASE Ended /\ UNCHANGED <<spec, lastSaved>>  BY <2>0, <2>1, <1>o, <1>r, <1>m, <1>q
 <2>2. CASE spec' = [n \in Names |-> Flushed(spec[n])]
  <3>1. \A n \in Names : spec'[n].now = spec[n].now /\ spec'[n].old = spec[n].now /\ spec'[n].solid
    BY <2>2, <1>i, <1>p DEF Flushed, SaveKeeps, SpecPart, SpecFiles
  <3>2. CASE save.name = "backup" /\ Begin("primary", save.version) /\ UNCHANGED lastSaved
    BY <3>2, <1>p, <1>n, SaveBegins, <2>0, <1>i, <3>1, <1>t, <1>m, <1>q DEF SavePart, Saves,
      SaveKeeps, Missing, SavedIsRead
  <3>3. CASE save.name = "primary" /\ Ended /\ lastSaved' = save.version
    BY <3>3, <1>p, SaveOver, <2>0, <1>i, <1>t, <3>1, <1>n, <1>m, <1>q DEF SaveKeeps, Missing,
      SavedIsRead
  <3> QED  BY <1>6, <2>2, <3>2, <3>3, <2>1, <1>t, <1>n DEF SyncDirectory
 <2> QED  BY <1>6, <2>1, <2>2 DEF SyncDirectory
<1>7. CASE BeginLoad
  BY <1>7, <1>i, <1>s, <1>r, <1>q DEF BeginLoad, LoadKeeps, LoadIsRecent, SavedIsRead
<1>l. ASSUME NEW got, Answered(got)
      PROVE  load'.step = "done" /\ load'.got = got /\ load'.floor = load.floor /\ load'.raced = load.raced
  BY <1>l, <1>p DEF Answered, LoadPart, Loads
<1>8. CASE ReadPrimary
 <2>1. LoadKeeps' /\ LoadIsRecent'
  <3>0. load.step = "primary" /\ UNCHANGED wasBad  BY <1>8 DEF ReadPrimary
  <3>1. CASE load.raced /\ Answered(Failed)  BY <3>0, <3>1, <1>l DEF LoadKeeps, LoadIsRecent
  <3>2. CASE load.seen > Missing /\ Answered(load.seen)
    BY <3>0, <3>2, <1>l, <1>i, <1>t DEF LoadKeeps, LoadIsRecent, Failed, Missing
  <3>3. CASE load.seen <= Missing /\ load' = [load EXCEPT !.step = "backup", !.seen = spec["backup"].now]
    BY <3>3, <1>p, <3>0, <1>i, <1>t DEF LoadPart, Loads, LoadKeeps, LoadIsRecent, Missing
  <3> QED  BY <1>8, <3>1, <3>2, <3>3, <1>t DEF ReadPrimary, Raced, Missing
 <2> QED  BY <1>8, <2>1, <1>s, <1>r, <1>q DEF ReadPrimary
<1>9. CASE ReadBackup
 <2>1. LoadKeeps' /\ LoadIsRecent'
  <3>0. load.step = "backup" /\ UNCHANGED wasBad  BY <1>9 DEF ReadBackup
  <3>1. PICK got \in Int : Answered(got) /\ (got = Failed \/ got > Missing)
    BY <1>9, <1>t DEF ReadBackup, Missing, Failed
  <3> QED  BY <3>0, <3>1, <1>l, <1>i, <1>t DEF LoadKeeps, LoadIsRecent, Missing
 <2> QED  BY <1>9, <2>1, <1>s, <1>r, <1>q DEF ReadBackup
<1>d. ASSUME Interrupted, wasBad \subseteq wasBad' PROVE LoadKeeps' /\ LoadIsRecent'
  BY <1>d, <1>m DEF NoLoad, LoadKeeps, LoadIsRecent, Interrupted
<1>10. CASE SaverDies  BY <1>10, <1>d, <1>o, <1>r, <1>q DEF SaverDies, Interrupted
<1>11. CASE LosePower
 <2>0. Interrupted /\ Ended /\ UNCHANGED <<lastSaved, wasBad>>  BY <1>11 DEF LosePower, Interrupted
 <2>1. \A n \in Names : /\ spec'[n].solid /\ spec'[n].old = spec'[n].now
                        /\ spec'[n].now = spec[n].now \/ spec'[n].now = spec[n].old
  <3>1. PICK p \in AfterPowerLoss(spec["primary"]), b \in AfterPowerLoss(spec["backup"]) :
            spec' = [n \in Names |-> IF n = "primary" THEN p ELSE b]
    BY <1>11 DEF LosePower
  <3>2. /\ spec["primary"] \in SpecFiles /\ spec["backup"] \in SpecFiles
        /\ spec["primary"].solid /\ spec["backup"].solid
    BY <1>i, <1>p, <1>n DEF SpecPart, SaveKeeps
  <3>3. /\ p.solid /\ p.old = p.now /\ (p.now = spec["primary"].now \/ p.now = spec["primary"].old)
        /\ b.solid /\ b.old = b.now /\ (b.now = spec["backup"].now \/ b.now = spec["backup"].old)
    BY <3>2, PowerLeaves
  <3>4. spec'["primary"] = p /\ spec'["backup"] = b  BY <3>1, <1>n
  <3> QED  BY <3>3, <3>4, <1>n
 <2>2. SaveKeeps'  BY <2>0, <1>p, SaveOver, <2>1, <1>i, <1>t DEF SaveKeeps
 <2>3. SavedIsRead'  BY <2>0, <2>1, <1>i, <1>n DEF SavedIsRead
 <2> QED  BY <2>0, <2>2, <2>3, <1>d, <1>q
<1>12. ASSUME NEW name \in Names, GoBad(name) PROVE SpecInv'
 <2>0. /\ spec' = [spec EXCEPT ![name] = [now |-> -1, old |-> -1, solid |-> TRUE]] /\ name \in wasBad' /\ wasBad \subseteq wasBad'
       /\ spec[name].old = spec[name].now /\ UNCHANGED <<save, temporary, load, lastSaved>>
   BY <1>12 DEF GoBad, File, Bad
 <2>1. /\ spec'[name].now = -1 /\ spec'[name].old = -1 /\ spec'[name].solid
       /\ \A n \in Names : n # name => spec'[n] = spec[n]
   BY <2>0, <1>p DEF SpecPart
 <2>2. lastSaved > 0 => \E n \in Names : spec'[n].now > Missing /\ spec'[n].old > Missing
  <3>1. CASE name = "primary"
   <4>1. spec'["backup"] = spec["backup"]  BY <2>1, <3>1, <1>n
   <4>2. lastSaved = 0 \/ (spec["backup"].now > Missing /\ spec["backup"].old > Missing)
     BY <1>12, <3>1 DEF GoBad
   <4> QED  BY <4>1, <4>2, <1>n, <1>t
  <3>2. CASE name = "backup"
   <4>1. spec'["primary"] = spec["primary"]  BY <2>1, <3>2, <1>n
   <4>2. lastSaved = 0 \/ (spec["primary"].now > Missing /\ spec["primary"].old > Missing)
     BY <1>12, <3>2 DEF GoBad
   <4> QED  BY <4>1, <4>2, <1>n, <1>t
  <3> QED  BY <3>1, <3>2, <1>n
 <2>3. name = "primary" => ~(save.step = "sync" /\ save.name = "primary")
   BY <2>0, <1>i, <1>t, <1>n DEF SaveKeeps
 <2>4. SaveKeeps'  BY <2>1, <1>i, <1>t, <2>3, <1>n, <2>0, <2>2 DEF SaveKeeps
 <2>5. SavedIsRead'  BY <2>0 DEF SavedIsRead
 <2> QED  BY <2>0, <2>4, <2>5, <1>m, <1>q
<1>13. CASE UNCHANGED specVars  BY <1>13, <1>s, <1>r, <1>m, <1>q DEF specVars
<1> QED
  BY <1>1, <1>2, <1>3, <1>4, <1>5, <1>6, <1>7, <1>8, <1>9, <1>10, <1>11, <1>12, <1>13
  DEF SpecNext, SaveStep, LoadStep

-----------------------------------------------------------------------------
(* A medium under a lease *)

Piece == 0 .. MaxIntrusion
MediaFiles == [parts : Seq(Piece), links : Int, stamp : Piece]
LeaseSteps == Before \cup Holding

FilesPart == files \in Seq(MediaFiles) /\ named \in 0 .. Len(files) /\ writing \in 0 .. Len(files)
Leases(last) == [step : LeaseSteps, held : 0 .. last, size : Nat, stamp : Piece, copy : Seq(Piece), again : Seq(Piece), looks : Nat]
LeasePart == lease \in Leases(Len(files))
CountPart == unix \in BOOLEAN /\ coarse \in BOOLEAN /\ intrusions \in 0 .. MaxIntrusion /\ probes \in 0 .. MaxProbe
MediaParts == FilesPart /\ LeasePart /\ CountPart

LEMMA MediaTypesAre == (MediaTypeOK <=> MediaParts) /\ (MediaTypeOK' <=> MediaParts')
BY DEF MediaTypeOK, MediaParts, FilesPart, LeasePart, Leases, LeaseSteps, CountPart, MediaFiles, Piece

LEMMA MediaNumbers == MaxIntrusion \in Nat /\ MaxProbe \in Nat /\ 0 \in Piece /\ Piece \subseteq Nat
BY MediaAssumption DEF MediaAssumption, Piece

\* The last piece of a file cut off.
LEMMA CutShort ==
    ASSUME NEW S, NEW s \in Seq(S), s # <<>>
    PROVE  /\ SubSeq(s, 1, Len(s) - 1) \in Seq(S) /\ Len(SubSeq(s, 1, Len(s) - 1)) = Len(s) - 1
           /\ \A n \in 1 .. Len(s) - 1 : SubSeq(s, 1, Len(s) - 1)[n] = s[n]
<1>1. /\ Len(s) \in Nat /\ Len(s) >= 1  BY EmptySeq
<1>2. \A i \in 1 .. Len(s) - 1 : s[i] \in S  OBVIOUS
<1>3. 1 \in Int /\ Len(s) - 1 \in Int  BY <1>1
<1> DEFINE t == SubSeq(s, 1, Len(s) - 1)
<1>4. /\ t \in Seq(S) /\ Len(t) = (IF 1 <= Len(s) - 1 THEN Len(s) - 1 - 1 + 1 ELSE 0)
      /\ \A i \in 1 .. Len(s) - 1 - 1 + 1 : t[i] = s[1 + i - 1]
  BY <1>2, <1>3, SubSeqProperties
<1>5. Len(t) = Len(s) - 1
 <2>1. \A m \in Nat : m >= 1 => (IF 1 <= m - 1 THEN m - 1 - 1 + 1 ELSE 0) = m - 1  OBVIOUS
 <2>2. (IF 1 <= Len(s) - 1 THEN Len(s) - 1 - 1 + 1 ELSE 0) = Len(s) - 1  BY <1>1, <2>1
 <2> QED  BY <1>4, <2>2
<1>6. ASSUME NEW n \in 1 .. Len(s) - 1 PROVE t[n] = s[n]  BY <1>1, <1>4
<1> QED  BY <1>4, <1>5, <1>6

\* A piece written over, and one added.
LEMMA PieceWritten ==
    ASSUME NEW S, NEW s \in Seq(S), NEW n \in 1 .. Len(s), NEW e \in S
    PROVE  /\ [s EXCEPT ![n] = e] \in Seq(S) /\ Len([s EXCEPT ![n] = e]) = Len(s)
           /\ \A m \in 1 .. Len(s) : [s EXCEPT ![n] = e][m] = IF m = n THEN e ELSE s[m]
OBVIOUS

LEMMA PieceAdded ==
    ASSUME NEW S, NEW s \in Seq(S), NEW e \in S
    PROVE  /\ Append(s, e) \in Seq(S) /\ Len(Append(s, e)) = Len(s) + 1
           /\ \A m \in 1 .. Len(s) + 1 : Append(s, e)[m] = IF m = Len(s) + 1 THEN e ELSE s[m]
OBVIOUS

LEMMA MediaInit0 == MediaInit => MediaTypeOK /\ MediaInv
<1> SUFFICES ASSUME MediaInit PROVE MediaParts /\ MediaInv  BY MediaTypesAre
<1>1. files = <<[parts |-> <<0, 0>>, links |-> 1, stamp |-> 0]>> /\ Len(files) = 1  BY DEF MediaInit
<1>2. /\ files[1] = [parts |-> <<0, 0>>, links |-> 1, stamp |-> 0]
      /\ <<0, 0>> \in Seq(Piece) /\ Len(<<0, 0>>) = 2 /\ \A n \in 1 .. 2 : <<0, 0>>[n] = 0
  BY <1>1, MediaNumbers
<1>3. FilesPart  BY <1>1, <1>2, MediaNumbers DEF MediaInit, FilesPart, MediaFiles, Gone
<1>4. /\ lease.step = "idle" /\ lease.held = 0 /\ lease.size = 0 /\ lease.stamp = 0 /\ lease.copy = <<>>
      /\ lease.again = <<>> /\ lease.looks = 0
  BY DEF MediaInit, NoLease, Gone
<1>5. LeasePart
  BY <1>1, MediaNumbers DEF MediaInit, NoLease, Gone, LeaseSteps, Before, LeasePart, Leases
<1>6. CountPart  BY MediaNumbers DEF MediaInit, CountPart
<1>7. lease.step \notin Holding /\ lease.step \in Before
  BY <1>4 DEF Holding, Before, Reading, Parsed, Looked
<1>8. LeaseKeeps  BY <1>1, <1>2, <1>4, <1>7 DEF LeaseKeeps, MediaInit, Gone
<1>9. RecordedIsWhole /\ RecordedIsCurrent /\ StampsTell /\ ReadingTwiceTells
  BY <1>4, <1>7 DEF RecordedIsWhole, RecordedIsCurrent, StampsTell, ReadingTwiceTells, Founded
<1> QED  BY <1>3, <1>5, <1>6, <1>8, <1>9 DEF MediaParts, MediaInv

\* What a change makes of a file: a stamp of its own, if stamps tell, and new pieces,
\* which are younger than all that was there.
Follows(old, new) ==
    /\ \/ new.parts = old.parts /\ new.stamp = old.stamp
       \/ new.stamp = intrusions + 1
       \/ coarse /\ new.stamp = old.stamp
    /\ \A n \in 1 .. Len(new.parts) :
         new.parts[n] = intrusions + 1 \/ (n <= Len(old.parts) /\ new.parts[n] = old.parts[n])

\* What every intrusion leaves of a lease's grounds.
Intrusion ==
    /\ intrusions' = intrusions + 1 /\ UNCHANGED <<unix, coarse, probes, lease, atLastLook>>
    /\ Len(files) <= Len(files') /\ \A f \in 1 .. Len(files) : Follows(files[f], files'[f])
    /\ \A f \in Len(files) + 1 .. Len(files') :
         files'[f].stamp <= intrusions + 1 /\ \A n \in 1 .. Len(files'[f].parts) : files'[f].parts[n] <= intrusions + 1
    /\ wholes \subseteq wholes' /\ named' \in {named, Gone, Len(files) + 1}
    /\ named' # Gone => files'[named'].parts \in wholes'
    /\ ~unix /\ lease.held # Gone /\ named = lease.held /\ writing # lease.held =>
         named' = named /\ writing' # lease.held /\ files'[lease.held].parts = files[lease.held].parts

LEMMA IntrusionKeeps ==
    ASSUME MediaParts, MediaParts', MediaInv, Intrusion
    PROVE  MediaInv'
<1>i. LeaseKeeps /\ StampsTell /\ ReadingTwiceTells /\ RecordedIsWhole /\ RecordedIsCurrent
  BY DEF MediaInv
<1>t. /\ lease \in Leases(Len(files)) /\ lease.held \in 0 .. Len(files) /\ lease.copy \in Seq(Piece) /\ lease.again \in Seq(Piece)
      /\ lease.stamp \in Nat /\ lease.size \in Nat /\ intrusions \in Nat /\ Len(files) \in Nat
 <2>1. lease \in Leases(Len(files)) /\ files \in Seq(MediaFiles) /\ intrusions \in 0 .. MaxIntrusion
   BY DEF MediaParts, LeasePart, CountPart, FilesPart
 <2>2. /\ lease.held \in 0 .. Len(files) /\ lease.copy \in Seq(Piece) /\ lease.again \in Seq(Piece)
       /\ lease.stamp \in Piece /\ lease.size \in Nat
   BY <2>1 DEF Leases
 <2>3. lease.stamp \in Nat  BY <2>2, MediaNumbers
 <2>4. intrusions \in Nat /\ Len(files) \in Nat  BY <2>1
 <2> QED  BY <2>1, <2>2, <2>3, <2>4
<1>f. /\ \A f \in 1 .. Len(files) : files[f].stamp \in Nat /\ files[f].parts \in Seq(Piece)
      /\ \A f \in 1 .. Len(files') : files'[f].stamp \in Nat /\ files'[f].parts \in Seq(Piece)
 <2>1. files \in Seq(MediaFiles) /\ files' \in Seq(MediaFiles)  BY DEF MediaParts, FilesPart
 <2>2. \A file \in MediaFiles : file.stamp \in Nat /\ file.parts \in Seq(Piece)
   BY MediaNumbers DEF MediaFiles
 <2> QED  BY <2>1, <2>2
<1>s. /\ intrusions' = intrusions + 1 /\ lease' = lease /\ atLastLook' = atLastLook /\ unix' = unix /\ coarse' = coarse
      /\ Len(files) <= Len(files') /\ wholes \subseteq wholes'
  BY DEF Intrusion
<1>h. ASSUME lease.step \in Holding
      PROVE  /\ lease.held \in 1 .. Len(files) /\ lease.held \in 1 .. Len(files')
             /\ Follows(files[lease.held], files'[lease.held])
  BY <1>h, <1>i, <1>t, <1>s DEF LeaseKeeps, Intrusion, Gone
<1>n. ASSUME lease.step \in Holding, named' = lease.held PROVE named = lease.held
  BY <1>h, <1>n, <1>t, <1>i DEF Intrusion, LeaseKeeps
<1>w. ASSUME lease.step \in Holding, ~unix
      PROVE  /\ named = lease.held /\ named' = lease.held /\ writing' # lease.held /\ lease.step \notin Reading
             /\ files'[lease.held].parts = files[lease.held].parts
  BY <1>w, <1>h, <1>i DEF LeaseKeeps, Intrusion, Gone
<1>1. LeaseKeeps'
 <2>1. \A f \in 1 .. Len(files') :
           files'[f].stamp <= intrusions' /\ \A n \in 1 .. Len(files'[f].parts) : files'[f].parts[n] <= intrusions'
  <3> SUFFICES ASSUME NEW f \in 1 .. Len(files')
               PROVE  files'[f].stamp <= intrusions' /\ \A n \in 1 .. Len(files'[f].parts) : files'[f].parts[n] <= intrusions'
    OBVIOUS
  <3>1. CASE f \in Len(files) + 1 .. Len(files')  BY <3>1, <1>s DEF Intrusion
  <3>2. CASE f \in 1 .. Len(files)
   <4>1. /\ Follows(files[f], files'[f]) /\ files[f].stamp <= intrusions
         /\ \A n \in 1 .. Len(files[f].parts) : files[f].parts[n] <= intrusions
     BY <3>2, <1>i DEF Intrusion, LeaseKeeps
   <4>2. files'[f].stamp <= intrusions + 1  BY <3>2, <4>1, <1>f, <1>t DEF Follows
   <4>3. ASSUME NEW n \in 1 .. Len(files'[f].parts) PROVE files'[f].parts[n] <= intrusions + 1
    <5>1. CASE files'[f].parts[n] = intrusions + 1  BY <5>1, <1>t
    <5>2. CASE n <= Len(files[f].parts) /\ files'[f].parts[n] = files[f].parts[n]
     <6>1. n \in 1 .. Len(files[f].parts) /\ files[f].parts[n] \in Piece  BY <3>2, <5>2, <1>f
     <6>2. files[f].parts[n] \in Nat /\ files[f].parts[n] <= intrusions  BY <4>1, <6>1, MediaNumbers
     <6> QED  BY SMTT(40), <5>2, <6>2, <1>t
    <5> QED  BY <4>1, <5>1, <5>2 DEF Follows
   <4> QED  BY <4>2, <4>3, <1>s
  <3> QED  BY <3>1, <3>2, <1>t
 <2>2. ASSUME lease.step \in Holding, ~unix
       PROVE  /\ named' = lease.held /\ writing' # lease.held /\ lease.step \notin Reading
              /\ lease.step \in Parsed => lease.copy = files'[lease.held].parts
              /\ lease.step \in Looked => atLastLook = files'[lease.held].parts
   BY <2>2, <1>w, <1>i DEF LeaseKeeps, Held
 <2>3. ASSUME lease.step \in Holding, unix
       PROVE  /\ lease.stamp <= files'[lease.held].stamp
              /\ \A n \in 1 .. Len(lease.copy) : lease.copy[n] <= intrusions + 1
  <3>1. files[lease.held].stamp <= intrusions /\ lease.stamp <= files[lease.held].stamp
    BY <2>3, <1>h, <1>i DEF LeaseKeeps, Held
  <3>2. lease.stamp <= files'[lease.held].stamp  BY <2>3, <3>1, <1>h, <1>f, <1>t DEF Follows
  <3>3. \A n \in 1 .. Len(lease.copy) : lease.copy[n] <= intrusions /\ lease.copy[n] \in Nat
   <4>1. \A n \in 1 .. Len(lease.copy) : lease.copy[n] <= intrusions  BY <2>3, <1>i DEF LeaseKeeps
   <4>2. \A n \in 1 .. Len(lease.copy) : lease.copy[n] \in Piece  BY <1>t
   <4> QED  BY <4>1, <4>2, MediaNumbers
  <3> QED  BY <3>2, <3>3, <1>t
 <2>4. named' # Gone => files'[named'].parts \in wholes'  BY DEF Intrusion
 <2> QED  BY <2>1, <2>2, <2>3, <2>4, <1>s, <1>i DEF LeaseKeeps, Held
<1>2. StampsTell'
 <2> SUFFICES ASSUME ~coarse, unix, lease.step \in Holding
              PROVE  /\ files'[lease.held].stamp = lease.stamp =>
                          Len(files'[lease.held].parts) = lease.size /\ Begins(lease.copy, files'[lease.held].parts)
                     /\ lease.step \in Looked => lease.copy = atLastLook
                     /\ Founded({"path"})' => lease.copy \in wholes'
   BY <1>s DEF StampsTell, Held
 <2>1. ASSUME files'[lease.held].stamp = lease.stamp
       PROVE  Len(files'[lease.held].parts) = lease.size /\ Begins(lease.copy, files'[lease.held].parts)
  <3>1. files[lease.held].stamp <= intrusions /\ lease.stamp <= files[lease.held].stamp
    BY <1>h, <1>i DEF LeaseKeeps, Held
  <3>2. files'[lease.held].parts = files[lease.held].parts /\ files'[lease.held].stamp = files[lease.held].stamp
    BY <2>1, <3>1, <1>h, <1>f, <1>t DEF Follows
  <3> QED  BY <2>1, <3>2, <1>i DEF StampsTell, Held
 <2>2. Founded({"path"})' => Founded({"path"})  BY <1>n, <1>s DEF Founded
 <2> QED  BY <2>1, <2>2, <1>s, <1>i DEF StampsTell
<1>3. ReadingTwiceTells'
 <2> SUFFICES ASSUME unix PROVE ReadingTwiceTells'  BY <1>s DEF ReadingTwiceTells
 <2>1. ASSUME lease.step \in {"hash", "compare"}, named' = lease.held
       PROVE  \E w \in wholes' :
                 /\ lease.size <= Len(w)
                 /\ \A n \in 1 .. lease.size :
                      w[n] = lease.copy[n] \/ ~(n <= Len(files'[lease.held].parts) /\ files'[lease.held].parts[n] = lease.copy[n])
                 /\ \A n \in 1 .. Len(lease.again) : lease.again[n] = lease.copy[n] => w[n] = lease.copy[n]
  <3>0. lease.step \in Holding  BY <2>1 DEF Holding, Reading
  <3>1. PICK w \in wholes :
                /\ lease.size <= Len(w)
                /\ \A n \in 1 .. lease.size :
                     w[n] = lease.copy[n] \/ ~(n <= Len(files[lease.held].parts) /\ files[lease.held].parts[n] = lease.copy[n])
                /\ \A n \in 1 .. Len(lease.again) : lease.again[n] = lease.copy[n] => w[n] = lease.copy[n]
    BY <2>1, <3>0, <1>n, <1>i DEF ReadingTwiceTells, Held
  <3>2. Len(lease.copy) = lease.size /\ \A n \in 1 .. Len(lease.copy) : lease.copy[n] <= intrusions
    BY <2>1, <3>0, <1>i DEF LeaseKeeps
  <3>3. ASSUME NEW n \in 1 .. lease.size, n <= Len(files'[lease.held].parts),
               files'[lease.held].parts[n] = lease.copy[n]
        PROVE  n <= Len(files[lease.held].parts) /\ files[lease.held].parts[n] = lease.copy[n]
   <4>1. n \in 1 .. Len(files'[lease.held].parts)  BY <3>3, <1>f, <1>h, <3>0
   <4>2. lease.copy[n] <= intrusions  BY <3>2
   <4> QED  BY <3>3, <4>1, <4>2, <1>h, <3>0, <1>t DEF Follows
  <3> QED  BY <3>1, <3>3, <1>s
 <2>2. Founded({"parse", "held", "path"})' => Founded({"parse", "held", "path"})
   BY <1>n, <1>s DEF Holding, Parsed, Looked, Founded
 <2>3. Founded({"parse", "held", "path"})' => \E w \in wholes' : Begins(lease'.copy, w)
   BY <2>2, <1>s, <1>i DEF ReadingTwiceTells
 <2> QED  BY <2>1, <2>3, <1>s DEF ReadingTwiceTells, Held
<1>4. RecordedIsWhole'  BY <1>s, <1>i DEF RecordedIsWhole
<1>5. RecordedIsCurrent'  BY <1>s, <1>w, <1>i DEF Holding, Parsed, Looked, RecordedIsCurrent, Held
<1> QED  BY <1>1, <1>2, <1>3, <1>4, <1>5 DEF MediaInv

LEMMA FileNamed == ASSUME FilesPart, NEW f \in 1 .. Len(files) PROVE files[f] \in MediaFiles
BY DEF FilesPart

\* What another program does to the file it has open, or to the name of one.
LEMMA Changed ==
    ASSUME FilesPart, CountPart, intrusions < MaxIntrusion, NEW f \in 1 .. Len(files),
           NEW new \in MediaFiles, Follows(files[f], new), files' = [files EXCEPT ![f] = new]
    PROVE  /\ files' \in Seq(MediaFiles) /\ Len(files') = Len(files)
           /\ \A g \in 1 .. Len(files) : files'[g] = IF g = f THEN new ELSE files[g]
           /\ \A g \in 1 .. Len(files) : Follows(files[g], files'[g])
<1>1. files \in Seq(MediaFiles)  BY DEF FilesPart
<1>2. /\ files' \in Seq(MediaFiles) /\ Len(files') = Len(files)
      /\ \A g \in 1 .. Len(files) : files'[g] = IF g = f THEN new ELSE files[g]
  BY <1>1
<1>3. ASSUME NEW g \in 1 .. Len(files), g # f PROVE Follows(files[g], files'[g])
  BY <1>2, <1>3 DEF Follows
<1>4. Follows(files[f], files'[f])  BY <1>2
<1> QED  BY <1>2, <1>3, <1>4

\* The stamp of a change.
LEMMA Stamped ==
    ASSUME FilesPart, CountPart, intrusions < MaxIntrusion, NEW f \in 1 .. Len(files), NEW s \in Stamps(f)
    PROVE  s \in Piece /\ (s = intrusions + 1 \/ (coarse /\ s = files[f].stamp))
  BY FileNamed, MediaNumbers DEF Stamps, MediaFiles, CountPart, Piece

LEMMA CountPartStep == ASSUME CountPart, Intrudes PROVE CountPart' /\ intrusions < MaxIntrusion
BY MediaNumbers DEF CountPart, Intrudes

\* A file of which only the name or the links change.
LEMMA RenamedIs ==
    ASSUME FilesPart, CountPart, intrusions < MaxIntrusion, NEW f \in 1 .. Len(files), NEW links \in Int, Renamed(f, links)
    PROVE  /\ files' \in Seq(MediaFiles) /\ Len(files') = Len(files)
           /\ \A g \in 1 .. Len(files) : Follows(files[g], files'[g]) /\ files'[g].parts = files[g].parts
<1>1. PICK s \in Stamps(f) : files' = [files EXCEPT ![f].links = links, ![f].stamp = s]
  BY DEF Renamed
<1> DEFINE new == [files[f] EXCEPT !.links = links, !.stamp = s]
<1>2. s \in Piece /\ (s = intrusions + 1 \/ (coarse /\ s = files[f].stamp))  BY Stamped
<1>3. files[f] \in MediaFiles  BY FileNamed
<1>4. new \in MediaFiles /\ new.parts = files[f].parts /\ new.stamp = s
  BY <1>2, <1>3 DEF MediaFiles
<1>5. files' = [files EXCEPT ![f] = new]  BY <1>1, <1>3 DEF FilesPart, MediaFiles
<1> HIDE DEF new
<1>6. Follows(files[f], new)  BY <1>2, <1>4 DEF Follows
<1>7. /\ files' \in Seq(MediaFiles) /\ Len(files') = Len(files)
      /\ \A g \in 1 .. Len(files) : files'[g] = IF g = f THEN new ELSE files[g]
      /\ \A g \in 1 .. Len(files) : Follows(files[g], files'[g])
  BY <1>4, <1>5, <1>6, Changed
<1> QED  BY <1>4, <1>7

\* A file that is written.
LEMMA Rewritten ==
    ASSUME FilesPart, CountPart, intrusions < MaxIntrusion, writing # Gone, NEW parts \in Seq(Piece), Rewrite(parts),
           \A n \in 1 .. Len(parts) : \/ parts[n] = intrusions + 1
                                      \/ n <= Len(files[writing].parts) /\ parts[n] = files[writing].parts[n]
    PROVE  /\ files' \in Seq(MediaFiles) /\ Len(files') = Len(files) /\ UNCHANGED <<named, writing>>
           /\ \A g \in 1 .. Len(files) : /\ Follows(files[g], files'[g])
                                         /\ g # writing => files'[g].parts = files[g].parts
           /\ files'[writing].parts = parts /\ wholes' = wholes \cup (IF writing = named THEN {parts} ELSE {})
<1>0. writing \in 1 .. Len(files) /\ files \in Seq(MediaFiles) /\ Len(files) \in Nat
  BY DEF FilesPart, Gone
<1>1. PICK s \in Stamps(writing) : files' = [files EXCEPT ![writing].parts = parts, ![writing].stamp = s]
  BY DEF Rewrite
<1> DEFINE new == [files[writing] EXCEPT !.parts = parts, !.stamp = s]
<1>2. s \in Piece /\ (s = intrusions + 1 \/ (coarse /\ s = files[writing].stamp))  BY <1>0, Stamped
<1>3. files[writing] \in MediaFiles  BY <1>0, FileNamed
<1>4. new \in MediaFiles /\ new.parts = parts /\ new.stamp = s  BY <1>2, <1>3 DEF MediaFiles
<1>5. files' = [files EXCEPT ![writing] = new]  BY <1>0, <1>1, <1>3 DEF MediaFiles
<1> HIDE DEF new
<1>6. Follows(files[writing], new)  BY <1>2, <1>4 DEF Follows
<1>7. /\ files' \in Seq(MediaFiles) /\ Len(files') = Len(files)
      /\ \A g \in 1 .. Len(files) : files'[g] = IF g = writing THEN new ELSE files[g]
      /\ \A g \in 1 .. Len(files) : Follows(files[g], files'[g])
  BY <1>0, <1>4, <1>5, <1>6, Changed
<1> QED  BY <1>0, <1>4, <1>7 DEF Rewrite

\* A rewritten file is an intrusion, and the types hold.
LEMMA RewriteIntrudes ==
    ASSUME MediaParts, LeaseKeeps, Intrudes, writing # Gone, NEW parts \in Seq(Piece), Rewrite(parts),
           \A n \in 1 .. Len(parts) : \/ parts[n] = intrusions + 1
                                      \/ n <= Len(files[writing].parts) /\ parts[n] = files[writing].parts[n]
    PROVE  MediaParts' /\ Intrusion
<1>p. FilesPart /\ LeasePart /\ CountPart /\ CountPart' /\ intrusions < MaxIntrusion
  BY CountPartStep DEF MediaParts
<1>1. /\ files' \in Seq(MediaFiles) /\ Len(files') = Len(files) /\ UNCHANGED <<named, writing>>
      /\ \A g \in 1 .. Len(files) : /\ Follows(files[g], files'[g])
                                    /\ g # writing => files'[g].parts = files[g].parts
      /\ files'[writing].parts = parts /\ wholes' = wholes \cup (IF writing = named THEN {parts} ELSE {})
  BY <1>p, Rewritten
<1>2. FilesPart' /\ LeasePart'  BY <1>1, <1>p DEF FilesPart, LeasePart, Intrudes
<1>3. named' # Gone => files'[named'].parts \in wholes'
  BY <1>1, <1>p DEF FilesPart, Gone, LeaseKeeps
<1>4. ASSUME ~unix, lease.held # Gone, named = lease.held, writing # lease.held
      PROVE  files'[lease.held].parts = files[lease.held].parts
  BY <1>4, <1>p, <1>1 DEF FilesPart, Gone
<1>5. \A f \in Len(files) + 1 .. Len(files') :
          files'[f].stamp <= intrusions + 1 /\ \A n \in 1 .. Len(files'[f].parts) : files'[f].parts[n] <= intrusions + 1
  BY <1>p, <1>1 DEF FilesPart
<1>6. Len(files) <= Len(files') /\ \A f \in 1 .. Len(files) : Follows(files[f], files'[f])
  BY <1>p, <1>1 DEF FilesPart
<1>7. intrusions' = intrusions + 1 /\ UNCHANGED <<unix, coarse, probes, lease, atLastLook>>
  BY DEF Intrudes
<1>8. wholes \subseteq wholes' /\ named' \in {named, Gone, Len(files) + 1}  BY <1>1
<1>9. ~unix /\ lease.held # Gone /\ named = lease.held /\ writing # lease.held =>
         named' = named /\ writing' # lease.held /\ files'[lease.held].parts = files[lease.held].parts
  BY <1>1, <1>4
<1>10. Intrusion  BY <1>3, <1>5, <1>6, <1>7, <1>8, <1>9 DEF Intrusion
<1> QED  BY <1>2, <1>10, <1>p DEF MediaParts

\* A change of a name or of the links is one, too.
LEMMA RenameIntrudes ==
    ASSUME MediaParts, LeaseKeeps, Intrudes, NEW f \in 1 .. Len(files), NEW links \in Int, Renamed(f, links),
           UNCHANGED <<writing, wholes>>, named' \in {named, Gone}, Locked => named' = named
    PROVE  MediaParts' /\ Intrusion
<1>p. FilesPart /\ LeasePart /\ CountPart /\ CountPart' /\ intrusions < MaxIntrusion
  BY CountPartStep DEF MediaParts
<1>0. Len(files) \in Nat /\ named \in 0 .. Len(files) /\ lease.held \in 0 .. Len(files)
  BY <1>p DEF FilesPart, LeasePart, Leases
<1>1. /\ files' \in Seq(MediaFiles) /\ Len(files') = Len(files)
      /\ \A g \in 1 .. Len(files) : Follows(files[g], files'[g]) /\ files'[g].parts = files[g].parts
  BY <1>p, RenamedIs
<1>2. FilesPart' /\ LeasePart'  BY <1>1, <1>p, <1>0 DEF FilesPart, LeasePart, Intrudes, Gone
<1>3. named' # Gone => files'[named'].parts \in wholes'  BY <1>0, <1>1 DEF LeaseKeeps, Gone
<1>4. ~unix /\ lease.held # Gone /\ named = lease.held /\ writing # lease.held =>
         named' = named /\ writing' # lease.held /\ files'[lease.held].parts = files[lease.held].parts
  BY <1>0, <1>1 DEF Locked, Gone
<1>5. /\ Len(files) <= Len(files') /\ \A g \in 1 .. Len(files) : Follows(files[g], files'[g])
      /\ \A g \in Len(files) + 1 .. Len(files') :
           files'[g].stamp <= intrusions + 1 /\ \A n \in 1 .. Len(files'[g].parts) : files'[g].parts[n] <= intrusions + 1
  BY <1>0, <1>1
<1>6. intrusions' = intrusions + 1 /\ UNCHANGED <<unix, coarse, probes, lease, atLastLook>>
  BY DEF Intrudes
<1>7. wholes \subseteq wholes' /\ named' \in {named, Gone, Len(files) + 1}  OBVIOUS
<1>8. Intrusion  BY <1>3, <1>4, <1>5, <1>6, <1>7 DEF Intrusion
<1> QED  BY <1>2, <1>8, <1>p DEF MediaParts

\* Everything another program does but closing a file.
OtherProgram == OpenForWriting \/ WritePiece \/ CutFile \/ GrowFile \/ DeleteFile \/ MoveAway \/ PutFile \/ LinkFile

LEMMA OthersIntrude == ASSUME MediaParts, LeaseKeeps, OtherProgram PROVE MediaParts' /\ Intrusion
<1>p. FilesPart /\ LeasePart /\ CountPart  BY DEF MediaParts
<1>c. ASSUME Intrudes PROVE CountPart' /\ intrusions + 1 \in Piece /\ intrusions < MaxIntrusion
  BY <1>c, <1>p, CountPartStep, MediaNumbers DEF CountPart, Piece
<1>0. files \in Seq(MediaFiles) /\ Len(files) \in Nat /\ named \in 0 .. Len(files) /\ writing \in 0 .. Len(files)
      /\ lease.held \in 0 .. Len(files)
  BY <1>p DEF FilesPart, LeasePart, Leases
<1>w. ASSUME writing # Gone PROVE writing \in 1 .. Len(files) /\ files[writing].parts \in Seq(Piece)
  BY <1>w, <1>0, <1>p, FileNamed DEF Gone, MediaFiles
<1>d. ASSUME named # Gone PROVE named \in 1 .. Len(files) /\ files[named].links \in Int
  BY <1>d, <1>0, <1>p, FileNamed DEF Gone, MediaFiles
<1>1. CASE OpenForWriting
 <2>1. /\ Intrudes /\ named # Gone /\ ~Locked /\ writing' = named /\ UNCHANGED <<named, files, wholes>>
   BY <1>1 DEF OpenForWriting
 <2>2. FilesPart' /\ LeasePart' /\ CountPart'
   BY <2>1, <1>p, <1>c DEF FilesPart, LeasePart, Intrudes
 <2>3. ~unix /\ lease.held # Gone /\ named = lease.held /\ writing # lease.held => writing' # lease.held
   BY <2>1 DEF Locked
 <2>4. \A f \in 1 .. Len(files) : Follows(files[f], files'[f])  BY <2>1 DEF Follows
 <2>5. /\ Len(files) <= Len(files')
       /\ \A g \in Len(files) + 1 .. Len(files') :
            files'[g].stamp <= intrusions + 1 /\ \A n \in 1 .. Len(files'[g].parts) : files'[g].parts[n] <= intrusions + 1
   BY <2>1, <1>0
 <2>6. named' # Gone => files'[named'].parts \in wholes'  BY <2>1 DEF LeaseKeeps
 <2>7. Intrusion  BY <2>1, <2>3, <2>4, <2>5, <2>6 DEF Intrudes, Intrusion
 <2> QED  BY <2>2, <2>7 DEF MediaParts
<1>2. CASE WritePiece
 <2>1. Intrudes /\ writing # Gone  BY <1>2 DEF WritePiece
 <2>2. PICK n \in DOMAIN files[writing].parts : Rewrite([files[writing].parts EXCEPT ![n] = intrusions + 1])
   BY <1>2 DEF WritePiece
 <2> DEFINE old == files[writing].parts
            new == [old EXCEPT ![n] = intrusions + 1]
 <2>3. old \in Seq(Piece) /\ n \in 1 .. Len(old) /\ intrusions + 1 \in Piece
   BY <2>1, <2>2, <1>w, <1>c
 <2>4. /\ new \in Seq(Piece) /\ Len(new) = Len(old)
       /\ \A m \in 1 .. Len(old) : new[m] = IF m = n THEN intrusions + 1 ELSE old[m]
   BY <2>3, PieceWritten
 <2>5. Rewrite(new)  BY <2>2
 <2> HIDE DEF new
 <2>6. \A m \in 1 .. Len(new) : new[m] = intrusions + 1 \/ (m <= Len(old) /\ new[m] = old[m])
   BY <2>3, <2>4
 <2> QED  BY <2>1, <2>4, <2>5, <2>6, RewriteIntrudes
<1>3. CASE CutFile
 <2>1. /\ Intrudes /\ writing # Gone /\ files[writing].parts # <<>>
       /\ Rewrite(SubSeq(files[writing].parts, 1, Len(files[writing].parts) - 1))
   BY <1>3 DEF CutFile
 <2> DEFINE old == files[writing].parts
            new == SubSeq(old, 1, Len(old) - 1)
 <2>2. old \in Seq(Piece)  BY <2>1, <1>w
 <2>3. new \in Seq(Piece) /\ Len(new) = Len(old) - 1 /\ \A m \in 1 .. Len(old) - 1 : new[m] = old[m]
   BY <2>1, <2>2, CutShort
 <2>4. Rewrite(new)  BY <2>1
 <2> HIDE DEF new
 <2>5. \A m \in 1 .. Len(new) : new[m] = intrusions + 1 \/ (m <= Len(old) /\ new[m] = old[m])
   BY <2>2, <2>3
 <2> QED  BY <2>1, <2>3, <2>4, <2>5, RewriteIntrudes
<1>4. CASE GrowFile
 <2>1. Intrudes /\ writing # Gone /\ Rewrite(Append(files[writing].parts, intrusions + 1))
   BY <1>4 DEF GrowFile
 <2> DEFINE old == files[writing].parts
            new == Append(old, intrusions + 1)
 <2>2. old \in Seq(Piece) /\ intrusions + 1 \in Piece  BY <2>1, <1>w, <1>c
 <2>3. /\ new \in Seq(Piece) /\ Len(new) = Len(old) + 1
       /\ \A m \in 1 .. Len(old) + 1 : new[m] = IF m = Len(old) + 1 THEN intrusions + 1 ELSE old[m]
   BY <2>2, PieceAdded
 <2>4. Rewrite(new)  BY <2>1
 <2> HIDE DEF new
 <2>5. \A m \in 1 .. Len(new) : new[m] = intrusions + 1 \/ (m <= Len(old) /\ new[m] = old[m])
   BY <2>2, <2>3
 <2> QED  BY <2>1, <2>3, <2>4, <2>5, RewriteIntrudes
<1>l. ASSUME NEW links \in Int, named # Gone, LoseName(links) PROVE MediaParts' /\ Intrusion
  BY <1>l, <1>d, RenameIntrudes DEF LoseName
<1>5. CASE DeleteFile  BY <1>5, <1>d, <1>l DEF DeleteFile
<1>6. CASE MoveAway  BY <1>6, <1>d, <1>l DEF MoveAway
<1>7. CASE LinkFile  BY <1>7, <1>d, RenameIntrudes DEF LinkFile
<1>8. CASE PutFile
 <2>1. /\ Intrudes /\ ~Locked /\ named = Gone /\ named' = Len(files) + 1 /\ files' = Append(files, NewFile)
       /\ wholes' = wholes \cup {NewFile.parts} /\ writing' = writing
   BY <1>8 DEF PutFile
 <2>2. NewFile = [parts |-> <<intrusions + 1, intrusions + 1>>, links |-> 1, stamp |-> intrusions + 1]
   BY DEF NewFile
 <2>3. /\ NewFile \in MediaFiles /\ NewFile.stamp = intrusions + 1
       /\ \A n \in 1 .. Len(NewFile.parts) : NewFile.parts[n] = intrusions + 1
   BY <2>1, <2>2, <1>c DEF MediaFiles
 <2>4. /\ files' \in Seq(MediaFiles) /\ Len(files') = Len(files) + 1 /\ files'[Len(files) + 1] = NewFile
       /\ \A f \in 1 .. Len(files) : files'[f] = files[f]
   BY <2>1, <2>3, <1>0
 <2>5. FilesPart' /\ LeasePart' /\ CountPart'
   BY <2>1, <2>4, <1>0, <1>p, <1>c DEF FilesPart, Intrudes, LeasePart, Leases
 <2>6. \A f \in 1 .. Len(files) : Follows(files[f], files'[f])  BY <2>4 DEF Follows
 <2>7. \A f \in Len(files) + 1 .. Len(files') :
           files'[f].stamp <= intrusions + 1 /\ \A n \in 1 .. Len(files'[f].parts) : files'[f].parts[n] <= intrusions + 1
   BY <2>4, <1>0, <1>p, <2>3 DEF CountPart
 <2>8. Intrusion  BY <2>1, <2>4, <1>0, <2>6, <2>7 DEF Intrudes, Locked, Intrusion
 <2> QED  BY <2>5, <2>8 DEF MediaParts
<1> QED  BY <1>1, <1>2, <1>3, <1>4, <1>5, <1>6, <1>7, <1>8 DEF OtherProgram

\* What an importer's step has to show: of the lease, and of what was recorded.
LeasePlaced ==
    /\ lease.step \in Holding <=> lease.held # Gone
    /\ lease.step \in Before => lease.copy = <<>>
    /\ lease.step \in Before \cup {"copy"} => lease.again = <<>>
LeaseOnWindows ==
    lease.step \in Holding /\ ~unix =>
         /\ named = lease.held /\ writing # lease.held /\ lease.step \notin Reading
         /\ lease.step \in Parsed => lease.copy = Held.parts
         /\ lease.step \in Looked => atLastLook = Held.parts
LeaseOnPosix ==
    lease.step \in Holding /\ unix =>
         /\ lease.stamp <= Held.stamp
         /\ IF lease.step = "copy" THEN Len(lease.copy) < lease.size ELSE Len(lease.copy) = lease.size
         /\ lease.step = "hash" => Len(lease.again) < lease.size
         /\ lease.step = "compare" => Len(lease.again) = lease.size
         /\ \A n \in 1 .. Len(lease.copy) : lease.copy[n] <= intrusions
FilesKeep ==
    /\ coarse => unix
    /\ \A f \in 1 .. Len(files) :
         files[f].stamp <= intrusions /\ \A n \in 1 .. Len(files[f].parts) : files[f].parts[n] <= intrusions
    /\ named # Gone => files[named].parts \in wholes

LEMMA LeaseKeepsIs ==
    (LeaseKeeps <=> FilesKeep /\ LeasePlaced /\ LeaseOnWindows /\ LeaseOnPosix)
    /\ (LeaseKeeps' <=> FilesKeep' /\ LeasePlaced' /\ LeaseOnWindows' /\ LeaseOnPosix')
BY DEF LeaseKeeps, FilesKeep, LeasePlaced, LeaseOnWindows, LeaseOnPosix

\* An importer without a lease relies on nothing.
LEMMA LetGo ==
    ASSUME MediaParts, MediaInv, Importer, lease'.step \in Before, lease'.held = Gone, lease'.copy = <<>>, lease'.again = <<>>
    PROVE  MediaInv'
  BY LeaseKeepsIs DEF Before, Holding, Reading, Parsed, Looked, MediaInv, FilesKeep, Importer,
    LeasePlaced, LeaseOnWindows, LeaseOnPosix, RecordedIsWhole, RecordedIsCurrent, StampsTell,
    ReadingTwiceTells, Founded

LEMMA RefusedIs ==
    ASSUME MediaParts, Refused
    PROVE  /\ lease' \in Leases(Len(files)) /\ lease'.step = "refused" /\ lease'.held = Gone
           /\ lease'.copy = <<>> /\ lease'.again = <<>>
<1>1. lease' = [step |-> "refused", held |-> 0, size |-> 0, stamp |-> 0, copy |-> <<>>, again |-> <<>>, looks |-> 0]
  BY DEF Refused, NoLease, Gone
<1>2. "refused" \in LeaseSteps /\ 0 \in 0 .. Len(files) /\ <<>> \in Seq(Piece)
  BY DEF MediaParts, FilesPart, LeaseSteps, Before
<1> QED  BY <1>1, <1>2, MediaNumbers DEF Leases, Gone

LEMMA StepsAre ==
    /\ \A s \in {"copy", "hash", "compare", "parse", "held", "path", "commit", "recorded"} :
          s \in LeaseSteps /\ s \in Holding /\ s \notin Before
    /\ \A s \in {"copy", "hash", "compare"} : s \in Reading /\ s \notin Parsed /\ s \notin Looked
    /\ "parse" \notin Reading /\ "parse" \notin Parsed /\ "parse" \notin Looked
    /\ "held" \notin Reading /\ "held" \in Parsed /\ "held" \notin Looked
    /\ \A s \in {"path", "commit", "recorded"} : s \notin Reading /\ s \in Parsed /\ s \in Looked
    /\ \A s \in {"idle", "refused", "open"} : s \in LeaseSteps /\ s \in Before /\ s \notin Holding
BY DEF Before, Looked, Parsed, Reading, Holding, LeaseSteps

\* Sequences with the same beginning and of the same length are the same.
LEMMA WholeBeginning ==
    ASSUME NEW S, NEW s \in Seq(S), NEW t \in Seq(S), Begins(s, t), Len(s) = Len(t)
    PROVE  s = t
BY SeqEqual DEF Begins

\* The importer's record, and the file it holds.
LEMMA LeaseFacts ==
    ASSUME MediaParts
    PROVE  /\ lease \in Leases(Len(files)) /\ Len(files) \in Nat /\ intrusions \in Nat
           /\ lease.held \in 0 .. Len(files) /\ lease.size \in Nat /\ lease.stamp \in Nat /\ lease.step \in LeaseSteps
           /\ lease.copy \in Seq(Piece) /\ lease.again \in Seq(Piece)
           /\ Len(lease.copy) \in Nat /\ Len(lease.again) \in Nat /\ lease.looks \in Nat
           /\ \A f \in 1 .. Len(files) :
                files[f].stamp \in Piece /\ files[f].stamp \in Nat /\ files[f].parts \in Seq(Piece) /\ Len(files[f].parts) \in Nat
<1>1. lease \in Leases(Len(files)) /\ files \in Seq(MediaFiles) /\ intrusions \in 0 .. MaxIntrusion
  BY DEF MediaParts, LeasePart, CountPart, FilesPart
<1>2. /\ lease.held \in 0 .. Len(files) /\ lease.copy \in Seq(Piece) /\ lease.again \in Seq(Piece)
      /\ lease.stamp \in Piece /\ lease.size \in Nat /\ lease.step \in LeaseSteps /\ lease.looks \in Nat
  BY <1>1 DEF Leases
<1>3. lease.stamp \in Nat  BY <1>2, MediaNumbers
<1>4. intrusions \in Nat /\ Len(files) \in Nat  BY <1>1
<1>5. Len(lease.copy) \in Nat /\ Len(lease.again) \in Nat  BY <1>2
<1>6. \A file \in MediaFiles : file.stamp \in Piece /\ file.parts \in Seq(Piece)  BY DEF MediaFiles
<1>7. \A f \in 1 .. Len(files) : files[f] \in MediaFiles  BY <1>1
<1>8. \A n \in Piece : n \in Nat  BY MediaNumbers
<1>9. \A s \in Seq(Piece) : Len(s) \in Nat  OBVIOUS
<1> QED  BY <1>1, <1>2, <1>3, <1>4, <1>5, <1>6, <1>7, <1>8, <1>9

LEMMA HeldFacts ==
    ASSUME MediaParts, MediaInv, lease.step \in Holding
    PROVE  /\ lease.held \in 1 .. Len(files) /\ lease.held # Gone
           /\ Held.parts \in Seq(Piece) /\ Len(Held.parts) \in Nat /\ Held.stamp \in Nat
           /\ \A n \in 1 .. Len(Held.parts) : Held.parts[n] \in Piece /\ Held.parts[n] <= intrusions
           /\ named = lease.held => Held.parts \in wholes
<1>1. LeaseKeeps  BY DEF MediaInv
<1>2. lease.held # Gone /\ lease.held \in 1 .. Len(files)  BY <1>1, LeaseFacts DEF LeaseKeeps, Gone
<1>3. Held.parts \in Seq(Piece) /\ Len(Held.parts) \in Nat /\ Held.stamp \in Nat  BY <1>2, LeaseFacts DEF Held
<1>4. \A n \in 1 .. Len(Held.parts) : Held.parts[n] <= intrusions  BY <1>1, <1>2 DEF LeaseKeeps, Held
<1>5. \A n \in 1 .. Len(Held.parts) : Held.parts[n] \in Piece  BY <1>3
<1>6. named = lease.held => Held.parts \in wholes  BY <1>1, <1>2 DEF LeaseKeeps, Held
<1> QED  BY <1>2, <1>3, <1>4, <1>5, <1>6

\* No step of the importer's touches a file.
LEMMA ImporterLeaves ==
    ASSUME MediaParts, MediaInv, Importer
    PROVE  /\ FilesPart' /\ FilesKeep' /\ Len(files') = Len(files)
           /\ unix' = unix /\ coarse' = coarse /\ named' = named /\ files' = files /\ writing' = writing
           /\ intrusions' = intrusions /\ wholes' = wholes
           /\ UNCHANGED probes => CountPart'
<1>1. FilesKeep  BY LeaseKeepsIs DEF MediaInv
<1> QED  BY <1>1 DEF Importer, FilesKeep, FilesPart, CountPart, MediaParts

\* A step that lets go, and one of a reading importer's is one on POSIX.
LEMMA RefusedStep ==
    ASSUME MediaParts, MediaInv, Importer, UNCHANGED probes, Refused
    PROVE  MediaParts' /\ MediaInv'
  BY RefusedIs, ImporterLeaves, LetGo DEF Before, LeasePart, MediaParts

LEMMA InspectStep == ASSUME MediaParts, MediaInv, Inspect PROVE MediaParts' /\ MediaInv'
<1>1. Importer /\ probes \in Nat /\ probes' = probes + 1 /\ probes < MaxProbe /\ MaxProbe \in Nat
  BY MediaNumbers DEF Inspect, MediaParts, CountPart
<1>2. CountPart'  BY <1>1, ImporterLeaves DEF CountPart, MediaParts
<1>3. /\ lease' \in Leases(Len(files)) /\ lease'.step \in Before /\ lease'.held = Gone
      /\ lease'.copy = <<>> /\ lease'.again = <<>>
 <2>1. CASE Refused  BY <2>1, RefusedIs DEF Before
 <2>2. CASE lease' = [NoLease EXCEPT !.step = "open"]
  <3>1. lease' = [step |-> "open", held |-> 0, size |-> 0, stamp |-> 0, copy |-> <<>>, again |-> <<>>, looks |-> 0]
    BY <2>2 DEF NoLease, Gone
  <3>2. "open" \in LeaseSteps /\ 0 \in 0 .. Len(files) /\ <<>> \in Seq(Piece)
    BY LeaseFacts DEF LeaseSteps, Before
  <3> QED  BY <3>1, <3>2, MediaNumbers DEF Leases, Gone, Before
 <2> QED  BY <2>1, <2>2 DEF Inspect
<1>4. LeasePart'  BY <1>1, <1>3, ImporterLeaves DEF LeasePart
<1> QED  BY <1>1, <1>2, <1>3, <1>4, LetGo, ImporterLeaves DEF MediaParts

\* The file under the path taken.
LEMMA OpensAs ==
    ASSUME MediaParts, MediaInv, lease.step = "open", HasMedia, NEW to \in {"parse", "copy"}, OpenAs(to), Importer
    PROVE  /\ lease'.step = to /\ lease'.held = named /\ named \in 1 .. Len(files) /\ named # Gone
           /\ lease'.size = Len(files[named].parts) /\ lease'.stamp = files[named].stamp
           /\ lease'.copy = <<>> /\ lease'.again = <<>> /\ lease' \in Leases(Len(files)) /\ LeasePart'
           /\ Held' = files[named] /\ lease'.size > 0 /\ lease'.step \in Holding /\ lease'.step \notin Before
           /\ lease'.step \notin Parsed /\ lease'.step \notin Looked
<1>1. named # Gone /\ named \in 1 .. Len(files) /\ files[named].parts # <<>>
  BY LeaseFacts DEF HasMedia, Valid, MediaParts, FilesPart, Gone
<1>2. /\ files[named].stamp \in Piece /\ files[named].parts \in Seq(Piece) /\ Len(files[named].parts) \in Nat
      /\ Len(files[named].parts) > 0
  BY <1>1, LeaseFacts, EmptySeq
<1>3. lease.copy = <<>> /\ lease.again = <<>>  BY StepsAre DEF MediaInv, LeaseKeeps
<1>4. lease' = [lease EXCEPT !.held = named, !.size = Len(files[named].parts), !.stamp = files[named].stamp, !.step = to]
  BY DEF OpenAs
<1>5. /\ lease'.step = to /\ lease'.held = named /\ lease'.size = Len(files[named].parts) /\ lease'.stamp = files[named].stamp
      /\ lease'.copy = <<>> /\ lease'.again = <<>>
  BY <1>3, <1>4, LeaseFacts DEF Leases
<1>6. lease' \in Leases(Len(files))
  BY StepsAre, <1>2, <1>4, LeaseFacts DEF MediaParts, FilesPart, Leases
<1>7. LeasePart' /\ Held' = files[named]  BY <1>5, <1>6, ImporterLeaves DEF LeasePart, Held
<1> QED  BY <1>1, <1>2, <1>5, <1>6, <1>7, StepsAre

LEMMA LockStep == ASSUME MediaParts, MediaInv, LockFile PROVE MediaParts' /\ MediaInv'
  BY RefusedStep, OpensAs, ImporterLeaves, StepsAre, LeaseKeepsIs DEF LockFile, LeasePlaced,
    LeaseOnWindows, LeaseOnPosix, RecordedIsWhole, RecordedIsCurrent, StampsTell, ReadingTwiceTells,
    MediaParts, MediaInv

LEMMA OpenStep == ASSUME MediaParts, MediaInv, OpenSource PROVE MediaParts' /\ MediaInv'
<1>1. Importer /\ UNCHANGED probes /\ lease.step = "open" /\ unix  BY DEF OpenSource
<1>2. CASE Refused  BY <1>1, <1>2, RefusedStep
<1>3. CASE HasMedia /\ OpenAs("copy")
 <2>1. /\ lease'.step = "copy" /\ lease'.held = named /\ named # Gone /\ lease'.step \in Holding /\ lease'.step \notin Before
       /\ lease'.step \notin Looked /\ LeasePart' /\ Held' = files[named] /\ named \in 1 .. Len(files)
       /\ lease'.size = Len(files[named].parts) /\ lease'.stamp = files[named].stamp /\ lease'.size > 0
       /\ lease'.copy = <<>> /\ lease'.again = <<>>
   BY <1>1, <1>3, OpensAs
 <2>2. /\ unix' = unix /\ named' = named /\ writing' = writing /\ FilesKeep' /\ FilesPart' /\ CountPart'
   BY <1>1, ImporterLeaves
 <2>e. Len(<<>>) = 0  OBVIOUS
 <2>n. files[named].stamp \in Nat /\ Len(files[named].parts) \in Nat  BY <2>1, LeaseFacts
 <2>3. LeaseKeeps'
   BY <2>1, <1>1, <2>2, <2>e, <2>n, LeaseKeepsIs DEF LeasePlaced, LeaseOnWindows, LeaseOnPosix
 <2>4. RecordedIsWhole' /\ RecordedIsCurrent' /\ ReadingTwiceTells'
   BY <2>1 DEF RecordedIsWhole, RecordedIsCurrent, ReadingTwiceTells, Founded
 <2>5. StampsTell'  BY <2>1, <2>e, <2>n DEF StampsTell, Founded, Begins
 <2> QED  BY <2>1, <2>2, <2>3, <2>4, <2>5 DEF MediaParts, MediaInv
<1> QED  BY <1>2, <1>3 DEF OpenSource

\* What is known of a POSIX importer that reads.
LEMMA ReadingFacts ==
    ASSUME MediaParts, MediaInv, lease.step \in Reading
    PROVE  /\ unix /\ lease.step \in Holding /\ lease.stamp <= Held.stamp
           /\ IF lease.step = "copy" THEN Len(lease.copy) < lease.size ELSE Len(lease.copy) = lease.size
           /\ lease.step = "copy" => lease.again = <<>>
           /\ lease.step = "hash" => Len(lease.again) < lease.size
           /\ lease.step = "compare" => Len(lease.again) = lease.size
           /\ \A n \in 1 .. Len(lease.copy) : lease.copy[n] <= intrusions
  BY LeaseKeepsIs DEF MediaInv, Holding, MediaParts, CountPart, LeaseOnWindows, LeaseOnPosix,
    LeasePlaced

LEMMA CopyStep == ASSUME MediaParts, MediaInv, CopyPiece PROVE MediaParts' /\ MediaInv'
<1>1. Importer /\ UNCHANGED probes /\ lease.step = "copy"  BY DEF CopyPiece
<1>2. CASE Refused  BY <1>1, <1>2, RefusedStep
<1> DEFINE n == Len(lease.copy) + 1
<1>3. CASE /\ n <= Len(Held.parts) /\ UNCHANGED atLastLook
           /\ lease' = [[lease EXCEPT !.copy = Append(lease.copy, Held.parts[n])] EXCEPT !.step = IF n = lease.size THEN "hash" ELSE lease.step]
 <2>1. /\ unix /\ lease.step \in Holding /\ lease.stamp <= Held.stamp /\ Len(lease.copy) < lease.size /\ lease.again = <<>>
       /\ \A m \in 1 .. Len(lease.copy) : lease.copy[m] <= intrusions
   BY <1>1, StepsAre, ReadingFacts
 <2>2. /\ lease.held \in 1 .. Len(files) /\ lease.held # Gone /\ Len(Held.parts) \in Nat /\ Held.stamp \in Nat
       /\ \A m \in 1 .. Len(Held.parts) : Held.parts[m] \in Piece /\ Held.parts[m] <= intrusions
       /\ named = lease.held => Held.parts \in wholes
   BY <2>1, HeldFacts
 <2>3. n \in 1 .. Len(Held.parts) /\ n \in Nat  BY <1>3, <2>2, LeaseFacts
 <2>4. /\ Append(lease.copy, Held.parts[n]) \in Seq(Piece) /\ Len(Append(lease.copy, Held.parts[n])) = n
       /\ \A m \in 1 .. n : Append(lease.copy, Held.parts[n])[m] = IF m = n THEN Held.parts[n] ELSE lease.copy[m]
   BY SMTT(40), <2>2, <2>3, PieceAdded, LeaseFacts
 <2>5. /\ lease'.copy = Append(lease.copy, Held.parts[n]) /\ lease'.again = <<>> /\ lease'.held = lease.held
       /\ lease'.stamp = lease.stamp /\ lease'.size = lease.size
       /\ lease'.step = IF n = lease.size THEN "hash" ELSE "copy"
   BY <1>1, <1>3, <2>1, LeaseFacts DEF Leases
 <2>6. /\ lease'.step \in {"copy", "hash"} /\ lease'.step \in Holding /\ lease'.step \notin Before
       /\ lease'.step \notin Looked /\ lease'.step \in LeaseSteps
   BY <2>5, StepsAre
 <2>7. lease' \in Leases(Len(files))  BY <1>3, <2>4, <2>5, <2>6, LeaseFacts DEF Leases
 <2>8. /\ unix' = unix /\ named' = named /\ writing' = writing /\ FilesKeep' /\ FilesPart' /\ CountPart'
       /\ Len(files') = Len(files) /\ files' = files /\ wholes' = wholes /\ intrusions' = intrusions
   BY <1>1, ImporterLeaves
 <2>9. LeasePart' /\ Held' = Held  BY <2>5, <2>7, <2>8 DEF LeasePart, Held
 <2>a. Len(lease'.copy) = n /\ (\A m \in 1 .. n : lease'.copy[m] = IF m = n THEN Held.parts[n] ELSE lease.copy[m])
   BY <2>4, <2>5
 <2>b. Len(<<>>) = 0  OBVIOUS
 <2> HIDE DEF n
 <2>c. Len(lease.copy) \in Nat /\ lease.size \in Nat /\ n = Len(lease.copy) + 1  BY LeaseFacts DEF n
 <2>d. LeaseKeeps'
  <3>1. LeasePlaced'  BY <2>2, <2>5, <2>6 DEF LeasePlaced
  <3>2. LeaseOnWindows'  BY <2>1, <2>8 DEF LeaseOnWindows
  <3>3. \A m \in 1 .. n : lease'.copy[m] <= intrusions
   <4> TAKE m \in 1 .. n
   <4>1. CASE m = n  BY <4>1, <2>a, <2>2, <2>3
   <4>2. CASE m # n  BY <4>2, <2>c, <2>a, <2>1
   <4> QED  BY <4>1, <4>2
  <3>4. IF lease'.step = "copy" THEN Len(lease'.copy) < lease'.size ELSE Len(lease'.copy) = lease'.size
    BY <2>1, <2>5, <2>a, <2>c
  <3>5. /\ lease'.step = "hash" => Len(lease'.again) < lease'.size
        /\ lease'.step = "compare" => Len(lease'.again) = lease'.size
    BY <2>1, <2>5, <2>6, <2>b, <2>c
  <3>6. LeaseOnPosix'  BY <2>1, <2>5, <2>9, <2>a, <2>8, <3>3, <3>4, <3>5 DEF LeaseOnPosix
  <3> QED  BY <2>8, <3>1, <3>2, <3>6, LeaseKeepsIs
 <2>e. RecordedIsWhole' /\ RecordedIsCurrent'  BY <2>6 DEF RecordedIsWhole, RecordedIsCurrent
 <2>f. StampsTell'
  <3> SUFFICES ASSUME ~coarse', unix', Held'.stamp = lease'.stamp
               PROVE  Len(Held'.parts) = lease'.size /\ Begins(lease'.copy, Held'.parts)
    BY <2>6 DEF StampsTell, Founded
  <3>1. ~coarse /\ Held.stamp = lease.stamp  BY <1>1, <2>5, <2>9, ImporterLeaves
  <3>2. Len(Held.parts) = lease.size /\ Begins(lease.copy, Held.parts)
    BY <3>1, <2>1 DEF MediaInv, StampsTell
  <3>3. \A m \in 1 .. n : lease'.copy[m] = Held.parts[m]
   <4> TAKE m \in 1 .. n
   <4>1. CASE m # n  BY <4>1, <2>c, <2>a, <3>2 DEF Begins
   <4> QED  BY <4>1, <2>a
  <3> QED  BY <3>2, <3>3, <2>3, <2>2, <2>5, <2>9, <2>a DEF Begins
 <2>g. ReadingTwiceTells'
  <3>f. ~Founded({"parse", "held", "path"})' /\ (lease'.step \in {"hash", "compare"} => lease'.step = "hash")
    BY <2>6 DEF Founded
  <3> SUFFICES ASSUME lease'.step = "hash", named = lease.held
               PROVE  \E w \in wholes :
                        /\ lease.size <= Len(w)
                        /\ \A m \in 1 .. lease.size :
                             w[m] = lease'.copy[m] \/ ~(m <= Len(Held.parts) /\ Held.parts[m] = lease'.copy[m])
                        /\ \A m \in 1 .. Len(lease'.again) : lease'.again[m] = lease'.copy[m] => w[m] = lease'.copy[m]
   <4>1. /\ unix' /\ lease'.step \in {"hash", "compare"} /\ named' = lease'.held <=> unix' /\ lease'.step = "hash" /\ named = lease.held
         /\ Held' = Held /\ wholes' = wholes /\ lease'.size = lease.size
     BY <2>5, <2>8, <2>9, <3>f
   <4> QED  BY <4>1, <3>f, Zenon DEF ReadingTwiceTells
  <3>1. lease.size <= Len(Held.parts) /\ Held.parts \in wholes  BY <2>2, <2>3, <2>5
  <3>2. lease'.again = <<>> /\ 1 .. 0 = {}  BY <2>5
  <3> QED  BY <3>1, <3>2, <2>b
 <2> QED  BY <2>8, <2>9, <2>d, <2>e, <2>f, <2>g DEF MediaParts, MediaInv
<1>4. Len(lease.copy) >= Len(Held.parts) \/ n <= Len(Held.parts)
  BY <1>1, StepsAre, HeldFacts, LeaseFacts
<1> QED  BY <1>1, <1>2, <1>3, <1>4 DEF CopyPiece, ReadOn, WithNext

LEMMA HashStep == ASSUME MediaParts, MediaInv, HashPiece PROVE MediaParts' /\ MediaInv'
<1>1. Importer /\ UNCHANGED probes /\ lease.step = "hash"  BY DEF HashPiece
<1>2. CASE Refused  BY <1>1, <1>2, RefusedStep
<1> DEFINE n == Len(lease.again) + 1
<1>3. CASE /\ n <= Len(Held.parts) /\ UNCHANGED atLastLook
           /\ lease' = [[lease EXCEPT !.again = Append(lease.again, Held.parts[n])] EXCEPT !.step = IF n = lease.size THEN "compare" ELSE lease.step]
 <2>1. /\ unix /\ lease.step \in Holding /\ lease.stamp <= Held.stamp /\ Len(lease.copy) = lease.size
       /\ Len(lease.again) < lease.size /\ \A m \in 1 .. Len(lease.copy) : lease.copy[m] <= intrusions
   BY <1>1, StepsAre, ReadingFacts
 <2>2. /\ lease.held \in 1 .. Len(files) /\ lease.held # Gone /\ Len(Held.parts) \in Nat
       /\ \A m \in 1 .. Len(Held.parts) : Held.parts[m] \in Piece
   BY <2>1, HeldFacts
 <2>3. n \in 1 .. Len(Held.parts) /\ n \in Nat  BY <1>3, <2>2, LeaseFacts
 <2>4. /\ Append(lease.again, Held.parts[n]) \in Seq(Piece) /\ Len(Append(lease.again, Held.parts[n])) = n
       /\ \A m \in 1 .. n : Append(lease.again, Held.parts[n])[m] = IF m = n THEN Held.parts[n] ELSE lease.again[m]
   BY <2>2, <2>3, PieceAdded, LeaseFacts
 <2>5. /\ lease'.again = Append(lease.again, Held.parts[n]) /\ lease'.copy = lease.copy /\ lease'.held = lease.held
       /\ lease'.stamp = lease.stamp /\ lease'.size = lease.size
       /\ lease'.step = IF n = lease.size THEN "compare" ELSE "hash"
   BY <1>1, <1>3, LeaseFacts DEF Leases
 <2>6. /\ lease'.step \in {"hash", "compare"} /\ lease'.step # "copy" /\ lease'.step \in Holding /\ lease'.step \notin Before
       /\ lease'.step \notin Looked /\ lease'.step \in LeaseSteps
   BY <2>5, StepsAre
 <2>7. lease' \in Leases(Len(files))  BY <1>3, <2>4, <2>5, <2>6, LeaseFacts DEF Leases
 <2>8. /\ unix' = unix /\ named' = named /\ writing' = writing /\ FilesKeep' /\ FilesPart' /\ CountPart'
       /\ Len(files') = Len(files) /\ files' = files /\ wholes' = wholes /\ intrusions' = intrusions
   BY <1>1, ImporterLeaves
 <2>9. LeasePart' /\ Held' = Held  BY <2>5, <2>7, <2>8 DEF LeasePart, Held
 <2>a. Len(lease'.again) = n /\ (\A m \in 1 .. n : lease'.again[m] = IF m = n THEN Held.parts[n] ELSE lease.again[m])
   BY <2>4, <2>5
 <2> HIDE DEF n
 <2>c. Len(lease.again) \in Nat /\ lease.size \in Nat /\ n = Len(lease.again) + 1
   BY LeaseFacts DEF n
 <2>d. LeaseKeeps'
   BY <2>2, <2>5, <2>6, <2>1, <2>8, <2>a, <2>c, <2>9, LeaseKeepsIs DEF LeasePlaced, LeaseOnWindows,
     LeaseOnPosix
 <2>e. RecordedIsWhole' /\ RecordedIsCurrent'  BY <2>6 DEF RecordedIsWhole, RecordedIsCurrent
 <2>f. StampsTell'
   BY <2>1, <1>1, <2>6, ImporterLeaves, <2>5, <2>9 DEF MediaInv, StampsTell, Founded
 <2>g. ReadingTwiceTells'
  <3> SUFFICES ASSUME named = lease.held
               PROVE  \E w \in wholes :
                        /\ lease.size <= Len(w)
                        /\ \A m \in 1 .. lease.size :
                             w[m] = lease.copy[m] \/ ~(m <= Len(Held.parts) /\ Held.parts[m] = lease.copy[m])
                        /\ \A m \in 1 .. Len(lease'.again) : lease'.again[m] = lease.copy[m] => w[m] = lease.copy[m]
    BY <2>5, <2>6, <2>8, <2>9 DEF ReadingTwiceTells, Founded
  <3>1. PICK w \in wholes :
          /\ lease.size <= Len(w)
          /\ \A m \in 1 .. lease.size :
               w[m] = lease.copy[m] \/ ~(m <= Len(Held.parts) /\ Held.parts[m] = lease.copy[m])
          /\ \A m \in 1 .. Len(lease.again) : lease.again[m] = lease.copy[m] => w[m] = lease.copy[m]
    BY <1>1, <2>1 DEF MediaInv, ReadingTwiceTells
  <3>2. ASSUME NEW m \in 1 .. n, lease'.again[m] = lease.copy[m] PROVE w[m] = lease.copy[m]
   <4>1. CASE m = n
    <5>1. Held.parts[n] = lease.copy[n] /\ n <= Len(Held.parts) /\ n \in 1 .. lease.size
      BY <4>1, <3>2, <2>a, <2>c, <2>1, <2>3
    <5> QED  BY <5>1, <4>1, <3>1
   <4>2. CASE m # n  BY <4>2, <2>a, <2>c, <3>2, <3>1
   <4> QED  BY <4>1, <4>2
  <3> QED  BY <3>1, <3>2, <2>a
 <2> QED  BY <2>8, <2>9, <2>d, <2>e, <2>f, <2>g DEF MediaParts, MediaInv
<1>4. Len(lease.again) >= Len(Held.parts) \/ n <= Len(Held.parts)
  BY <1>1, StepsAre, HeldFacts, LeaseFacts
<1> QED  BY <1>1, <1>2, <1>3, <1>4 DEF HashPiece, ReadOn, WithNext

\* A step forward with the same lease.
LEMMA ProceedsIs ==
    ASSUME MediaParts, MediaInv, Importer, UNCHANGED probes, lease.step \in Holding,
           NEW to \in {"parse", "held", "path", "commit", "recorded"}, lease' = [lease EXCEPT !.step = to]
    PROVE  /\ lease'.step = to /\ lease'.held = lease.held /\ lease'.stamp = lease.stamp /\ lease'.size = lease.size
           /\ lease'.copy = lease.copy /\ lease'.again = lease.again /\ Held' = Held
           /\ MediaParts' /\ FilesKeep' /\ LeasePlaced'
           /\ unix' = unix /\ coarse' = coarse /\ named' = named /\ writing' = writing /\ wholes' = wholes
           /\ intrusions' = intrusions
  BY LeaseFacts, StepsAre, ImporterLeaves, HeldFacts DEF Leases, LeasePart, Held, LeasePlaced,
    MediaParts

LEMMA CompareStep == ASSUME MediaParts, MediaInv, CompareSnapshot PROVE MediaParts' /\ MediaInv'
<1>1. Importer /\ UNCHANGED probes /\ lease.step = "compare"  BY DEF CompareSnapshot
<1>2. CASE Refused  BY <1>1, <1>2, RefusedStep
<1>3. CASE Unchanged /\ lease.again = lease.copy /\ lease' = [lease EXCEPT !.step = "parse"]
 <2>1. /\ unix /\ lease.step \in Holding /\ lease.stamp <= Held.stamp /\ Len(lease.copy) = lease.size
       /\ Len(lease.again) = lease.size /\ \A m \in 1 .. Len(lease.copy) : lease.copy[m] <= intrusions
   BY <1>1, StepsAre, ReadingFacts
 <2>2. /\ lease'.step = "parse" /\ lease'.held = lease.held /\ lease'.stamp = lease.stamp /\ lease'.size = lease.size
       /\ lease'.copy = lease.copy /\ Held' = Held /\ MediaParts' /\ FilesKeep' /\ LeasePlaced'
       /\ unix' = unix /\ coarse' = coarse /\ named' = named /\ wholes' = wholes /\ intrusions' = intrusions
   BY <1>1, <1>3, <2>1, ProceedsIs
 <2>3. LeaseKeeps'  BY <2>1, <2>2, LeaseKeepsIs DEF LeaseOnWindows, LeaseOnPosix
 <2>4. RecordedIsWhole' /\ RecordedIsCurrent'  BY <2>2 DEF RecordedIsWhole, RecordedIsCurrent
 <2>5. StampsTell'  BY <2>1, <2>2, StepsAre DEF MediaInv, StampsTell, Founded
 <2>6. ASSUME named = lease.held PROVE \E w \in wholes : Begins(lease.copy, w)
  <3>1. PICK w \in wholes :
          lease.size <= Len(w) /\ \A m \in 1 .. Len(lease.again) : lease.again[m] = lease.copy[m] => w[m] = lease.copy[m]
    BY <1>1, <2>1, <2>6 DEF MediaInv, ReadingTwiceTells
  <3>2. \A m \in 1 .. Len(lease.copy) : lease.copy[m] = w[m]  BY <1>3, <3>1
  <3> QED  BY <2>1, <3>1, <3>2 DEF Begins
 <2>7. ReadingTwiceTells'  BY <2>2, <2>6 DEF Founded, ReadingTwiceTells
 <2> QED  BY <2>2, <2>3, <2>4, <2>5, <2>7 DEF MediaInv
<1> QED  BY <1>1, <1>2, <1>3 DEF CompareSnapshot, Proceeds

\* What an importer holds after its reading is found to be in order.
LEMMA HoldingFacts ==
    ASSUME MediaParts, MediaInv, lease.step \in Holding, lease.step \notin Reading
    PROVE  /\ unix => lease.stamp <= Held.stamp /\ Len(lease.copy) = lease.size
                      /\ \A m \in 1 .. Len(lease.copy) : lease.copy[m] <= intrusions
           /\ ~unix => /\ named = lease.held /\ writing # lease.held
                       /\ lease.step \in Parsed => lease.copy = Held.parts
                       /\ lease.step \in Looked => atLastLook = Held.parts
           /\ (~coarse /\ unix /\ Held.stamp = lease.stamp) =>
                 Len(Held.parts) = lease.size /\ Begins(lease.copy, Held.parts)
           /\ coarse => unix
  BY StepsAre DEF MediaInv, LeaseKeeps, StampsTell

LEMMA ParseStep == ASSUME MediaParts, MediaInv, Parse PROVE MediaParts' /\ MediaInv'
<1>1. Importer /\ UNCHANGED probes /\ lease.step = "parse"  BY DEF Parse
<1>2. CASE Refused  BY <1>1, <1>2, RefusedStep
<1>3. CASE lease' = [lease EXCEPT !.step = "held", !.copy = IF unix THEN lease.copy ELSE Held.parts]
 <2>1. lease.step \in Holding /\ lease.step \notin Reading  BY <1>1, StepsAre
 <2>2. /\ unix => lease.stamp <= Held.stamp /\ Len(lease.copy) = lease.size
                  /\ \A m \in 1 .. Len(lease.copy) : lease.copy[m] <= intrusions
       /\ ~unix => named = lease.held /\ writing # lease.held
       /\ (~coarse /\ unix /\ Held.stamp = lease.stamp) =>
                Len(Held.parts) = lease.size /\ Begins(lease.copy, Held.parts)
   BY <2>1, HoldingFacts
 <2>3. /\ unix' = unix /\ coarse' = coarse /\ named' = named /\ writing' = writing /\ FilesKeep' /\ FilesPart' /\ CountPart'
       /\ files' = files /\ wholes' = wholes /\ intrusions' = intrusions /\ Len(files') = Len(files)
   BY <1>1, ImporterLeaves
 <2>4. /\ lease'.step = "held" /\ lease'.held = lease.held /\ lease'.stamp = lease.stamp /\ lease'.size = lease.size
       /\ lease'.copy = IF unix THEN lease.copy ELSE Held.parts
   BY <1>3, LeaseFacts DEF Leases
 <2>5. lease' \in Leases(Len(files))  BY <2>1, HeldFacts, LeaseFacts, StepsAre, <1>3 DEF Leases
 <2>6. LeasePart' /\ Held' = Held  BY <2>3, <2>4, <2>5 DEF LeasePart, Held
 <2>7. LeaseKeeps'
   BY <2>1, <2>4, HeldFacts, StepsAre, <2>2, <2>3, <2>6, LeaseKeepsIs DEF LeasePlaced,
     LeaseOnWindows, LeaseOnPosix
 <2>8. RecordedIsWhole' /\ RecordedIsCurrent'  BY <2>4 DEF RecordedIsWhole, RecordedIsCurrent
 <2>9. StampsTell'  BY <2>4, StepsAre, <2>2, <2>3, <2>6 DEF Founded, StampsTell
 <2>a. ReadingTwiceTells'  BY <1>1, <2>3, <2>4 DEF MediaInv, ReadingTwiceTells, Founded
 <2> QED  BY <2>3, <2>6, <2>7, <2>8, <2>9, <2>a DEF MediaInv, MediaParts
<1> QED  BY <1>1, <1>2, <1>3 DEF Parse

LEMMA VerifyHeldStep == ASSUME MediaParts, MediaInv, VerifyHeld PROVE MediaParts' /\ MediaInv'
<1>1. Importer /\ UNCHANGED probes /\ lease.step = "held"  BY DEF VerifyHeld
<1>2. CASE Refused  BY <1>1, <1>2, RefusedStep
<1>3. CASE Unchanged /\ lease' = [lease EXCEPT !.step = "path", !.looks = lease.looks + 1] /\ atLastLook' = Held.parts
 <2>1. lease.step \in Holding /\ lease.step \notin Reading /\ lease.step \in Parsed
   BY <1>1, StepsAre
 <2>2. /\ unix => lease.stamp <= Held.stamp /\ Len(lease.copy) = lease.size
                  /\ \A m \in 1 .. Len(lease.copy) : lease.copy[m] <= intrusions
       /\ ~unix => named = lease.held /\ writing # lease.held /\ lease.copy = Held.parts
       /\ (~coarse /\ unix /\ Held.stamp = lease.stamp) =>
                Len(Held.parts) = lease.size /\ Begins(lease.copy, Held.parts)
   BY <2>1, HoldingFacts
 <2>3. /\ unix' = unix /\ coarse' = coarse /\ named' = named /\ writing' = writing /\ FilesKeep' /\ FilesPart' /\ CountPart'
       /\ files' = files /\ wholes' = wholes /\ intrusions' = intrusions /\ Len(files') = Len(files)
   BY <1>1, ImporterLeaves
 <2>4. /\ lease'.step = "path" /\ lease'.held = lease.held /\ lease'.stamp = lease.stamp /\ lease'.size = lease.size
       /\ lease'.copy = lease.copy
   BY <1>3, LeaseFacts DEF Leases
 <2>5. lease' \in Leases(Len(files))
  <3>1. lease.looks + 1 \in Nat /\ "path" \in LeaseSteps  BY StepsAre, LeaseFacts
  <3> QED  BY <1>3, <3>1, LeaseFacts DEF Leases
 <2>6. LeasePart' /\ Held' = Held  BY <2>3, <2>4, <2>5 DEF LeasePart, Held
 <2>7. LeaseKeeps'
   BY <2>1, <2>4, HeldFacts, StepsAre, <1>3, <2>2, <2>3, <2>6, LeaseKeepsIs DEF LeasePlaced,
     LeaseOnWindows, LeaseOnPosix
 <2>8. RecordedIsWhole' /\ RecordedIsCurrent'  BY <2>4 DEF RecordedIsWhole, RecordedIsCurrent
 <2>9. StampsTell'
  <3>1. ASSUME ~coarse, unix PROVE lease.copy = Held.parts
    BY <1>3, <3>1, <2>1, <2>2, HeldFacts, LeaseFacts, WholeBeginning DEF Unchanged
  <3>2. Founded({"path"})' => named = lease.held  BY <2>3, <2>4 DEF Founded
  <3>3. named = lease.held => Held.parts \in wholes  BY <2>1, HeldFacts
  <3> QED  BY <1>3, <2>2, <2>3, <2>4, <2>6, <3>1, <3>2, <3>3 DEF StampsTell
 <2>a. ReadingTwiceTells'  BY <1>1, <2>3, <2>4 DEF MediaInv, ReadingTwiceTells, Founded
 <2> QED  BY <2>3, <2>6, <2>7, <2>8, <2>9, <2>a DEF MediaInv, MediaParts
<1> QED  BY <1>1, <1>2, <1>3 DEF VerifyHeld

LEMMA VerifyPathStep == ASSUME MediaParts, MediaInv, VerifyPath PROVE MediaParts' /\ MediaInv'
<1>1. Importer /\ UNCHANGED probes /\ lease.step = "path"  BY DEF VerifyPath
<1>2. CASE Refused  BY <1>1, <1>2, RefusedStep
<1> DEFINE to == IF lease.looks = Looks THEN "commit" ELSE "held"
<1>3. CASE (unix => named = lease.held) /\ lease' = [lease EXCEPT !.step = to] /\ atLastLook' = atLastLook
 <2>1. lease.step \in Holding /\ lease.step \notin Reading /\ lease.step \in Looked /\ lease.step \in Parsed
   BY <1>1, StepsAre
 <2>2. /\ unix => lease.stamp <= Held.stamp /\ Len(lease.copy) = lease.size
                  /\ \A m \in 1 .. Len(lease.copy) : lease.copy[m] <= intrusions
       /\ ~unix => named = lease.held /\ writing # lease.held /\ lease.copy = Held.parts /\ atLastLook = Held.parts
       /\ (~coarse /\ unix /\ Held.stamp = lease.stamp) =>
                Len(Held.parts) = lease.size /\ Begins(lease.copy, Held.parts)
   BY <2>1, HoldingFacts
 <2>3. to \in {"held", "commit"} /\ to \in {"parse", "held", "path", "commit", "recorded"}  OBVIOUS
 <2> HIDE DEF to
 <2>4. /\ lease'.step = to /\ lease'.held = lease.held /\ lease'.stamp = lease.stamp /\ lease'.size = lease.size
       /\ lease'.copy = lease.copy /\ Held' = Held /\ MediaParts' /\ FilesKeep' /\ LeasePlaced'
       /\ unix' = unix /\ coarse' = coarse /\ named' = named /\ writing' = writing /\ wholes' = wholes
       /\ intrusions' = intrusions
   BY <1>1, <1>3, <2>1, <2>3, ProceedsIs
 <2>5. to \notin Reading /\ to \notin {"copy", "hash", "compare", "recorded"}  BY <2>3, StepsAre
 <2>7. LeaseKeeps'  BY <1>3, <2>2, <2>4, <2>5, LeaseKeepsIs DEF LeaseOnWindows, LeaseOnPosix
 <2>8. RecordedIsWhole' /\ RecordedIsCurrent'  BY <2>4, <2>5 DEF RecordedIsWhole, RecordedIsCurrent
 <2>9. StampsTell'  BY <1>1, <1>3, <2>1, <2>2, <2>4 DEF MediaInv, StampsTell, Founded
 <2>a. ReadingTwiceTells'  BY <1>1, <1>3, <2>4, <2>5 DEF MediaInv, ReadingTwiceTells, Founded
 <2> QED  BY <2>4, <2>7, <2>8, <2>9, <2>a DEF MediaInv
<1> QED  BY <1>1, <1>2, <1>3 DEF VerifyPath, Proceeds

LEMMA CommitStep == ASSUME MediaParts, MediaInv, CommitImport PROVE MediaParts' /\ MediaInv'
<1>1. Importer /\ UNCHANGED probes /\ lease.step = "commit" /\ lease' = [lease EXCEPT !.step = "recorded"] /\ atLastLook' = atLastLook
  BY DEF CommitImport, Proceeds
<1>2. lease.step \in Holding /\ lease.step \notin Reading /\ lease.step \in Looked /\ lease.step \in Parsed
  BY <1>1, StepsAre
<1>3. /\ unix => lease.stamp <= Held.stamp /\ Len(lease.copy) = lease.size
                 /\ \A m \in 1 .. Len(lease.copy) : lease.copy[m] <= intrusions
      /\ ~unix => named = lease.held /\ writing # lease.held /\ lease.copy = Held.parts /\ atLastLook = Held.parts
      /\ (~coarse /\ unix /\ Held.stamp = lease.stamp) =>
               Len(Held.parts) = lease.size /\ Begins(lease.copy, Held.parts)
  BY <1>2, HoldingFacts
<1>4. /\ lease'.step = "recorded" /\ lease'.held = lease.held /\ lease'.stamp = lease.stamp /\ lease'.size = lease.size
      /\ lease'.copy = lease.copy /\ Held' = Held /\ MediaParts' /\ FilesKeep' /\ LeasePlaced'
      /\ unix' = unix /\ coarse' = coarse /\ named' = named /\ writing' = writing /\ wholes' = wholes
      /\ intrusions' = intrusions
  BY <1>1, <1>2, ProceedsIs
<1>5. /\ named = lease.held => Held.parts \in wholes
      /\ Begins(Held.parts, Held.parts)
  BY <1>2, HeldFacts DEF Begins
<1>6. ~coarse /\ unix => lease.copy = atLastLook /\ lease.copy \in wholes
  BY <1>1, <1>2 DEF MediaInv, StampsTell, Founded
<1>7. unix => \E w \in wholes : Begins(lease.copy, w)
  BY <1>1 DEF MediaInv, ReadingTwiceTells, Founded
<1>8. LeaseKeeps'  BY <1>1, <1>3, <1>4, StepsAre, LeaseKeepsIs DEF LeaseOnWindows, LeaseOnPosix
<1>9. RecordedIsWhole' /\ RecordedIsCurrent'
  BY <1>1, <1>3, <1>4, <1>5, <1>6, <1>7 DEF RecordedIsWhole, RecordedIsCurrent
<1>a. StampsTell'  BY <1>1, <1>3, <1>4, <1>6 DEF StampsTell
<1>b. ReadingTwiceTells'  BY <1>4, <1>7 DEF ReadingTwiceTells
<1> QED  BY <1>4, <1>8, <1>9, <1>a, <1>b DEF MediaInv

LEMMA CloseStep == ASSUME MediaParts, MediaInv, CloseFile PROVE MediaParts' /\ MediaInv'
<1>1. /\ writing' = 0 /\ unix' = unix /\ coarse' = coarse /\ named' = named /\ files' = files /\ intrusions' = intrusions
      /\ probes' = probes /\ lease' = lease /\ wholes' = wholes /\ atLastLook' = atLastLook
  BY DEF CloseFile, Gone
<1>2. FilesPart'  BY <1>1, LeaseFacts DEF FilesPart, MediaParts
<1>3. LeasePart' /\ CountPart' /\ Held' = Held  BY <1>1 DEF LeasePart, CountPart, MediaParts, Held
<1>4. LeaseKeeps'
  BY LeaseKeepsIs, <1>1, <1>3, HeldFacts DEF MediaInv, FilesKeep, LeasePlaced, LeaseOnPosix,
    LeaseOnWindows, Gone
<1>5. RecordedIsWhole' /\ RecordedIsCurrent'
  BY <1>1, <1>3 DEF MediaInv, RecordedIsWhole, RecordedIsCurrent
<1>6. StampsTell' /\ ReadingTwiceTells'
  BY <1>1, <1>3 DEF MediaInv, StampsTell, ReadingTwiceTells, Founded
<1> QED  BY <1>2, <1>3, <1>4, <1>5, <1>6 DEF MediaParts, MediaInv

\* Every step of the importer's and of the other program's keeps the grounds.
LEMMA MediaStep == MediaTypeOK /\ MediaInv /\ [MediaNext]_mediaVars => MediaTypeOK' /\ MediaInv'
<1> SUFFICES ASSUME MediaParts, MediaInv, [MediaNext]_mediaVars PROVE MediaParts' /\ MediaInv'
  BY MediaTypesAre
<1>1. CASE OtherProgram  BY <1>1, OthersIntrude, IntrusionKeeps DEF MediaInv
<1>2. CASE UNCHANGED mediaVars
  BY <1>2 DEF mediaVars, MediaParts, FilesPart, LeasePart, CountPart, MediaInv, LeaseKeeps, Held,
    RecordedIsWhole, RecordedIsCurrent, StampsTell, ReadingTwiceTells, Founded
<1> QED
  BY <1>1, <1>2, InspectStep, LockStep, OpenStep, CopyStep, HashStep, CompareStep, ParseStep,
   VerifyHeldStep, VerifyPathStep, CommitStep, CloseStep DEF MediaNext, ProbeStep, OtherProgram

-----------------------------------------------------------------------------
(* The catalog of avatar packs *)

JobSteps == {"closed", "open", "validating", "flushing", "confirming", "cleaning"} \cup Staged
Answers == {"none", "installed", "indeterminate", "already", "exists", "duplicate", "invalid", "io"}
Jobs == [step : JobSteps, pack : PackOrNone, answer : Answers]
Trees == [pack : PackOrNone, files : SUBSET Files, synced : SUBSET Files, linked : BOOLEAN]
Places == [pack : PackOrNone, files : SUBSET Files, synced : SUBSET Files, linked : BOOLEAN, settled : BOOLEAN]
Promises == [pack : Packs, durable : BOOLEAN]

LockPart == locked \subseteq Processes
TreePart == tree \in [Processes -> Trees]
JobPart == job \in [Processes -> Jobs]
ShelfPart == installed \in [Slots -> Places] /\ rooms \in [Slots -> {"absent", "made", "durable"}]
PromisePart == promised \subseteq Promises /\ rotten \subseteq Slots
FaultPart == abandoned \subseteq {"fresh", "old"} /\ faults \in 0 .. MaxFault /\ installs \in 0 .. MaxInstall
AvatarParts == LockPart /\ TreePart /\ JobPart /\ ShelfPart /\ PromisePart /\ FaultPart

LEMMA AvatarTypesAre == (AvatarTypeOK <=> AvatarParts) /\ (AvatarTypeOK' <=> AvatarParts')
BY DEF AvatarTypeOK, AvatarParts, LockPart, TreePart, JobPart, ShelfPart, PromisePart, FaultPart,
       Jobs, JobSteps, Answers, Trees, Places, Promises

LEMMA PacksAre ==
    /\ MaxFault \in Nat /\ MaxInstall \in Nat /\ NoPack \notin Packs
    /\ \A k \in Packs : k.slot \in Slots /\ k.flaw \in {"none", "archive", "manifest", "payload", "name"}
BY AvatarAssumption DEF AvatarAssumption, NoPack, Slots

LEMMA NothingIsTyped ==
    /\ NoTree \in Trees /\ Closed \in Jobs /\ InPlace(NoTree, TRUE) \in Places
    /\ NoTree.pack = NoPack /\ NoTree.files = {} /\ Closed.step = "closed" /\ Closed.pack = NoPack
    /\ InPlace(NoTree, TRUE).pack = NoPack
    /\ \A t \in Trees : \A b \in BOOLEAN :
          /\ InPlace(t, b) \in Places /\ InPlace(t, b).pack = t.pack /\ InPlace(t, b).files = t.files
          /\ InPlace(t, b).synced = t.synced /\ InPlace(t, b).linked = t.linked /\ InPlace(t, b).settled = b
<1>1. NoTree \in Trees /\ NoTree.pack = NoPack /\ NoTree.files = {}
  BY DEF NoTree, Trees, PackOrNone
<1>2. Closed \in Jobs /\ Closed.step = "closed" /\ Closed.pack = NoPack
  BY DEF Closed, Jobs, JobSteps, Answers, PackOrNone
<1>3. ASSUME NEW t \in Trees, NEW b \in BOOLEAN
      PROVE  /\ InPlace(t, b) \in Places /\ InPlace(t, b).pack = t.pack /\ InPlace(t, b).files = t.files
             /\ InPlace(t, b).synced = t.synced /\ InPlace(t, b).linked = t.linked /\ InPlace(t, b).settled = b
  BY DEF InPlace, Trees, Places
<1> QED  BY <1>1, <1>2, <1>3

\* What holds of the catalog beside its types.
FaultsLeave == faults = 0 => abandoned = {}
CatalogHolds == OneWorks /\ ShelvesHold /\ TreesAreReady /\ VersionsAreWhole /\ OnlySoundPacks /\ FaultsLeave
ShelvesKeep == ShelvesHold /\ VersionsAreWhole /\ OnlySoundPacks

LEMMA CatalogInit == AvatarInit => AvatarParts /\ CatalogHolds
<1> SUFFICES ASSUME AvatarInit PROVE AvatarParts /\ CatalogHolds  OBVIOUS
<1>1. /\ locked = {} /\ job = [p \in Processes |-> Closed] /\ tree = [p \in Processes |-> NoTree] /\ abandoned = {}
      /\ rooms = [s \in Slots |-> "absent"] /\ installed = [s \in Slots |-> InPlace(NoTree, TRUE)]
      /\ promised = {} /\ rotten = {} /\ faults = 0 /\ installs = 0
  BY DEF AvatarInit
<1>2. AvatarParts
 <2>1. LockPart /\ PromisePart /\ FaultPart  BY <1>1, PacksAre DEF LockPart, PromisePart, FaultPart
 <2>2. JobPart /\ TreePart  BY <1>1, NothingIsTyped DEF JobPart, TreePart
 <2>3. ShelfPart  BY <1>1, NothingIsTyped DEF ShelfPart
 <2> QED  BY <2>1, <2>2, <2>3 DEF AvatarParts
<1>3. \A s \in Slots : ~Occupied(s)  BY <1>1, NothingIsTyped DEF Occupied
<1>4. OneWorks  BY <1>1, NothingIsTyped DEF OneWorks, Working
<1>5. ShelvesHold /\ VersionsAreWhole  BY <1>1, <1>3 DEF ShelvesHold, VersionsAreWhole
<1>6. OnlySoundPacks  BY <1>3 DEF OnlySoundPacks, Entries
<1>7. TreesAreReady  BY <1>1, NothingIsTyped DEF TreesAreReady, Ready, Working, Staged
<1>8. FaultsLeave  BY <1>1 DEF FaultsLeave
<1> QED  BY <1>2, <1>4, <1>5, <1>6, <1>7, <1>8 DEF CatalogHolds

\* What is promised is served, and a staging tree has its owner.
LEMMA CatalogServes ==
    (AvatarParts /\ CatalogHolds => PromisesAreServed /\ TreesHaveOwners)
    /\ (AvatarParts' /\ CatalogHolds' => PromisesAreServed' /\ TreesHaveOwners')
<1>1. ASSUME AvatarParts, CatalogHolds PROVE PromisesAreServed /\ TreesHaveOwners
 <2>1. ASSUME rotten = {}, NEW a \in promised PROVE a.pack.slot \in PayloadRoots(a.pack.asset)
   BY <1>1, <2>1, PacksAre DEF CatalogHolds, VersionsAreWhole, ShelvesHold, AvatarParts,
     PromisePart, Promises, Occupied, Verified, HasMetadata, Reads, Files, Scanned, PayloadRoots
 <2>2. ASSUME NEW p \in Processes, tree[p] # NoTree PROVE locked = {p}
   BY <1>1, <2>2 DEF CatalogHolds, TreesAreReady, Ready, Working, Staged, OneWorks
 <2> QED  BY <1>1, <2>1, <2>2 DEF PromisesAreServed, TreesHaveOwners, CatalogHolds, FaultsLeave
<1>2. ASSUME AvatarParts', CatalogHolds' PROVE PromisesAreServed' /\ TreesHaveOwners'
 <2>1. ASSUME rotten' = {}, NEW a \in promised' PROVE (a.pack.slot \in PayloadRoots(a.pack.asset))'
   BY <1>2, <2>1, PacksAre DEF CatalogHolds, VersionsAreWhole, ShelvesHold, AvatarParts,
     PromisePart, Promises, Occupied, Verified, HasMetadata, Reads, Files, Scanned, PayloadRoots
 <2>2. ASSUME NEW p \in Processes, tree'[p] # NoTree PROVE locked' = {p}
   BY <1>2, <2>2 DEF CatalogHolds, TreesAreReady, Ready, Working, Staged, OneWorks
 <2> QED  BY <1>2, <2>1, <2>2 DEF PromisesAreServed, TreesHaveOwners, CatalogHolds, FaultsLeave
<1> QED  BY <1>1, <1>2

\* What one process does to its own job and tree.
LEMMA JobGoes ==
    ASSUME JobPart, NEW p \in Processes, NEW j \in Jobs, job' = [job EXCEPT ![p] = j]
    PROVE  JobPart' /\ job'[p] = j /\ \A q \in Processes : q # p => job'[q] = job[q]
BY DEF JobPart

LEMMA TreeGoes ==
    ASSUME TreePart, NEW p \in Processes, NEW t \in Trees, tree' = [tree EXCEPT ![p] = t]
    PROVE  TreePart' /\ tree'[p] = t /\ \A q \in Processes : q # p => tree'[q] = tree[q]
BY DEF TreePart

LEMMA JobFacts ==
    ASSUME AvatarParts, NEW p \in Processes
    PROVE  /\ job[p] \in Jobs /\ job[p].step \in JobSteps /\ job[p].pack \in PackOrNone /\ job[p].answer \in Answers
           /\ tree[p] \in Trees /\ tree[p].files \subseteq Files /\ tree[p].pack \in PackOrNone /\ tree[p].synced \subseteq Files
           /\ \A s \in Slots : installed[s] \in Places
           /\ \A step \in JobSteps : [job[p] EXCEPT !.step = step] \in Jobs
                 /\ [job[p] EXCEPT !.step = step].step = step /\ [job[p] EXCEPT !.step = step].pack = job[p].pack
                 /\ [job[p] EXCEPT !.step = step].answer = job[p].answer
           /\ \A step \in JobSteps, a \in Answers : [job[p] EXCEPT !.step = step, !.answer = a] \in Jobs
                 /\ [job[p] EXCEPT !.step = step, !.answer = a].step = step
                 /\ [job[p] EXCEPT !.step = step, !.answer = a].pack = job[p].pack
                 /\ [job[p] EXCEPT !.step = step, !.answer = a].answer = a
<1>1. job[p] \in Jobs /\ tree[p] \in Trees /\ \A s \in Slots : installed[s] \in Places
  BY DEF AvatarParts, JobPart, TreePart, ShelfPart
<1>2. job[p].step \in JobSteps /\ job[p].pack \in PackOrNone /\ job[p].answer \in Answers
  BY <1>1 DEF Jobs
<1>3. tree[p].files \subseteq Files /\ tree[p].pack \in PackOrNone /\ tree[p].synced \subseteq Files
  BY <1>1 DEF Trees
<1>4. ASSUME NEW step \in JobSteps
      PROVE  [job[p] EXCEPT !.step = step] \in Jobs
                 /\ [job[p] EXCEPT !.step = step].step = step /\ [job[p] EXCEPT !.step = step].pack = job[p].pack
                 /\ [job[p] EXCEPT !.step = step].answer = job[p].answer
  BY <1>1 DEF Jobs
<1>5. ASSUME NEW step \in JobSteps, NEW a \in Answers
      PROVE  [job[p] EXCEPT !.step = step, !.answer = a] \in Jobs
                 /\ [job[p] EXCEPT !.step = step, !.answer = a].step = step
                 /\ [job[p] EXCEPT !.step = step, !.answer = a].pack = job[p].pack
                 /\ [job[p] EXCEPT !.step = step, !.answer = a].answer = a
  BY <1>1 DEF Jobs
<1> QED  BY <1>1, <1>2, <1>3, <1>4, <1>5

\* A process that works has the lock, and so the others do not work.
LEMMA LonelyWorker ==
    ASSUME AvatarParts, CatalogHolds, NEW p \in Processes, Working(p)
    PROVE  /\ p \in locked /\ job[p].pack \in Packs /\ job[p].pack.slot \in Slots /\ Ready(p)
           /\ \A q \in Processes : q # p => q \notin locked /\ ~Working(q) /\ tree[q] = NoTree
<1>1. OneWorks /\ TreesAreReady  BY DEF CatalogHolds
<1>2. p \in locked /\ Ready(p) /\ job[p].pack \in Packs  BY <1>1 DEF OneWorks, TreesAreReady, Ready
<1>3. ASSUME NEW q \in Processes, q # p PROVE q \notin locked /\ ~Working(q) /\ tree[q] = NoTree
  BY <1>1, <1>2, <1>3 DEF OneWorks, TreesAreReady, Ready, Working, Staged
<1> QED  BY <1>2, <1>3, PacksAre

\* The step of a worker, as far as the others are concerned.
LEMMA WorkerGoes ==
    ASSUME AvatarParts, CatalogHolds, NEW p \in Processes, Working(p), JobPart', TreePart',
           \A q \in Processes : q # p => job'[q] = job[q] /\ tree'[q] = tree[q],
           locked' = IF Working(p)' THEN locked ELSE locked \ {p}, Ready(p)'
    PROVE  LockPart' /\ OneWorks' /\ TreesAreReady'
<1>1. p \in locked /\ \A q \in Processes : q # p => q \notin locked /\ ~Working(q) /\ tree[q] = NoTree
  BY LonelyWorker
<1>2. locked \subseteq Processes /\ locked' \subseteq locked  BY DEF AvatarParts, LockPart
<1>3. \A q \in Processes : q # p => ~Working(q)' /\ q \notin locked'  BY <1>1, <1>2 DEF Working
<1>4. OneWorks'  BY <1>1, <1>2, <1>3 DEF OneWorks
<1>5. TreesAreReady'
 <2> SUFFICES ASSUME NEW q \in Processes, q # p PROVE Ready(q)'  BY DEF TreesAreReady
 <2>1. tree'[q] = NoTree /\ ~Working(q)' /\ job'[q].step \in {"closed", "open"}
   BY <1>1, <1>3 DEF Working
 <2> QED  BY <2>1 DEF Ready, Staged
<1> QED  BY <1>2, <1>4, <1>5 DEF LockPart

LEMMA ShelvesStay ==
    ASSUME AvatarParts, CatalogHolds, UNCHANGED <<installed, rooms, promised, rotten>>
    PROVE  ShelfPart' /\ PromisePart' /\ ShelvesKeep' /\ \A k \in Packs : Vacant(k) => Vacant(k)'
BY DEF AvatarParts, ShelfPart, PromisePart, CatalogHolds, ShelvesKeep, ShelvesHold, VersionsAreWhole, OnlySoundPacks,
       Vacant, Entries, Occupied

LEMMA FaultFacts ==
    ASSUME AvatarParts, CatalogHolds
    PROVE  /\ (Sound \/ Faulty) /\ UNCHANGED installs => faults' \in 0 .. MaxFault /\ installs' \in 0 .. MaxInstall
           /\ Faulty => faults' # 0
           /\ Sound => faults' = faults
           /\ abandoned \subseteq {"fresh", "old"} /\ (faults = 0 => abandoned = {})
  BY PacksAre DEF AvatarParts, FaultPart, Faulty, Sound, CatalogHolds, FaultsLeave

LEMMA FaultStays ==
    ASSUME AvatarParts, CatalogHolds, Sound \/ Faulty, UNCHANGED <<abandoned, installs>>
    PROVE  FaultPart' /\ FaultsLeave'
BY FaultFacts DEF FaultPart, FaultsLeave

LEMMA FaultFresh ==
    ASSUME AvatarParts, CatalogHolds, Faulty, UNCHANGED installs, abandoned' \subseteq abandoned \cup {"fresh"}
    PROVE  FaultPart' /\ FaultsLeave'
BY FaultFacts DEF FaultPart, FaultsLeave

\* A step on with the same lock, and one after which only the cleaning is left.
LEMMA ContinueIs ==
    ASSUME AvatarParts, CatalogHolds, NEW p \in Processes, NEW to \in JobSteps \ {"closed", "open"}, Continue(p, to)
    PROVE  /\ JobPart' /\ job'[p].step = to /\ job'[p].pack = job[p].pack /\ job'[p].answer = job[p].answer
           /\ \A q \in Processes : q # p => job'[q] = job[q]
           /\ Working(p)' /\ locked' = locked /\ promised' = promised
<1>1. job' = [job EXCEPT ![p] = [job[p] EXCEPT !.step = to]]  BY DEF Continue
<1>2. JobPart' /\ job'[p] = [job[p] EXCEPT !.step = to] /\ \A q \in Processes : q # p => job'[q] = job[q]
  BY <1>1, JobFacts, JobGoes DEF AvatarParts
<1>3. job'[p].step = to /\ job'[p].pack = job[p].pack /\ job'[p].answer = job[p].answer
  BY <1>2, JobFacts DEF Jobs
<1> QED  BY <1>2, <1>3 DEF Continue, Working

LEMMA CleanIs ==
    ASSUME AvatarParts, CatalogHolds, NEW p \in Processes, Working(p),
           NEW a \in {"already", "exists", "duplicate", "invalid", "io"}, CleanThen(p, a), UNCHANGED installed,
           a = "already" => installed[job[p].pack.slot].pack = job[p].pack,
           TreePart', \A q \in Processes : q # p => tree'[q] = tree[q]
    PROVE  JobPart' /\ LockPart' /\ OneWorks' /\ TreesAreReady' /\ promised' = promised
<1>1. job' = [job EXCEPT ![p] = [job[p] EXCEPT !.step = "cleaning", !.answer = a]]  BY DEF CleanThen
<1>2. a \in Answers /\ "cleaning" \in JobSteps  BY DEF Answers, JobSteps
<1>3. /\ JobPart' /\ job'[p] = [job[p] EXCEPT !.step = "cleaning", !.answer = a]
      /\ \A q \in Processes : q # p => job'[q] = job[q]
  BY <1>1, <1>2, JobFacts, JobGoes DEF AvatarParts
<1>4. job'[p].step = "cleaning" /\ job'[p].answer = a /\ job'[p].pack = job[p].pack
  BY ZenonT(40), <1>3, JobFacts DEF Jobs
<1>5. Ready(p)' /\ Working(p)'  BY <1>4, LonelyWorker DEF Ready, Working, Staged
<1>6. locked' = locked /\ promised' = promised  BY DEF CleanThen
<1> QED  BY <1>3, <1>5, <1>6, WorkerGoes

LEMMA AnswerIs ==
    ASSUME AvatarParts, CatalogHolds, NEW p \in Processes, Working(p), NEW a \in Answers, Answer(p, a),
           TreePart', tree'[p] = NoTree, \A q \in Processes : q # p => tree'[q] = tree[q]
    PROVE  /\ JobPart' /\ LockPart' /\ OneWorks' /\ TreesAreReady'
           /\ promised' = IF a \in {"installed", "indeterminate", "already"}
                          THEN promised \cup {[pack |-> job[p].pack, durable |-> a = "installed"]} ELSE promised
<1>1. job' = [job EXCEPT ![p] = [Closed EXCEPT !.step = "open"]] /\ locked' = locked \ {p}
  BY DEF Answer
<1>2. [Closed EXCEPT !.step = "open"] \in Jobs /\ [Closed EXCEPT !.step = "open"].step = "open"
  BY DEF Closed, Jobs, JobSteps, Answers, PackOrNone
<1>3. JobPart' /\ job'[p].step = "open" /\ \A q \in Processes : q # p => job'[q] = job[q]
  BY <1>1, <1>2, JobGoes DEF AvatarParts
<1>4. Ready(p)' /\ ~Working(p)'  BY <1>3 DEF Ready, Working, Staged
<1>5. LockPart' /\ OneWorks' /\ TreesAreReady'  BY <1>1, <1>3, <1>4, WorkerGoes
<1> QED  BY <1>3, <1>5 DEF Answer

\* A worker's step that leaves the shelves and its tree as they are.
LEMMA TreeStays ==
    ASSUME AvatarParts, UNCHANGED tree
    PROVE  TreePart' /\ \A p \in Processes : tree'[p] = tree[p]
BY DEF AvatarParts, TreePart

LEMMA ValidateStep ==
    ASSUME AvatarParts, CatalogHolds, NEW p \in Processes, Validate(p) PROVE AvatarParts' /\ CatalogHolds'
<1>1. /\ job[p].step = "validating" /\ Working(p) /\ UNCHANGED <<rooms, installed, rotten, installs>>
      /\ job[p].pack \in Packs /\ tree[p] = NoTree
  BY LonelyWorker DEF Validate, Working, Ready, Staged
<1>2. CASE Sound /\ UNCHANGED abandoned /\ ArchiveOpens(job[p].pack) /\ ManifestFits(job[p].pack)
           /\ tree' = [tree EXCEPT ![p] = NewTree(job[p].pack)] /\ Continue(p, "writing")
 <2>1. /\ NewTree(job[p].pack) \in Trees /\ NewTree(job[p].pack).pack = job[p].pack /\ NewTree(job[p].pack).files = {}
       /\ NewTree(job[p].pack).synced = {}
   BY <1>1 DEF NewTree, NoTree, Trees, PackOrNone
 <2>2. TreePart' /\ tree'[p] = NewTree(job[p].pack) /\ \A q \in Processes : q # p => tree'[q] = tree[q]
   BY <1>2, <2>1, TreeGoes DEF AvatarParts
 <2>3. "writing" \in JobSteps \ {"closed", "open"}  BY DEF JobSteps, Staged
 <2>4. /\ JobPart' /\ job'[p].step = "writing" /\ job'[p].pack = job[p].pack
       /\ \A q \in Processes : q # p => job'[q] = job[q]
       /\ Working(p)' /\ locked' = locked /\ promised' = promised
   BY <1>2, <2>3, ContinueIs
 <2>5. Ready(p)'  BY <1>1, <1>2, <2>1, <2>2, <2>4 DEF Ready, Staged, ArchiveOpens, ManifestFits
 <2>6. LockPart' /\ OneWorks' /\ TreesAreReady'  BY <1>1, <2>2, <2>4, <2>5, WorkerGoes
 <2>7. ShelfPart' /\ PromisePart' /\ ShelvesKeep'  BY <1>1, <2>4, ShelvesStay
 <2>8. FaultPart' /\ FaultsLeave'  BY <1>1, <1>2, FaultStays
 <2> QED  BY <2>2, <2>4, <2>6, <2>7, <2>8 DEF AvatarParts, CatalogHolds, ShelvesKeep
<1>3. ASSUME NEW a \in {"invalid", "io"}, Answer(p, a), UNCHANGED tree,
             \/ Sound /\ UNCHANGED abandoned
             \/ Faulty /\ abandoned' \in {abandoned, abandoned \cup {"fresh"}}
      PROVE  AvatarParts' /\ CatalogHolds'
  BY <1>3, TreeStays, <1>1, AnswerIs, ShelvesStay, FaultStays, FaultFresh DEF Answers, AvatarParts,
    CatalogHolds, ShelvesKeep
<1> QED  BY <1>2, <1>3 DEF Validate

\* A call whose work is over but for the cleaning.
LEMMA CleanStep ==
    ASSUME AvatarParts, CatalogHolds, NEW p \in Processes, Working(p),
           NEW a \in {"already", "exists", "duplicate", "invalid", "io"}, CleanThen(p, a),
           a = "already" => installed[job[p].pack.slot].pack = job[p].pack,
           TreePart', \A q \in Processes : q # p => tree'[q] = tree[q],
           UNCHANGED <<abandoned, rooms, installed, rotten, installs>>, Sound \/ Faulty
    PROVE  AvatarParts' /\ CatalogHolds'
  BY CleanIs, ShelvesStay, FaultStays DEF AvatarParts, CatalogHolds, ShelvesKeep

LEMMA WriteStep ==
    ASSUME AvatarParts, CatalogHolds, NEW p \in Processes, WriteFile(p) PROVE AvatarParts' /\ CatalogHolds'
<1>1. /\ job[p].step = "writing" /\ Working(p) /\ UNCHANGED <<abandoned, rooms, installed, rotten, installs>>
      /\ Sound \/ Faulty
  BY DEF WriteFile, Working
<1>2. /\ job[p].pack \in Packs /\ tree[p].pack = job[p].pack /\ tree[p].synced = tree[p].files
      /\ job[p].pack.flaw \notin {"archive", "manifest"} /\ ("payload" \in tree[p].files => job[p].pack.flaw # "payload")
  BY <1>1, LonelyWorker DEF Ready, Staged
<1> DEFINE f == NextFile(tree[p])
<1>3. CASE Faulty /\ CleanThen(p, "io") /\ UNCHANGED tree  BY <1>1, <1>3, TreeStays, CleanStep
<1>4. ASSUME tree' = [tree EXCEPT ![p] = Written(tree[p], f)]
      PROVE  /\ TreePart' /\ \A q \in Processes : q # p => tree'[q] = tree[q]
             /\ tree'[p].pack = job[p].pack /\ tree'[p].synced = tree'[p].files /\ tree'[p].files = tree[p].files \cup {f}
 <2>1. f \in Files  BY DEF NextFile, Files
 <2> HIDE DEF f
 <2>2. tree[p] \in Trees  BY JobFacts
 <2>3. /\ Written(tree[p], f) \in Trees /\ Written(tree[p], f).pack = tree[p].pack
       /\ Written(tree[p], f).files = tree[p].files \cup {f} /\ Written(tree[p], f).synced = tree[p].synced \cup {f}
   BY <2>1, <2>2 DEF Written, Trees
 <2> QED  BY <1>2, <1>4, <2>3, TreeGoes DEF AvatarParts
<1>5. CASE tree' = [tree EXCEPT ![p] = Written(tree[p], f)] /\ HashDiffers(job[p].pack, f) /\ CleanThen(p, "invalid")
  BY <1>1, <1>4, <1>5, CleanStep
<1>6. CASE tree' = [tree EXCEPT ![p] = Written(tree[p], f)] /\ ~HashDiffers(job[p].pack, f) /\ Continue(p, "writing")
 <2>1. /\ TreePart' /\ \A q \in Processes : q # p => tree'[q] = tree[q]
       /\ tree'[p].pack = job[p].pack /\ tree'[p].synced = tree'[p].files /\ tree'[p].files = tree[p].files \cup {f}
   BY <1>4, <1>6
 <2>2. f = "payload" => job[p].pack.flaw # "payload"  BY <1>6 DEF HashDiffers
 <2> HIDE DEF f
 <2>3. "writing" \in JobSteps \ {"closed", "open"}  BY DEF JobSteps, Staged
 <2>4. /\ JobPart' /\ job'[p].step = "writing" /\ job'[p].pack = job[p].pack
       /\ \A q \in Processes : q # p => job'[q] = job[q]
       /\ Working(p)' /\ locked' = locked /\ promised' = promised
   BY <1>6, <2>3, ContinueIs
 <2>5. Ready(p)'  BY <1>2, <2>1, <2>2, <2>4 DEF Ready, Staged
 <2>6. LockPart' /\ OneWorks' /\ TreesAreReady'  BY <1>1, <2>1, <2>4, <2>5, WorkerGoes
 <2>7. ShelfPart' /\ PromisePart' /\ ShelvesKeep'  BY <1>1, <2>4, ShelvesStay
 <2>8. FaultPart' /\ FaultsLeave'  BY <1>1, FaultStays
 <2> QED  BY <2>1, <2>4, <2>6, <2>7, <2>8 DEF AvatarParts, CatalogHolds, ShelvesKeep
<1> QED  BY <1>3, <1>5, <1>6 DEF WriteFile

LEMMA SealStep ==
    ASSUME AvatarParts, CatalogHolds, NEW p \in Processes, Seal(p) PROVE AvatarParts' /\ CatalogHolds'
<1>1. /\ job[p].step = "writing" /\ Working(p) /\ UNCHANGED <<tree, abandoned, rooms, installed, rotten, installs>>
      /\ Sound \/ Faulty
      /\ tree[p].files = Files
  BY DEF Seal, Working
<1>2. /\ job[p].pack \in Packs /\ tree[p].pack = job[p].pack /\ tree[p].synced = tree[p].files
      /\ job[p].pack.flaw \notin {"archive", "manifest"} /\ ("payload" \in tree[p].files => job[p].pack.flaw # "payload")
  BY <1>1, LonelyWorker DEF Ready, Staged
<1>3. CASE Faulty /\ CleanThen(p, "io")  BY <1>1, <1>3, TreeStays, CleanStep
<1>4. CASE Sound /\ Continue(p, "deciding")
 <2>1. TreePart' /\ \A q \in Processes : tree'[q] = tree[q]  BY <1>1, TreeStays
 <2>3. "deciding" \in JobSteps \ {"closed", "open"}  BY DEF JobSteps, Staged
 <2>4. /\ JobPart' /\ job'[p].step = "deciding" /\ job'[p].pack = job[p].pack
       /\ \A q \in Processes : q # p => job'[q] = job[q]
       /\ Working(p)' /\ locked' = locked /\ promised' = promised
   BY <1>4, <2>3, ContinueIs
 <2>5. Ready(p)'  BY <1>1, <1>2, <2>1, <2>4 DEF Ready, Staged
 <2>6. LockPart' /\ OneWorks' /\ TreesAreReady'  BY <1>1, <2>1, <2>4, <2>5, WorkerGoes
 <2>7. ShelfPart' /\ PromisePart' /\ ShelvesKeep'  BY <1>1, <2>4, ShelvesStay
 <2>8. FaultPart' /\ FaultsLeave'  BY <1>1, FaultStays
 <2> QED  BY <2>1, <2>4, <2>6, <2>7, <2>8 DEF AvatarParts, CatalogHolds, ShelvesKeep
<1> QED  BY <1>3, <1>4 DEF Seal

LEMMA DecideStep ==
    ASSUME AvatarParts, CatalogHolds, NEW p \in Processes, Decide(p) PROVE AvatarParts' /\ CatalogHolds'
<1>0. PICK k \in Packs : k = job[p].pack
 <2>1. Working(p)  BY DEF Decide, Working
 <2> QED  BY <2>1, LonelyWorker
<1>1. /\ job[p].step = "deciding" /\ Working(p) /\ UNCHANGED <<tree, abandoned, installed, rotten, installs>>
  BY DEF Decide, Working
<1>2. /\ k \in Packs /\ k.slot \in Slots /\ tree[p].pack = k /\ tree[p].synced = tree[p].files /\ tree[p].files = Files
      /\ k.flaw \notin {"archive", "manifest", "payload"}
  BY <1>0, <1>1, LonelyWorker DEF Ready, Staged, Files
<1>3. TreePart' /\ \A q \in Processes : tree'[q] = tree[q]  BY <1>1, TreeStays
<1>4. ASSUME Refusal(k) = "none"
      PROVE  k.flaw = "none" /\ ~Occupied(k.slot) /\ \A q \in Entries : q.asset # k.asset
  BY <1>4, <1>2, PacksAre DEF Refusal
<1>5. Refusal(k) = "already" => installed[k.slot].pack = k  BY DEF Refusal
<1>6. Refusal(k) \in {"none", "already", "exists", "duplicate", "invalid", "io"}  BY DEF Refusal
<1>7. CASE Refusal(k) # "none" /\ CleanThen(p, Refusal(k)) /\ Sound /\ UNCHANGED rooms
  BY <1>6, <1>7, <1>0, <1>1, <1>3, <1>5, CleanStep
<1>a. ASSUME NEW room \in {"made", "durable"}, rooms' = [rooms EXCEPT ![k.slot] = room], ~Occupied(k.slot), promised' = promised
      PROVE  ShelfPart' /\ PromisePart' /\ ShelvesKeep'
 <2>1. rooms \in [Slots -> {"absent", "made", "durable"}] /\ ShelvesHold /\ VersionsAreWhole /\ OnlySoundPacks
   BY DEF AvatarParts, ShelfPart, CatalogHolds
 <2>2. /\ rooms' \in [Slots -> {"absent", "made", "durable"}]
       /\ \A s \in Slots : s # k.slot => rooms'[s] = rooms[s]
   BY <1>a, <2>1
 <2>3. ShelfPart' /\ PromisePart'  BY <1>1, <1>a, <2>2 DEF AvatarParts, ShelfPart, PromisePart
 <2>4. \A s \in Slots : Occupied(s)' <=> Occupied(s)  BY <1>1 DEF Occupied
 <2>5. ShelvesHold'  BY <1>1, <1>a, <2>1, <2>2, <2>4 DEF ShelvesHold
 <2>6. VersionsAreWhole' /\ OnlySoundPacks'
   BY <1>1, <2>1 DEF VersionsAreWhole, OnlySoundPacks, Occupied, Entries
 <2> QED  BY <2>3, <2>5, <2>6 DEF ShelvesKeep
<1>8. CASE Refusal(k) = "none" /\ Sound /\ rooms' = Housed(k.slot) /\ Continue(p, "promoting")
 <2>1. k.flaw = "none" /\ ~Occupied(k.slot) /\ \A q \in Entries : q.asset # k.asset  BY <1>4, <1>8
 <2>2. rooms' = [rooms EXCEPT ![k.slot] = "durable"] /\ rooms'[k.slot] = "durable"
   BY <1>2, <1>8 DEF Housed, AvatarParts, ShelfPart
 <2>3. "promoting" \in JobSteps \ {"closed", "open"}  BY DEF JobSteps, Staged
 <2>4. /\ JobPart' /\ job'[p].step = "promoting" /\ job'[p].pack = k
       /\ \A q \in Processes : q # p => job'[q] = job[q]
       /\ Working(p)' /\ locked' = locked /\ promised' = promised
   BY <1>0, <1>8, <2>3, ContinueIs
 <2>5. Vacant(k)'  BY <1>1, <2>1, <2>2 DEF Vacant, Occupied, Entries
 <2>6. Ready(p)'  BY <1>2, <1>3, <2>4, <2>5 DEF Ready, Staged
 <2>7. LockPart' /\ OneWorks' /\ TreesAreReady'  BY <1>1, <1>3, <2>4, <2>6, WorkerGoes
 <2>8. ShelfPart' /\ PromisePart' /\ ShelvesKeep'  BY <1>a, <2>1, <2>2, <2>4
 <2>9. FaultPart' /\ FaultsLeave'  BY <1>1, <1>8, FaultStays
 <2> QED  BY <1>3, <2>4, <2>7, <2>8, <2>9 DEF AvatarParts, CatalogHolds, ShelvesKeep
<1>9. CASE /\ Refusal(k) = "none" /\ Faulty /\ CleanThen(p, "io")
           /\ rooms' \in {rooms, [rooms EXCEPT ![k.slot] = IF rooms[k.slot] = "absent" THEN "made" ELSE rooms[k.slot]]}
  BY <1>4, <1>9, <1>1, <1>3, CleanIs, <1>2, ShelvesStay, <1>a, FaultStays DEF CleanThen,
    AvatarParts, ShelfPart, CatalogHolds, ShelvesKeep
<1> QED  BY <1>0, <1>7, <1>8, <1>9 DEF Decide

LEMMA VerifyTreeStep ==
    ASSUME AvatarParts, CatalogHolds, NEW p \in Processes, VerifyTree(p) PROVE AvatarParts' /\ CatalogHolds'
<1>1. /\ job[p].step = "promoting" /\ Working(p) /\ UNCHANGED <<abandoned, rooms, installed, rotten, installs>>
      /\ Sound \/ Faulty
  BY DEF VerifyTree, Working
<1>0. PICK k \in Packs : k = job[p].pack  BY <1>1, LonelyWorker
<1>2. /\ tree[p].pack = k /\ tree[p].synced = tree[p].files /\ tree[p].files = Files
      /\ k.flaw \notin {"archive", "manifest", "payload"} /\ Vacant(k)
  BY <1>0, <1>1, LonelyWorker DEF Ready, Staged, Files
<1>3. CASE Faulty /\ CleanThen(p, "io") /\ UNCHANGED tree  BY <1>1, <1>3, TreeStays, CleanStep
<1>4. CASE Sound /\ tree' = [tree EXCEPT ![p] = SyncedTree(tree[p])] /\ Continue(p, "renaming")
 <2>1. /\ SyncedTree(tree[p]) \in Trees /\ SyncedTree(tree[p]).pack = k /\ SyncedTree(tree[p]).files = Files
       /\ SyncedTree(tree[p]).synced = Files /\ SyncedTree(tree[p]).linked
  <3>1. tree[p] \in Trees  BY JobFacts
  <3> QED  BY <1>2, <3>1 DEF SyncedTree, Trees
 <2>2. TreePart' /\ tree'[p] = SyncedTree(tree[p]) /\ \A q \in Processes : q # p => tree'[q] = tree[q]
   BY <1>4, <2>1, TreeGoes DEF AvatarParts
 <2>3. "renaming" \in JobSteps \ {"closed", "open"}  BY DEF JobSteps, Staged
 <2>4. /\ JobPart' /\ job'[p].step = "renaming" /\ job'[p].pack = k
       /\ \A q \in Processes : q # p => job'[q] = job[q]
       /\ Working(p)' /\ locked' = locked /\ promised' = promised
   BY <1>0, <1>4, <2>3, ContinueIs
 <2>5. ShelfPart' /\ PromisePart' /\ ShelvesKeep' /\ Vacant(k)'  BY <1>1, <1>2, <2>4, ShelvesStay
 <2>6. Ready(p)'  BY <1>2, <2>1, <2>2, <2>4, <2>5 DEF Ready, Staged
 <2>7. LockPart' /\ OneWorks' /\ TreesAreReady'  BY <1>1, <2>2, <2>4, <2>6, WorkerGoes
 <2>8. FaultPart' /\ FaultsLeave'  BY <1>1, FaultStays
 <2> QED  BY <2>2, <2>4, <2>5, <2>7, <2>8 DEF AvatarParts, CatalogHolds, ShelvesKeep
<1> QED  BY <1>3, <1>4 DEF VerifyTree

LEMMA PromoteStep ==
    ASSUME AvatarParts, CatalogHolds, NEW p \in Processes, Promote(p) PROVE AvatarParts' /\ CatalogHolds'
<1>1. /\ job[p].step = "renaming" /\ Working(p) /\ UNCHANGED <<abandoned, rooms, rotten, installs>>
      /\ Sound \/ Faulty
  BY DEF Promote, Working
<1>0. PICK k \in Packs : k = job[p].pack  BY <1>1, LonelyWorker
<1>2. /\ tree[p].pack = k /\ tree[p].synced = Files /\ tree[p].files = Files /\ tree[p].linked /\ Vacant(k)
      /\ k.slot \in Slots /\ tree[p] \in Trees
  BY <1>0, <1>1, LonelyWorker, JobFacts DEF Ready, Staged
<1>v. k.flaw = "none" /\ rooms[k.slot] = "durable" /\ ~Occupied(k.slot) /\ \A q \in Entries : q.asset # k.asset
  BY <1>2 DEF Vacant
<1>3. CASE Faulty /\ CleanThen(p, "io") /\ UNCHANGED <<tree, installed>>
  BY <1>1, <1>3, TreeStays, CleanStep
<1>4. CASE /\ Sound /\ Continue(p, "flushing") /\ installed' = [installed EXCEPT ![k.slot] = InPlace(tree[p], FALSE)]
           /\ tree' = [tree EXCEPT ![p] = NoTree]
 <2>1. TreePart' /\ tree'[p] = NoTree /\ \A q \in Processes : q # p => tree'[q] = tree[q]
   BY <1>4, NothingIsTyped, TreeGoes DEF AvatarParts
 <2>2. "flushing" \in JobSteps \ {"closed", "open"}  BY DEF JobSteps, Staged
 <2>3. /\ JobPart' /\ job'[p].step = "flushing" /\ job'[p].pack = k
       /\ \A q \in Processes : q # p => job'[q] = job[q]
       /\ Working(p)' /\ locked' = locked /\ promised' = promised
   BY <1>0, <1>4, <2>2, ContinueIs
 <2>4. PICK new \in Places : new = InPlace(tree[p], FALSE)  BY <1>2, NothingIsTyped
 <2>5. new.pack = k /\ new.files = Files /\ new.synced = Files /\ new.linked /\ ~new.settled
   BY <1>2, <2>4, NothingIsTyped
 <2>6. /\ installed' \in [Slots -> Places] /\ installed'[k.slot] = new
       /\ \A s \in Slots : s # k.slot => installed'[s] = installed[s]
   BY <1>2, <1>4, <2>4 DEF AvatarParts, ShelfPart
 <2>7. ShelfPart' /\ PromisePart'  BY <1>1, <2>3, <2>6 DEF AvatarParts, ShelfPart, PromisePart
 <2>8. /\ Occupied(k.slot)' /\ \A s \in Slots : s # k.slot => (Occupied(s)' <=> Occupied(s))
   BY <1>0, <2>5, <2>6, PacksAre DEF Occupied
 <2>9. ShelvesHold'
  <3>1. ShelvesHold  BY DEF CatalogHolds
  <3>2. \A s \in Slots : Occupied(s)' =>
           installed'[s].pack.slot = s /\ installed'[s].synced = Files /\ installed'[s].linked /\ rooms'[s] = "durable"
    BY <1>1, <1>v, <2>5, <2>6, <2>8, <3>1 DEF ShelvesHold
  <3>3. \A s \in Slots : s # k.slot /\ Occupied(s) => installed[s].pack.asset # k.asset
    BY <1>v DEF Entries
  <3>4. \A s, t \in Slots : s # t /\ Occupied(s)' /\ Occupied(t)' => installed'[s].pack.asset # installed'[t].pack.asset
    BY <2>5, <2>6, <2>8, <3>1, <3>3 DEF ShelvesHold
  <3>5. \A a \in promised : a.pack \in Packs /\ a.pack.slot \in Slots /\ a.pack.slot # k.slot
   <4> TAKE a \in promised
   <4>1. a.pack \in Packs /\ a.pack.slot \in Slots
     BY PacksAre DEF AvatarParts, PromisePart, Promises
   <4>2. installed[a.pack.slot].pack = a.pack  BY <3>1 DEF ShelvesHold
   <4> QED  BY <1>v, <4>1, <4>2, PacksAre DEF Occupied
  <3>6. \A a \in promised' : installed'[a.pack.slot].pack = a.pack /\ (a.durable => installed'[a.pack.slot].settled)
    BY <2>3, <2>6, <3>1, <3>5 DEF ShelvesHold
  <3> QED  BY <3>2, <3>4, <3>6 DEF ShelvesHold
 <2>a. VersionsAreWhole' /\ OnlySoundPacks'
   BY <1>1, <2>5, <2>6, <2>8, <1>v DEF CatalogHolds, VersionsAreWhole, OnlySoundPacks, Entries
 <2>b. Ready(p)'  BY <1>0, <2>1, <2>3, <2>5, <2>6 DEF Ready, Staged
 <2>c. LockPart' /\ OneWorks' /\ TreesAreReady'  BY <1>1, <2>1, <2>3, <2>b, WorkerGoes
 <2>d. FaultPart' /\ FaultsLeave'  BY <1>1, FaultStays
 <2> QED  BY <2>1, <2>3, <2>7, <2>9, <2>a, <2>c, <2>d DEF AvatarParts, CatalogHolds
<1> QED  BY <1>0, <1>3, <1>4, <1>v DEF Promote

\* What is read under a slot changes, but not what it is of.
LEMMA PlaceSettles ==
    ASSUME AvatarParts, CatalogHolds, NEW s \in Slots, NEW b \in BOOLEAN, installed' = [installed EXCEPT ![s].settled = b],
           b \/ \A a \in promised : a.pack.slot = s => ~a.durable, UNCHANGED <<rooms, promised, rotten>>
    PROVE  /\ ShelfPart' /\ PromisePart' /\ ShelvesKeep'
           /\ installed'[s].settled = b /\ \A t \in Slots : installed'[t].pack = installed[t].pack
<1>1. installed \in [Slots -> Places] /\ ShelvesHold /\ VersionsAreWhole /\ OnlySoundPacks
  BY DEF AvatarParts, ShelfPart, CatalogHolds
<1>2. installed' = [installed EXCEPT ![s] = [installed[s] EXCEPT !.settled = b]]  OBVIOUS
<1>3. /\ [installed[s] EXCEPT !.settled = b] \in Places
      /\ [installed[s] EXCEPT !.settled = b].pack = installed[s].pack /\ [installed[s] EXCEPT !.settled = b].files = installed[s].files
      /\ [installed[s] EXCEPT !.settled = b].synced = installed[s].synced /\ [installed[s] EXCEPT !.settled = b].linked = installed[s].linked
      /\ [installed[s] EXCEPT !.settled = b].settled = b
  BY <1>1 DEF Places
<1>4. /\ installed' \in [Slots -> Places]
      /\ \A t \in Slots : /\ installed'[t].pack = installed[t].pack /\ installed'[t].files = installed[t].files
                          /\ installed'[t].synced = installed[t].synced /\ installed'[t].linked = installed[t].linked
                          /\ installed'[t].settled = IF t = s THEN b ELSE installed[t].settled
  BY <1>1, <1>2, <1>3
<1>5. \A t \in Slots : Occupied(t)' <=> Occupied(t)  BY <1>4 DEF Occupied
<1>6. ShelvesHold'
  BY PacksAre, <1>1, <1>4, <1>5 DEF AvatarParts, PromisePart, Promises, ShelvesHold
<1>7. VersionsAreWhole'  BY <1>1, <1>4, <1>5 DEF VersionsAreWhole
<1>8. OnlySoundPacks'  BY <1>1, <1>4, <1>5 DEF OnlySoundPacks, Entries
<1>9. ShelfPart' /\ PromisePart'  BY <1>4 DEF AvatarParts, ShelfPart, PromisePart
<1> QED  BY <1>4, <1>6, <1>7, <1>8, <1>9 DEF ShelvesKeep

LEMMA ConfirmStep ==
    ASSUME AvatarParts, CatalogHolds, NEW p \in Processes, ConfirmDurability(p) PROVE AvatarParts' /\ CatalogHolds'
<1>1. /\ job[p].step = "flushing" /\ Working(p) /\ UNCHANGED <<locked, tree, abandoned, rooms, promised, rotten, installs>>
      /\ Sound \/ Faulty
  BY DEF ConfirmDurability, Working
<1>0. PICK k \in Packs : k = job[p].pack  BY <1>1, LonelyWorker
<1>2. installed[k.slot].pack = k /\ ~installed[k.slot].settled /\ k.slot \in Slots
  BY <1>0, <1>1, LonelyWorker DEF Ready
<1>3. \A a \in promised : a.pack.slot = k.slot => ~a.durable  BY <1>2 DEF CatalogHolds, ShelvesHold
<1>4. PICK b \in BOOLEAN, a \in {"installed", "indeterminate"} :
        /\ installed' = [installed EXCEPT ![k.slot].settled = b]
        /\ job' = [job EXCEPT ![p].step = "confirming", ![p].answer = a]
        /\ a = "installed" => b
  BY <1>0 DEF ConfirmDurability
<1>5. /\ ShelfPart' /\ PromisePart' /\ ShelvesKeep'
      /\ installed'[k.slot].settled = b /\ installed'[k.slot].pack = k
  BY <1>1, <1>2, <1>3, <1>4, PlaceSettles
<1>6. TreePart' /\ \A q \in Processes : tree'[q] = tree[q]  BY <1>1, TreeStays
<1>7. "confirming" \in JobSteps /\ a \in Answers  BY DEF JobSteps, Answers
<1>8. job' = [job EXCEPT ![p] = [job[p] EXCEPT !.step = "confirming", !.answer = a]]  BY <1>4
<1>9. /\ JobPart' /\ job'[p] = [job[p] EXCEPT !.step = "confirming", !.answer = a]
      /\ \A q \in Processes : q # p => job'[q] = job[q]
  BY <1>7, <1>8, JobFacts, JobGoes DEF AvatarParts
<1>a. job'[p].step = "confirming" /\ job'[p].answer = a /\ job'[p].pack = k
  BY ZenonT(40), <1>0, <1>9, JobFacts DEF Jobs
<1>b. Working(p)' /\ tree'[p] = NoTree  BY <1>1, <1>6, <1>a, LonelyWorker DEF Working, Ready, Staged
<1>c. Ready(p)'  BY <1>4, <1>5, <1>a, <1>b DEF Ready, Staged
<1>d. LockPart' /\ OneWorks' /\ TreesAreReady'  BY <1>1, <1>6, <1>9, <1>b, <1>c, WorkerGoes
<1>e. FaultPart' /\ FaultsLeave'  BY <1>1, FaultStays
<1> QED  BY <1>5, <1>6, <1>9, <1>d, <1>e DEF AvatarParts, CatalogHolds, ShelvesKeep

\* What is answered of a pack that is there may be kept as a promise.
LEMMA PromiseMade ==
    ASSUME AvatarParts, CatalogHolds, NEW k \in Packs, NEW d \in BOOLEAN, installed[k.slot].pack = k, d => installed[k.slot].settled,
           promised' = promised \cup {[pack |-> k, durable |-> d]}, UNCHANGED <<installed, rooms, rotten>>
    PROVE  ShelfPart' /\ PromisePart' /\ ShelvesKeep'
<1>1. ShelvesHold /\ VersionsAreWhole /\ OnlySoundPacks  BY DEF CatalogHolds
<1>2. PICK a \in Promises : a = [pack |-> k, durable |-> d] /\ a.pack = k /\ a.durable = d
 <2> DEFINE b == [pack |-> k, durable |-> d]
 <2>1. b \in Promises /\ b.pack = k  BY DEF Promises
 <2>2. b.durable = d  BY Zenon
 <2> QED  BY <2>1, <2>2
<1>3. promised' = promised \cup {a}  BY <1>2
<1>4. ShelfPart' /\ PromisePart'  BY <1>2, <1>3 DEF AvatarParts, ShelfPart, PromisePart
<1>5. ShelvesHold'  BY <1>1, <1>2, <1>3 DEF ShelvesHold, Occupied
<1>6. VersionsAreWhole' /\ OnlySoundPacks'
  BY <1>1 DEF VersionsAreWhole, OnlySoundPacks, Entries, Occupied
<1> QED  BY <1>4, <1>5, <1>6 DEF ShelvesKeep

\* The end of a call.
LEMMA AnswerStep ==
    ASSUME AvatarParts, CatalogHolds, NEW p \in Processes, Working(p), NEW a \in Answers, Answer(p, a),
           TreePart', tree'[p] = NoTree, \A q \in Processes : q # p => tree'[q] = tree[q],
           a \in {"installed", "indeterminate", "already"} => installed[job[p].pack.slot].pack = job[p].pack,
           a = "installed" => installed[job[p].pack.slot].settled,
           UNCHANGED <<rooms, installed, rotten>>, FaultPart', FaultsLeave'
    PROVE  AvatarParts' /\ CatalogHolds'
<1>0. PICK k \in Packs : k = job[p].pack  BY LonelyWorker
<1>1. /\ JobPart' /\ LockPart' /\ OneWorks' /\ TreesAreReady'
      /\ promised' = IF a \in {"installed", "indeterminate", "already"}
                     THEN promised \cup {[pack |-> k, durable |-> a = "installed"]} ELSE promised
  BY <1>0, AnswerIs
<1>2. ShelfPart' /\ PromisePart' /\ ShelvesKeep'  BY <1>1, ShelvesStay, <1>0, PromiseMade
<1> QED  BY <1>1, <1>2 DEF AvatarParts, CatalogHolds, ShelvesKeep

LEMMA ReconcileStep ==
    ASSUME AvatarParts, CatalogHolds, NEW p \in Processes, Reconcile(p) PROVE AvatarParts' /\ CatalogHolds'
<1>1. /\ job[p].step = "confirming" /\ Working(p) /\ UNCHANGED <<tree, abandoned, rooms, installed, rotten, faults, installs>>
  BY DEF Reconcile, Working
<1>2. /\ installed[job[p].pack.slot].pack = job[p].pack /\ job[p].answer \in {"installed", "indeterminate"}
      /\ (job[p].answer = "installed" => installed[job[p].pack.slot].settled) /\ tree[p] = NoTree
  BY <1>1, LonelyWorker DEF Ready, Staged
<1>3. PICK a \in {job[p].answer, "io"} : Answer(p, a)  BY DEF Reconcile
<1>4. a \in Answers  BY JobFacts DEF Answers
<1>5. TreePart' /\ \A q \in Processes : tree'[q] = tree[q]  BY <1>1, TreeStays
<1>6. FaultPart' /\ FaultsLeave'  BY <1>1 DEF AvatarParts, FaultPart, CatalogHolds, FaultsLeave
<1> QED  BY <1>1, <1>2, <1>3, <1>4, <1>5, <1>6, AnswerStep

LEMMA CleanUpStep ==
    ASSUME AvatarParts, CatalogHolds, NEW p \in Processes, CleanUp(p) PROVE AvatarParts' /\ CatalogHolds'
<1>1. /\ job[p].step = "cleaning" /\ Working(p) /\ UNCHANGED <<rooms, installed, rotten, installs>>
      /\ tree' = [tree EXCEPT ![p] = NoTree]
  BY DEF CleanUp, Working
<1>2. /\ job[p].answer \notin {"installed", "indeterminate"}
      /\ job[p].answer = "already" => installed[job[p].pack.slot].pack = job[p].pack
  BY <1>1, LonelyWorker DEF Ready
<1>3. TreePart' /\ tree'[p] = NoTree /\ \A q \in Processes : q # p => tree'[q] = tree[q]
  BY <1>1, NothingIsTyped, TreeGoes DEF AvatarParts
<1>4. job[p].answer \in Answers /\ "io" \in Answers  BY JobFacts DEF Answers
<1>5. CASE Sound /\ Answer(p, job[p].answer) /\ UNCHANGED abandoned
  BY <1>1, <1>5, FaultStays, <1>2, <1>3, <1>4, AnswerStep
<1>6. CASE Faulty /\ Answer(p, "io") /\ abandoned' = abandoned \cup {"fresh"}
  BY <1>1, <1>6, FaultFresh, <1>3, <1>4, AnswerStep
<1> QED  BY <1>5, <1>6 DEF CleanUp

\* While nobody works anything may begin.
LEMMA OpenCatalogStep ==
    ASSUME AvatarParts, CatalogHolds, NEW p \in Processes, OpenCatalog(p) PROVE AvatarParts' /\ CatalogHolds'
<1>1. /\ job[p].step = "closed" /\ UNCHANGED <<locked, tree, rooms, installed, promised, rotten, installs>>
      /\ Sound \/ Faulty
  BY DEF OpenCatalog
<1>2. /\ JobPart' /\ \A q \in Processes : q # p => job'[q] = job[q]
      /\ job'[p].step \in {"closed", "open"}
 <2>1. CASE job' = job  BY <1>1, <2>1 DEF AvatarParts, JobPart
 <2>2. CASE job' = [job EXCEPT ![p].step = "open"]
  <3>1. job' = [job EXCEPT ![p] = [job[p] EXCEPT !.step = "open"]] /\ "open" \in JobSteps
    BY <2>2 DEF JobSteps
  <3>2. /\ JobPart' /\ job'[p] = [job[p] EXCEPT !.step = "open"] /\ \A q \in Processes : q # p => job'[q] = job[q]
    BY <3>1, JobFacts, JobGoes DEF AvatarParts
  <3> QED  BY <3>2, JobFacts DEF Jobs
 <2> QED  BY <2>1, <2>2 DEF OpenCatalog
<1>3. TreePart' /\ \A q \in Processes : tree'[q] = tree[q]  BY <1>1, TreeStays
<1>4. ShelfPart' /\ PromisePart' /\ ShelvesKeep'  BY <1>1, ShelvesStay
<1>5. \A q \in Processes : Working(q)' <=> Working(q)  BY <1>1, <1>2 DEF Working
<1>6. LockPart' /\ OneWorks'  BY <1>1, <1>5 DEF AvatarParts, LockPart, CatalogHolds, OneWorks
<1>7. TreesAreReady'
 <2> SUFFICES ASSUME NEW q \in Processes PROVE Ready(q)'  BY DEF TreesAreReady
 <2>1. Ready(q)  BY DEF CatalogHolds, TreesAreReady
 <2>2. CASE q = p  BY <1>1, <2>1, <2>2, <1>2, <1>3 DEF Ready, Staged, Working
 <2>3. CASE q # p  BY <1>1, <1>2, <1>3, <1>5, <2>1, <2>3 DEF Ready, Vacant, Occupied, Entries
 <2> QED  BY <2>2, <2>3
<1>8. FaultPart' /\ FaultsLeave'  BY <1>1, FaultFacts DEF OpenCatalog, Swept, FaultPart, FaultsLeave
<1> QED  BY <1>2, <1>3, <1>4, <1>6, <1>7, <1>8 DEF AvatarParts, CatalogHolds, ShelvesKeep

LEMMA InstallBegins ==
    ASSUME AvatarParts, CatalogHolds, NEW p \in Processes, NEW k \in Packs, Install(p, k) PROVE AvatarParts' /\ CatalogHolds'
<1>1. /\ job[p].step = "open" /\ locked = {} /\ locked' = {p} /\ installs < MaxInstall /\ installs' = installs + 1
      /\ job' = [job EXCEPT ![p] = [step |-> "validating", pack |-> k, answer |-> "none"]]
      /\ UNCHANGED <<tree, abandoned, rooms, installed, promised, rotten, faults>>
  BY DEF Install, LockFree, Acquire
<1>2. [step |-> "validating", pack |-> k, answer |-> "none"] \in Jobs
  BY DEF Jobs, JobSteps, Answers, PackOrNone
<1>3. /\ JobPart' /\ job'[p].step = "validating" /\ job'[p].pack = k /\ \A q \in Processes : q # p => job'[q] = job[q]
 <2>1. JobPart' /\ job'[p] = [step |-> "validating", pack |-> k, answer |-> "none"] /\ \A q \in Processes : q # p => job'[q] = job[q]
   BY <1>1, <1>2, JobGoes DEF AvatarParts
 <2> QED  BY <2>1
<1>4. TreePart' /\ \A q \in Processes : tree'[q] = tree[q]  BY <1>1, TreeStays
<1>5. ShelfPart' /\ PromisePart' /\ ShelvesKeep'  BY <1>1, ShelvesStay
<1>6. \A q \in Processes : ~Working(q) /\ Ready(q)
  BY <1>1 DEF CatalogHolds, OneWorks, TreesAreReady
<1>7. \A q \in Processes : tree[q] = NoTree /\ (Working(q)' <=> q = p)
  BY <1>3, <1>6 DEF Ready, Working, Staged
<1>8. LockPart' /\ OneWorks'  BY <1>1, <1>7 DEF LockPart, OneWorks
<1>9. TreesAreReady'
 <2> SUFFICES ASSUME NEW q \in Processes PROVE Ready(q)'  BY DEF TreesAreReady
 <2>1. CASE q = p  BY <1>3, <1>4, <1>7, <2>1 DEF Ready, Staged
 <2>2. CASE q # p  BY <1>3, <1>4, <1>6, <1>7, <2>2 DEF Working, Ready, Staged
 <2> QED  BY <2>1, <2>2
<1>a. FaultPart' /\ FaultsLeave'
  BY <1>1, PacksAre DEF AvatarParts, FaultPart, CatalogHolds, FaultsLeave
<1> QED  BY <1>3, <1>4, <1>5, <1>8, <1>9, <1>a DEF AvatarParts, CatalogHolds, ShelvesKeep

\* What an installation is ready for depends on its own job and tree and on what is of
\* which pack.
LEMMA ReadyStays ==
    ASSUME NEW p \in Processes, Ready(p), job'[p] = job[p], tree'[p] = tree[p], rooms' = rooms, job[p].pack \in Packs,
           \A s \in Slots : installed'[s].pack = installed[s].pack /\ installed'[s].settled = installed[s].settled
    PROVE  Ready(p)'
<1>1. job[p].pack.slot \in Slots  BY PacksAre
<1>2. PICK k \in Packs : k = job[p].pack /\ k.slot \in Slots  BY <1>1
<1>3. Vacant(k) => Vacant(k)'  BY <1>2 DEF Occupied, Entries, Vacant
<1>4. job'[p].pack = k  BY <1>2
<1> QED  BY <1>2, <1>3, <1>4 DEF Ready, Working

LEMMA IdleReady ==
    ASSUME NEW p \in Processes, Ready(p), ~Working(p), job'[p] = job[p], tree'[p] = tree[p]
    PROVE  Ready(p)'
BY DEF Ready, Working, Staged

LEMMA DieStep ==
    ASSUME AvatarParts, CatalogHolds, NEW p \in Processes, Die(p) PROVE AvatarParts' /\ CatalogHolds'
<1>1. /\ Faulty /\ job' = [job EXCEPT ![p] = Closed] /\ locked' = locked \ {p} /\ tree' = [tree EXCEPT ![p] = NoTree]
      /\ abandoned' \subseteq abandoned \cup {"fresh"} /\ UNCHANGED <<rooms, installed, promised, rotten, installs>>
  BY DEF Die
<1>2. JobPart' /\ job'[p] = Closed /\ \A q \in Processes : q # p => job'[q] = job[q]
  BY <1>1, NothingIsTyped, JobGoes DEF AvatarParts
<1>3. TreePart' /\ tree'[p] = NoTree /\ \A q \in Processes : q # p => tree'[q] = tree[q]
  BY <1>1, NothingIsTyped, TreeGoes DEF AvatarParts
<1>4. ShelfPart' /\ PromisePart' /\ ShelvesKeep'  BY <1>1, ShelvesStay
<1>5. ~Working(p)' /\ \A q \in Processes : q # p => (Working(q)' <=> Working(q))
  BY <1>2, NothingIsTyped DEF Working
<1>6. LockPart' /\ OneWorks'  BY <1>1, <1>5 DEF AvatarParts, LockPart, CatalogHolds, OneWorks
<1>7. TreesAreReady'
 <2> SUFFICES ASSUME NEW q \in Processes PROVE Ready(q)'  BY DEF TreesAreReady
 <2>1. Ready(q) /\ (Working(q) => job[q].pack \in Packs)  BY DEF CatalogHolds, TreesAreReady, Ready
 <2>2. CASE q = p  BY <1>2, <1>3, <1>5, <2>2, NothingIsTyped DEF Ready, Staged
 <2>3. CASE q # p  BY <1>1, <1>2, <1>3, <2>1, <2>3, ReadyStays, IdleReady
 <2> QED  BY <2>2, <2>3
<1>8. FaultPart' /\ FaultsLeave'  BY <1>1, FaultFresh
<1> QED  BY <1>2, <1>3, <1>4, <1>6, <1>7, <1>8 DEF AvatarParts, CatalogHolds, ShelvesKeep

LEMMA RotStep ==
    ASSUME AvatarParts, CatalogHolds, NEW s \in Slots, NEW f \in Files, Rot(s, f) PROVE AvatarParts' /\ CatalogHolds'
<1>1. /\ Faulty /\ installed' = [installed EXCEPT ![s].files = installed[s].files \ {f}] /\ rotten' = rotten \cup {s}
      /\ UNCHANGED <<locked, job, tree, abandoned, rooms, promised, installs>>
  BY DEF Rot
<1>2. installed \in [Slots -> Places] /\ ShelvesHold /\ VersionsAreWhole /\ OnlySoundPacks
  BY DEF AvatarParts, ShelfPart, CatalogHolds
<1> DEFINE new == [installed[s] EXCEPT !.files = installed[s].files \ {f}]
<1>3. /\ new \in Places /\ new.pack = installed[s].pack /\ new.synced = installed[s].synced /\ new.linked = installed[s].linked
      /\ new.settled = installed[s].settled
  BY <1>2 DEF Places
<1>4. installed' = [installed EXCEPT ![s] = new]  BY <1>1
<1> HIDE DEF new
<1>5. /\ installed' \in [Slots -> Places]
      /\ \A t \in Slots : /\ installed'[t].pack = installed[t].pack
                          /\ installed'[t].synced = installed[t].synced /\ installed'[t].linked = installed[t].linked
                          /\ installed'[t].settled = installed[t].settled
                          /\ t # s => installed'[t].files = installed[t].files
  BY <1>2, <1>3, <1>4
<1>6. \A t \in Slots : Occupied(t)' <=> Occupied(t)  BY <1>5 DEF Occupied
<1>7. ShelvesHold'
  BY PacksAre, <1>1, <1>2, <1>5, <1>6 DEF AvatarParts, PromisePart, Promises, ShelvesHold
<1>8. VersionsAreWhole'  BY <1>1, <1>2, <1>5, <1>6 DEF VersionsAreWhole
<1>9. OnlySoundPacks'  BY <1>2, <1>5, <1>6 DEF OnlySoundPacks, Entries
<1>a. ShelfPart' /\ PromisePart'  BY <1>1, <1>5 DEF AvatarParts, ShelfPart, PromisePart
<1>b. LockPart' /\ JobPart' /\ TreePart' /\ OneWorks'
  BY <1>1 DEF AvatarParts, LockPart, JobPart, TreePart, CatalogHolds, OneWorks, Working
<1>c. TreesAreReady'
 <2> SUFFICES ASSUME NEW q \in Processes PROVE Ready(q)'  BY DEF TreesAreReady
 <2>1. Ready(q) /\ (Working(q) => job[q].pack \in Packs) /\ job'[q] = job[q] /\ tree'[q] = tree[q]
   BY <1>1 DEF CatalogHolds, TreesAreReady, Ready
 <2> QED  BY <1>1, <1>5, <2>1, ReadyStays, IdleReady
<1>d. FaultPart' /\ FaultsLeave'  BY <1>1, FaultFresh
<1> QED  BY <1>7, <1>8, <1>9, <1>a, <1>b, <1>c, <1>d DEF AvatarParts, CatalogHolds

\* What outlives a power loss is what was flushed; all of a version was.
LEMMA Outlives ==
    ASSUME AvatarParts, CatalogHolds, NEW s \in Slots, NEW new \in Survivors(s)
    PROVE  /\ new \in Places
           /\ new.pack # NoPack => new.pack = installed[s].pack /\ new.synced = installed[s].synced /\ new.linked = installed[s].linked
                                   /\ new.files = installed[s].files /\ new.settled /\ Occupied(s)
           /\ (Occupied(s) /\ installed[s].settled) => new.pack = installed[s].pack /\ new.settled
<1>1. installed[s] \in Places  BY JobFacts DEF AvatarParts, ShelfPart
<1>2. Occupied(s) => installed[s].synced = Files /\ installed[s].linked /\ rooms[s] = "durable"
  BY DEF CatalogHolds, ShelvesHold
<1>3. CASE ~Occupied(s)  BY <1>3, <1>1 DEF Survivors, Occupied
<1>4. CASE Occupied(s) /\ new = InPlace(NoTree, TRUE) /\ ~installed[s].settled
  BY <1>4, NothingIsTyped
<1>5. CASE Occupied(s) /\ new = [installed[s] EXCEPT !.files = installed[s].synced \cap installed[s].files, !.settled = TRUE]
  BY <1>1, <1>2, <1>5 DEF Places
<1> QED  BY <1>2, <1>3, <1>4, <1>5 DEF Survivors

LEMMA PowerStep == ASSUME AvatarParts, CatalogHolds, PowerLoss PROVE AvatarParts' /\ CatalogHolds'
<1>1. /\ Faulty /\ job' = [p \in Processes |-> Closed] /\ locked' = {} /\ tree' = [p \in Processes |-> NoTree]
      /\ abandoned' \subseteq abandoned \cup {"fresh"} /\ \A s \in Slots : installed'[s] \in Survivors(s)
      /\ rooms' = [s \in Slots |-> IF rooms[s] = "made" /\ installed'[s].pack = NoPack THEN "absent"
                                   ELSE IF rooms[s] = "made" THEN "durable" ELSE rooms[s]]
      /\ promised' = {a \in promised : a.durable} /\ UNCHANGED <<rotten, installs>>
  BY DEF PowerLoss
<1>2. installed' \in [Slots -> Places]  BY <1>1, Outlives DEF PowerLoss
<1>3. \A s \in Slots :
        /\ installed'[s].pack # NoPack => installed'[s].pack = installed[s].pack /\ installed'[s].synced = installed[s].synced
              /\ installed'[s].linked = installed[s].linked
              /\ installed'[s].files = installed[s].files /\ installed'[s].settled /\ Occupied(s)
        /\ (Occupied(s) /\ installed[s].settled) => installed'[s].pack = installed[s].pack /\ installed'[s].settled
  BY <1>1, Outlives
<1>4. rooms \in [Slots -> {"absent", "made", "durable"}] /\ ShelvesHold /\ VersionsAreWhole /\ OnlySoundPacks
  BY DEF AvatarParts, ShelfPart, CatalogHolds
<1>5. rooms' \in [Slots -> {"absent", "made", "durable"}] /\ \A s \in Slots : rooms[s] = "durable" => rooms'[s] = "durable"
  BY <1>1, <1>4
<1>6. \A s \in Slots : Occupied(s)' => Occupied(s)  BY <1>3 DEF Occupied
<1>7. ShelvesHold'
 <2>1. \A s \in Slots : Occupied(s)' =>
            installed'[s].pack.slot = s /\ installed'[s].synced = Files /\ installed'[s].linked /\ rooms'[s] = "durable"
   BY <1>3, <1>4, <1>5, <1>6 DEF ShelvesHold, Occupied
 <2>2. \A s, t \in Slots : s # t /\ Occupied(s)' /\ Occupied(t)' => installed'[s].pack.asset # installed'[t].pack.asset
   BY <1>3, <1>4, <1>6 DEF ShelvesHold, Occupied
 <2>3. \A a \in promised' : installed'[a.pack.slot].pack = a.pack /\ (a.durable => installed'[a.pack.slot].settled)
  <3> TAKE a \in promised'
  <3>1. a \in promised /\ a.durable  BY <1>1
  <3>2. a.pack \in Packs /\ a.pack.slot \in Slots
    BY <3>1, PacksAre DEF AvatarParts, PromisePart, Promises
  <3>3. installed[a.pack.slot].pack = a.pack /\ installed[a.pack.slot].settled
    BY <1>4, <3>1 DEF ShelvesHold
  <3>4. Occupied(a.pack.slot)  BY <3>2, <3>3, PacksAre DEF Occupied
  <3> QED  BY <1>3, <3>2, <3>3, <3>4
 <2> QED  BY <2>1, <2>2, <2>3 DEF ShelvesHold
<1>8. VersionsAreWhole'  BY <1>1, <1>3, <1>4, <1>6 DEF VersionsAreWhole, Occupied
<1>9. OnlySoundPacks'  BY <1>4, <1>3, <1>6 DEF OnlySoundPacks, Entries, Occupied
<1>a. ShelfPart' /\ PromisePart'  BY <1>1, <1>2, <1>5 DEF AvatarParts, ShelfPart, PromisePart
<1>b. LockPart' /\ JobPart' /\ TreePart'  BY <1>1, NothingIsTyped DEF LockPart, JobPart, TreePart
<1>c. \A p \in Processes : job'[p] = Closed /\ tree'[p] = NoTree  BY <1>1
<1>d. OneWorks' /\ TreesAreReady'
  BY <1>1, <1>c, NothingIsTyped DEF OneWorks, TreesAreReady, Ready, Working, Staged
<1>e. FaultPart' /\ FaultsLeave'  BY <1>1, FaultFresh
<1> QED  BY <1>7, <1>8, <1>9, <1>a, <1>b, <1>d, <1>e DEF AvatarParts, CatalogHolds

LEMMA DayStep ==
    ASSUME AvatarParts, CatalogHolds, Day \/ UNCHANGED avatarVars PROVE AvatarParts' /\ CatalogHolds'
<1>1. /\ UNCHANGED <<locked, job, tree, rooms, installed, promised, rotten, faults, installs>>
      /\ abandoned' \subseteq {"fresh", "old"} /\ (abandoned' = abandoned \/ abandoned # {})
  BY DEF Day, avatarVars, AvatarParts, FaultPart
<1>2. AvatarParts'
  BY <1>1 DEF AvatarParts, LockPart, JobPart, TreePart, ShelfPart, PromisePart, FaultPart
<1>3. OneWorks' /\ FaultsLeave'  BY <1>1 DEF CatalogHolds, OneWorks, Working, FaultsLeave
<1>4. ShelvesHold' /\ VersionsAreWhole' /\ OnlySoundPacks'
  BY <1>1 DEF CatalogHolds, ShelvesHold, VersionsAreWhole, OnlySoundPacks, Occupied, Entries
<1>5. TreesAreReady'
  BY <1>1 DEF CatalogHolds, TreesAreReady, Ready, Working, Vacant, Occupied, Entries
<1> QED  BY <1>2, <1>3, <1>4, <1>5 DEF CatalogHolds

\* Every step of the catalog's keeps what it promises.
LEMMA CatalogStep == AvatarParts /\ CatalogHolds /\ [AvatarNext]_avatarVars => AvatarParts' /\ CatalogHolds'
BY DayStep, PowerStep, RotStep, DieStep, InstallBegins, OpenCatalogStep, ValidateStep, WriteStep, SealStep, DecideStep,
   VerifyTreeStep, PromoteStep, ConfirmStep, ReconcileStep, CleanUpStep
DEF AvatarNext, InstallStep

-----------------------------------------------------------------------------
(* The project packages and the list of the recent ones *)

LEMMA LeastOf ==
    ASSUME NEW S, S \subseteq Nat, S # {}
    PROVE  \E d \in S : \A e \in S : d <= e
<1>1. PICK d \in S : \A e \in S : ~(<<e, d>> \in OpToRel(<, Nat))  BY NatLessThanWellFounded, WFMin
<1>2. ASSUME NEW e \in S PROVE d <= e
 <2>1. <<e, d>> \in Nat \X Nat  OBVIOUS
 <2>2. ~(e < d)  BY <1>1, <2>1 DEF OpToRel
 <2> QED  BY <2>2
<1> QED  BY <1>2

\* A set of places in a list can be gone through in its order.
InOrder(f, kept) ==
    /\ \A i, j \in DOMAIN f : i < j => f[i] < f[j]
    /\ \A n \in kept : \E i \in DOMAIN f : f[i] = n

LEMMA Enumerated ==
    ASSUME NEW last \in Nat, NEW kept, kept \subseteq 1 .. last
    PROVE  \E n \in 0 .. last : \E f \in [1 .. n -> kept] : InOrder(f, kept)
<1> DEFINE Part(m) == {n \in kept : n <= m}
           Done(m) == \E n \in 0 .. m : \E f \in [1 .. n -> Part(m)] : InOrder(f, Part(m))
           Missed == {m \in 0 .. last : ~Done(m)}
<1>1. Done(0)
 <2>1. Part(0) = {}
  <3>1. \A n \in kept : ~(n <= 0)  OBVIOUS
  <3> QED  BY <3>1
 <2> DEFINE f == [i \in 1 .. 0 |-> 0]
 <2>2. 1 .. 0 = {} /\ 0 \in 0 .. 0  OBVIOUS
 <2>3. f \in [1 .. 0 -> Part(0)] /\ DOMAIN f = {}  BY <2>2
 <2> HIDE DEF f, Part
 <2>4. InOrder(f, Part(0))  BY <2>1, <2>3 DEF InOrder
 <2> QED  BY <2>2, <2>3, <2>4
<1>2. ASSUME NEW m \in 1 .. last, Done(m - 1) PROVE Done(m)
 <2>1. PICK n \in 0 .. m - 1 : \E f \in [1 .. n -> Part(m - 1)] : InOrder(f, Part(m - 1))  BY <1>2
 <2>2. PICK f \in [1 .. n -> Part(m - 1)] : InOrder(f, Part(m - 1))  BY <2>1
 <2>3. /\ n \in Nat /\ n <= m - 1 /\ DOMAIN f = 1 .. n /\ n \in 0 .. m /\ n + 1 \in 0 .. m
       /\ \A i \in 1 .. n : f[i] \in kept /\ f[i] \in Nat /\ f[i] <= m - 1
  <3>1. n \in Nat /\ n <= m - 1 /\ n \in 0 .. m /\ n + 1 \in 0 .. m  OBVIOUS
  <3>2. \A k \in Part(m - 1) : k \in kept /\ k <= m - 1  OBVIOUS
  <3> HIDE DEF Part
  <3>3. DOMAIN f = 1 .. n /\ \A i \in 1 .. n : f[i] \in Part(m - 1)  BY <2>2
  <3>4. \A k \in kept : k \in Nat  OBVIOUS
  <3> QED  BY <3>1, <3>2, <3>3, <3>4
 <2>4. CASE m \notin kept
  <3>1. Part(m) = Part(m - 1)
   <4>1. \A k \in Part(m) : k \in Part(m - 1)  BY <2>4
   <4>2. \A k \in Part(m - 1) : k \in Part(m)  OBVIOUS
   <4> QED  BY <4>1, <4>2
  <3> HIDE DEF Part
  <3> QED  BY <2>2, <2>3, <3>1
 <2>5. CASE m \in kept
  <3> DEFINE g == [i \in 1 .. n + 1 |-> IF i = n + 1 THEN m ELSE f[i]]
  <3>1. \A k \in Part(m) : k = m \/ k \in Part(m - 1)  OBVIOUS
  <3>2. \A i \in 1 .. n : f[i] \in Part(m)  BY <2>3
  <3>3. m \in Part(m)  BY <2>5
  <3>4. DOMAIN g = 1 .. n + 1 /\ g[n + 1] = m /\ \A i \in 1 .. n : g[i] = f[i]  BY <2>3
  <3>5. g \in [1 .. n + 1 -> Part(m)]
   <4> HIDE DEF Part
   <4> QED  BY <2>3, <3>2, <3>3
  <3>6. \A i, j \in DOMAIN g : i < j => g[i] < g[j]
   <4> SUFFICES ASSUME NEW i \in 1 .. n + 1, NEW j \in 1 .. n + 1, i < j PROVE g[i] < g[j]  BY <3>4
   <4> HIDE DEF g, Part
   <4>1. i \in 1 .. n /\ g[i] = f[i]  BY <2>3, <3>4
   <4>2. CASE j = n + 1  BY <2>3, <3>4, <4>1, <4>2
   <4>3. CASE j # n + 1  BY <2>3, <4>3, <2>2, <3>4, <4>1 DEF InOrder
   <4> QED  BY <4>2, <4>3
  <3>7. \A k \in Part(m) : \E i \in DOMAIN g : g[i] = k
   <4> TAKE k \in Part(m)
   <4> HIDE DEF g, Part
   <4>1. CASE k = m  BY <2>3, <3>4, <4>1
   <4>2. CASE k \in Part(m - 1)
    <5>1. PICK i \in 1 .. n : f[i] = k  BY <2>2, <2>3, <4>2 DEF InOrder
    <5>2. i \in 1 .. n + 1  BY <2>3
    <5> QED  BY <3>4, <5>1, <5>2
   <4> QED  BY <3>1, <4>1, <4>2
  <3> HIDE DEF g, Part
  <3>8. InOrder(g, Part(m))  BY <3>6, <3>7 DEF InOrder
  <3> QED  BY <2>3, <3>5, <3>8
 <2> QED  BY <2>4, <2>5
<1> HIDE DEF Done
<1>3. Missed = {}
 <2> SUFFICES ASSUME Missed # {} PROVE FALSE  OBVIOUS
 <2>1. Missed \subseteq Nat  OBVIOUS
 <2> HIDE DEF Missed
 <2>2. PICK m \in Missed : \A e \in Missed : m <= e  BY <2>1, LeastOf
 <2>3. m \in 0 .. last /\ ~Done(m)  BY <2>2 DEF Missed
 <2>4. m # 0 /\ m \in 1 .. last  BY <1>1, <2>3
 <2>5. m - 1 \in 0 .. last /\ ~(m <= m - 1)  BY <2>4
 <2>6. Done(m - 1)  BY <2>2, <2>5 DEF Missed
 <2> QED  BY <1>2, <2>3, <2>4, <2>6
<1>4. Done(last)  BY <1>3
<1>5. Part(last) = kept
 <2>1. \A n \in kept : n <= last  OBVIOUS
 <2> QED  BY <2>1
<1> HIDE DEF Part, Missed
<1> QED  BY <1>4, <1>5 DEF Done

\* The rows of some paths are such rows, each as often as before.
LEMMA RowsAre ==
    ASSUME NEW S, NEW rows \in Seq(S), NEW some
    PROVE  /\ RowsOf(rows, some) \in Seq(some)
           /\ IsInjective(rows) => IsInjective(RowsOf(rows, some))
<1> DEFINE kept == {n \in 1 .. Len(rows) : rows[n] \in some}
           orders == UNION {[1 .. n -> kept] : n \in 0 .. Len(rows)}
           order == CHOOSE f \in orders :
                      /\ \A i, j \in DOMAIN f : i < j => f[i] < f[j]
                      /\ \A n \in kept : \E i \in DOMAIN f : f[i] = n
<1>1. Len(rows) \in Nat /\ kept \subseteq 1 .. Len(rows) /\ \A n \in kept : rows[n] \in some /\ n \in 1 .. Len(rows)
  OBVIOUS
<1>2. RowsOf(rows, some) = [i \in DOMAIN order |-> rows[order[i]]]  BY DEF RowsOf
<1> HIDE DEF kept
<1>3. PICK n \in 0 .. Len(rows) : \E f \in [1 .. n -> kept] : InOrder(f, kept)  BY <1>1, Enumerated
<1>4. \E f \in orders : /\ \A i, j \in DOMAIN f : i < j => f[i] < f[j]
                        /\ \A k \in kept : \E i \in DOMAIN f : f[i] = k
  BY <1>3 DEF InOrder
<1>5. order \in orders /\ \A i, j \in DOMAIN order : i < j => order[i] < order[j]  BY <1>4
<1> HIDE DEF order
<1>6. PICK last \in 0 .. Len(rows) : order \in [1 .. last -> kept]  BY <1>5
<1>7. last \in Nat /\ DOMAIN order = 1 .. last /\ \A i \in 1 .. last : order[i] \in kept
  BY <1>1, <1>6
<1> DEFINE r == RowsOf(rows, some)
<1>8. r = [i \in 1 .. last |-> rows[order[i]]]  BY <1>2, <1>7
<1>9. \A i \in 1 .. last : rows[order[i]] \in some  BY <1>1, <1>7
<1>a. r \in Seq(some) /\ DOMAIN r = 1 .. last /\ \A i \in 1 .. last : r[i] = rows[order[i]]
  BY <1>7, <1>8, <1>9
<1> HIDE DEF r
<1>b. ASSUME IsInjective(rows) PROVE IsInjective(r)
 <2> SUFFICES ASSUME NEW i \in 1 .. last, NEW j \in 1 .. last, r[i] = r[j] PROVE i = j
   BY <1>a DEF IsInjective
 <2>1. order[i] \in 1 .. Len(rows) /\ order[j] \in 1 .. Len(rows) /\ rows[order[i]] = rows[order[j]]
   BY <1>1, <1>7, <1>a
 <2>2. order[i] = order[j]  BY <1>b, <2>1 DEF IsInjective
 <2>3. order[i] \in Nat /\ ~(i < j) /\ ~(j < i)  BY <1>5, <1>7, <2>1, <2>2
 <2> QED  BY <2>3
<1> QED  BY <1>a, <1>b DEF r

\* The list with a project at its head.
LEMMA RememberedIs ==
    ASSUME NEW rows \in Seq(Paths), NEW path \in Paths, IsInjective(rows)
    PROVE  Remembered(rows, path) \in Seq(Paths) /\ Len(Remembered(rows, path)) <= RecentLimit
           /\ IsInjective(Remembered(rows, path))
<1> DEFINE others == RowsOf(rows, Paths \ {path})
           all == <<path>> \o others
           size == IF Len(others) < RecentLimit THEN Len(others) + 1 ELSE RecentLimit
<1>1. others \in Seq(Paths \ {path}) /\ IsInjective(others)  BY RowsAre
<1>2. RecentLimit \in Nat \ {0}  BY PackageAssumption DEF PackageAssumption
<1>3. Remembered(rows, path) = SubSeq(all, 1, size)  BY DEF Remembered
<1> HIDE DEF others
<1>4. Len(others) \in Nat /\ \A n \in 1 .. Len(others) : others[n] \in Paths /\ others[n] # path
  BY <1>1
<1>5. /\ all \in Seq(Paths) /\ Len(all) = Len(others) + 1 /\ all[1] = path
      /\ \A n \in 1 .. Len(others) : all[n + 1] = others[n]
 <2>1. <<path>> \in Seq(Paths) /\ others \in Seq(Paths) /\ Len(<<path>>) = 1 /\ <<path>>[1] = path
   BY <1>1, <1>4
 <2>2. all \in Seq(Paths) /\ Len(all) = Len(<<path>>) + Len(others)  BY <2>1
 <2>3. \A n \in 1 .. Len(<<path>>) + Len(others) :
         all[n] = IF n <= Len(<<path>>) THEN <<path>>[n] ELSE others[n - Len(<<path>>)]
   BY <2>1
 <2>4. all[1] = path  BY <1>4, <2>1, <2>3
 <2>5. ASSUME NEW n \in 1 .. Len(others) PROVE all[n + 1] = others[n]  BY <1>4, <2>1, <2>3
 <2> QED  BY <1>4, <2>1, <2>2, <2>4, <2>5
<1>6. size \in Nat /\ 1 <= size /\ size <= RecentLimit /\ size <= Len(others) + 1  BY <1>2, <1>4
<1> HIDE DEF all, size
<1>7. /\ SubSeq(all, 1, size) \in Seq(Paths) /\ Len(SubSeq(all, 1, size)) = size
      /\ \A n \in 1 .. size : SubSeq(all, 1, size)[n] = all[n]
  BY <1>4, <1>5, <1>6, SubSeqProperties
<1>8. ASSUME NEW i \in 1 .. size, NEW j \in 1 .. size, all[i] = all[j] PROVE i = j
 <2>1. \A n \in 1 .. size : n = 1 \/ (n - 1 \in 1 .. Len(others) /\ all[n] = others[n - 1])
  <3> TAKE n \in 1 .. size
  <3>1. n = 1 \/ (n - 1 \in 1 .. Len(others) /\ (n - 1) + 1 = n)  BY <1>4, <1>6
  <3> QED  BY <1>5, <3>1
 <2>2. CASE i = 1 \/ j = 1  BY <1>4, <1>5, <1>8, <2>1, <2>2
 <2>3. CASE i # 1 /\ j # 1
  <3>1. i - 1 \in 1 .. Len(others) /\ j - 1 \in 1 .. Len(others) /\ others[i - 1] = others[j - 1]
    BY <1>8, <2>1, <2>3
  <3>2. DOMAIN others = 1 .. Len(others)  BY <1>1
  <3>3. i - 1 = j - 1  BY <1>1, <3>1, <3>2 DEF IsInjective
  <3> QED  BY <1>6, <3>3
 <2> QED  BY <2>2, <2>3
<1>9. IsInjective(SubSeq(all, 1, size))  BY <1>7, <1>8 DEF IsInjective
<1> QED  BY <1>3, <1>6, <1>7, <1>9

Works == [step : WorkSteps, path : Paths \cup {"none"}, rest : Seq(Paths), keep : BOOLEAN, lease : Nat,
          schema : 0 .. Latest, seen : Seq(Paths), raced : BOOLEAN,
          answer : {"none", "exists", "failed", "unfit", "opened", "scanned"}]
Lists == [rows : Seq(Paths), good : BOOLEAN]

PlacePart == place \in [Paths -> Databases]
StagingPart == staging \in [Workers -> Databases]
WorkPart == work \in [Workers -> Works]
ListPart == recents \in Lists
TroublePart == litter \in BOOLEAN /\ trouble \in 0 .. MaxTrouble /\ calls \in 0 .. MaxCalls
PackageParts == PlacePart /\ StagingPart /\ WorkPart /\ ListPart /\ TroublePart

LEMMA PackageTypesAre == (PackageTypeOK <=> PackageParts) /\ (PackageTypeOK' <=> PackageParts')
BY DEF PackageTypeOK, PackageParts, PlacePart, StagingPart, WorkPart, ListPart, TroublePart, Works, Lists

\* What is at a path, and what a worker does, one at a time.
DbFits(db, p) ==
    /\ db.flaw \in {"none", "foreign"} => Consistent(db)
    /\ db.flaw = "none" => db.project
    /\ db.flaw = "absent" => db = NoPackage
    /\ db.flaw = "newer" => db.schema > Latest
    /\ db.flaw = "rows" => db.rows # db.schema
    /\ db.flaw \notin {"none", "foreign"} => db \in Found[p] \cup {NoPackage}

LeaseSince(j) == j.step \in {"version", "migrate", "identify", "remember", "note"}
VersionSince(j) == j.step \in {"migrate", "identify", "remember", "note"}
WorkFits(j, db, upset, staged) ==
    /\ j.step # "idle" \/ j.answer # "none" => j.path \in Paths
    /\ j.step # "idle" => j.answer = "none"
    /\ Len(j.seen) <= RecentLimit /\ IsInjective(j.seen)
    /\ staged # NoPackage => j.step \in {"database", "publish"}
    /\ j.step \in {"database", "publish"} => staged.flaw = "none" /\ Consistent(staged)
    /\ j.step = "publish" => staged.schema = Latest /\ staged.project
    /\ LeaseSince(j) =>
         db.flaw \notin {"absent", "manifest", "database"} /\ j.lease <= db.file /\ (j.lease = db.file \/ upset > 0)
    /\ VersionSince(j) => db.flaw \in {"none", "foreign"}
    /\ VersionSince(j) /\ j.lease = db.file => j.schema <= db.schema /\ (j.schema < db.schema => j.raced)
    /\ j.step \in {"identify", "remember", "note"} => j.schema = Latest
    /\ j.step \in {"remember", "note"} /\ j.lease = db.file => db.schema = Latest /\ db.project
    /\ j.answer = "failed" => upset > 0 \/ j.raced \/ db.flaw \in {"newer", "rows", "foreign"}

PlacesFit == \A p \in Paths : DbFits(place[p], p)
WorkersFit == \A w \in Workers : WorkFits(work[w], place[work[w].path], trouble, staging[w])
LitterFits == litter => trouble > 0
PackagesHold == PlacesFit /\ WorkersFit /\ LitterFits /\ RecentsAreTidy

LEMMA PackageInvIs == (PackageInv <=> PackagesHold) /\ (PackageInv' <=> PackagesHold')
<1>1. PackagesAreWhole /\ StrangersAreLeftAlone /\ FlawsStay <=> PlacesFit
  BY DEF PackagesAreWhole, StrangersAreLeftAlone, FlawsStay, PlacesFit, DbFits
<1>2. PackagesAreWhole' /\ StrangersAreLeftAlone' /\ FlawsStay' <=> PlacesFit'
  BY DEF PackagesAreWhole, StrangersAreLeftAlone, FlawsStay, PlacesFit, DbFits
<1>3. OpenedIsCurrent /\ StagingIsRemoved /\ OpenFailsForAReason /\ StagingIsAhead /\ LeasesAgree <=> WorkersFit /\ LitterFits
  BY DEF OpenedIsCurrent, StagingIsRemoved, OpenFailsForAReason, StagingIsAhead, LeasesAgree,
   WorkersFit, LitterFits, WorkFits, LeaseSince, VersionSince, HasLease, Path
<1>4. OpenedIsCurrent' /\ StagingIsRemoved' /\ OpenFailsForAReason' /\ StagingIsAhead' /\ LeasesAgree' <=> WorkersFit' /\ LitterFits'
  BY DEF OpenedIsCurrent, StagingIsRemoved, OpenFailsForAReason, StagingIsAhead, LeasesAgree,
   WorkersFit, LitterFits, WorkFits, LeaseSince, VersionSince, HasLease, Path
<1> QED  BY <1>1, <1>2, <1>3, <1>4 DEF PackageInv, PackagesHold

LEMMA PackageNumbers == Latest \in Nat /\ Latest >= 1 /\ RecentLimit \in Nat /\ RecentLimit >= 1 /\ MaxCalls \in Nat /\ MaxTrouble \in Nat
BY PackageAssumption DEF PackageAssumption

LEMMA NothingFits ==
    /\ NoPackage \in Databases /\ NoPackage.flaw = "absent" /\ NoPackage.settled
    /\ \A p \in Paths : DbFits(NoPackage, p)
    /\ NoJob \in Works /\ NoJob.step = "idle" /\ NoJob.answer = "none"
    /\ \A db, upset : WorkFits(NoJob, db, upset, NoPackage)
  BY PackageNumbers DEF NoPackage, Package, Databases, Flaws, DbFits, WorkSteps, NoJob, Works,
    IsInjective, WorkFits, LeaseSince, VersionSince

LEMMA PackagesInit == PackageInit => PackageParts /\ PackagesHold
<1> SUFFICES ASSUME PackageInit PROVE PackageParts /\ PackagesHold  OBVIOUS
<1>1. /\ \E D : place \in [Paths -> D]
      /\ \A p \in Paths : place[p] \in Found[p]
      /\ staging = [w \in Workers |-> NoPackage] /\ litter = FALSE /\ work = [w \in Workers |-> NoJob]
      /\ recents = [rows |-> <<>>, good |-> TRUE] /\ calls = 0 /\ trouble = 0
  BY DEF PackageInit
<1>2. \A p \in Paths : place[p] \in Databases /\ DbFits(place[p], p)
  BY <1>1, FoundAssumption DEF FoundAssumption, DbFits
<1>3. PlacePart /\ StagingPart /\ WorkPart
  BY <1>1, <1>2, NothingFits DEF PlacePart, StagingPart, WorkPart
<1>4. ListPart /\ TroublePart
 <2>1. <<>> \in Seq(Paths)  BY EmptySeq
 <2>2. ListPart  BY <1>1, <2>1 DEF ListPart, Lists
 <2>3. 0 \in 0 .. MaxTrouble /\ 0 \in 0 .. MaxCalls  BY PackageNumbers
 <2>4. TroublePart  BY <1>1, <2>3 DEF TroublePart
 <2> QED  BY <2>2, <2>4
<1>5. PlacesFit /\ WorkersFit /\ LitterFits
  BY <1>1, <1>2, NothingFits DEF PlacesFit, WorkersFit, LitterFits
<1>6. RecentsAreTidy  BY <1>1, PackageNumbers DEF RecentsAreTidy, IsInjective
<1> QED  BY <1>3, <1>4, <1>5, <1>6 DEF PackageParts, PackagesHold

\* What a worker relies on is not disturbed by trouble, or by what happens elsewhere.
LEMMA WorkStays ==
    ASSUME NEW j, NEW db, NEW new, NEW upset \in Nat, NEW later \in Nat, NEW staged,
           WorkFits(j, db, upset, staged), j.path \in Paths => new = db, later >= upset
    PROVE  WorkFits(j, new, later, staged)
<1>1. CASE j.path \in Paths
 <2>1. new = db  BY <1>1
 <2> QED  BY <2>1 DEF WorkFits
<1>2. CASE j.path \notin Paths  BY <1>2 DEF WorkFits, LeaseSince, VersionSince
<1> QED  BY <1>1, <1>2

LEMMA WorkFacts ==
    ASSUME PackageParts, PackagesHold, NEW w \in Workers
    PROVE  /\ work[w] \in Works /\ staging[w] \in Databases /\ trouble \in Nat /\ calls \in Nat
           /\ work[w].path \in Paths \cup {"none"} /\ work[w].rest \in Seq(Paths) /\ work[w].seen \in Seq(Paths)
           /\ work[w].lease \in Nat /\ work[w].schema \in Nat /\ work[w].schema <= Latest /\ work[w].raced \in BOOLEAN
           /\ WorkFits(work[w], place[work[w].path], trouble, staging[w])
           /\ work[w].step # "idle" => work[w].path \in Paths /\ work[w].answer = "none"
           /\ \A p \in Paths : /\ place[p] \in Databases /\ DbFits(place[p], p)
                               /\ place[p].schema \in Nat /\ place[p].file \in Nat /\ place[p].rows \in Nat
<1>1. work[w] \in Works /\ staging[w] \in Databases /\ \A p \in Paths : place[p] \in Databases
  BY DEF PackageParts, WorkPart, StagingPart, PlacePart
<1>2. trouble \in Nat /\ calls \in Nat  BY DEF PackageParts, TroublePart
<1>3. /\ work[w].path \in Paths \cup {"none"} /\ work[w].rest \in Seq(Paths) /\ work[w].seen \in Seq(Paths)
      /\ work[w].lease \in Nat /\ work[w].schema \in 0 .. Latest /\ work[w].raced \in BOOLEAN
  BY <1>1 DEF Works
<1>4. work[w].schema \in Nat /\ work[w].schema <= Latest  BY <1>3, PackageNumbers
<1>5. WorkFits(work[w], place[work[w].path], trouble, staging[w]) /\ \A p \in Paths : DbFits(place[p], p)
  BY DEF PackagesHold, WorkersFit, PlacesFit
<1>6. work[w].step # "idle" => work[w].path \in Paths /\ work[w].answer = "none"
  BY <1>5 DEF WorkFits
<1>7. \A p \in Paths : place[p].schema \in Nat /\ place[p].file \in Nat /\ place[p].rows \in Nat
  BY <1>1 DEF Databases
<1> QED  BY <1>1, <1>2, <1>3, <1>4, <1>5, <1>6, <1>7

\* The end of a job: the next of a scan begins, or the worker is idle again.
LEMMA FinishFits ==
    ASSUME PackageParts, PackagesHold, NEW w \in Workers, work[w].step # "idle", NEW a \in {"exists", "failed", "unfit", "opened", "scanned"},
           Finish(w, a), UNCHANGED place, trouble' \in Nat, trouble' >= trouble,
           a = "failed" => trouble' > 0 \/ work[w].raced \/ place[work[w].path].flaw \in {"newer", "rows", "foreign"}
    PROVE  /\ WorkPart' /\ WorkFits(work'[w], place'[work'[w].path], trouble', NoPackage)
           /\ \A v \in Workers : v # w => work'[v] = work[v]
<1>1. /\ work[w] \in Works /\ work[w].path \in Paths /\ work[w].answer = "none" /\ work[w].rest \in Seq(Paths)
      /\ work[w].seen \in Seq(Paths) /\ Len(work[w].seen) <= RecentLimit /\ IsInjective(work[w].seen) /\ work[w].raced \in BOOLEAN
  BY WorkFacts DEF WorkFits
<1> DEFINE j == work[w]
           next == [j EXCEPT !.step = "open", !.path = Head(j.rest), !.rest = Tail(j.rest)]
           done == [NoJob EXCEPT !.answer = a, !.path = j.path, !.raced = j.raced]
<1>2. CASE j.rest # <<>>
 <2>1. work' = [work EXCEPT ![w] = next]  BY <1>2 DEF Finish
 <2>2. Head(j.rest) \in Paths /\ Tail(j.rest) \in Seq(Paths) /\ "open" \in WorkSteps
   BY <1>1, <1>2, HeadTailProperties DEF WorkSteps
 <2>3. /\ next \in Works /\ next.step = "open" /\ next.path = Head(j.rest) /\ next.answer = "none" /\ next.seen = j.seen
   BY <1>1, <2>2 DEF Works
 <2> HIDE DEF next
 <2>4. WorkPart' /\ work'[w] = next /\ \A v \in Workers : v # w => work'[v] = work[v]
   BY <2>1, <2>3 DEF PackageParts, WorkPart
 <2>5. WorkFits(next, place'[next.path], trouble', NoPackage)
   BY <1>1, <2>2, <2>3 DEF WorkFits, LeaseSince, VersionSince
 <2> QED  BY <2>4, <2>5
<1>3. CASE j.rest = <<>>
 <2>1. work' = [work EXCEPT ![w] = done]  BY <1>3 DEF Finish
 <2>2. /\ done.step = "idle" /\ done.path = j.path /\ done.answer = a /\ done.seen = <<>> /\ done.raced = j.raced /\ done \in Works
   BY NothingFits, <1>1 DEF NoJob, Works
 <2>3. Len(<<>>) = 0 /\ IsInjective(<<>>)  BY DEF IsInjective
 <2> HIDE DEF done
 <2>4. WorkPart' /\ work'[w] = done /\ \A v \in Workers : v # w => work'[v] = work[v]
   BY <2>1, <2>2 DEF PackageParts, WorkPart
 <2>5. WorkFits(done, place'[done.path], trouble', NoPackage)
   BY <1>1, <2>2, <2>3, PackageNumbers DEF WorkFits, LeaseSince, VersionSince
 <2> QED  BY <2>4, <2>5
<1> QED  BY <1>2, <1>3

\* A step of one worker disturbs neither the packages nor the other workers.
LEMMA WorkerAlone ==
    ASSUME PackageParts, PackagesHold, NEW w \in Workers, NEW staged \in Databases,
           UNCHANGED place, staging' = [staging EXCEPT ![w] = staged], WorkPart', trouble' \in Nat, trouble' >= trouble,
           \A v \in Workers : v # w => work'[v] = work[v],
           WorkFits(work'[w], place'[work'[w].path], trouble', staged)
    PROVE  PlacePart' /\ StagingPart' /\ WorkPart' /\ PlacesFit' /\ WorkersFit'
<1>1. PlacePart' /\ PlacesFit'  BY DEF PackageParts, PackagesHold, PlacePart, PlacesFit
<1>2. StagingPart' /\ staging'[w] = staged /\ \A v \in Workers : v # w => staging'[v] = staging[v]
  BY DEF PackageParts, StagingPart
<1>3. ASSUME NEW v \in Workers PROVE WorkFits(work'[v], place'[work'[v].path], trouble', staging'[v])
  BY <1>2, WorkFacts, WorkStays
<1>4. WorkersFit'  BY <1>3 DEF WorkersFit
<1> QED  BY <1>1, <1>2, <1>4

LEMMA SameStaging ==
    ASSUME PackageParts, NEW w \in Workers, UNCHANGED staging
    PROVE  staging' = [staging EXCEPT ![w] = staging[w]]
BY DEF PackageParts, StagingPart

LEMMA ListStays ==
    ASSUME PackageParts, PackagesHold, UNCHANGED recents
    PROVE  ListPart' /\ RecentsAreTidy'
BY DEF PackageParts, PackagesHold, ListPart, RecentsAreTidy

\* Counters and litter after a step without trouble, and after one with it.
LEMMA Smooth0 ==
    ASSUME PackageParts, PackagesHold, Smoothly, UNCHANGED <<litter, calls>>
    PROVE  TroublePart' /\ LitterFits' /\ trouble' \in Nat /\ trouble' = trouble
BY WorkFacts, PackageNumbers DEF PackageParts, PackagesHold, TroublePart, LitterFits, Smoothly

LEMMA Troubled ==
    ASSUME PackageParts, PackagesHold, Trouble, litter' \in BOOLEAN, UNCHANGED calls
    PROVE  TroublePart' /\ LitterFits' /\ trouble' \in Nat /\ trouble' >= trouble /\ trouble' > 0 /\ trouble \in Nat
  BY PackageNumbers DEF PackageParts, TroublePart, Trouble, LitterFits

LEMMA Called ==
    ASSUME PackageParts, PackagesHold, calls < MaxCalls, calls' = calls + 1, UNCHANGED <<litter, trouble>>
    PROVE  TroublePart' /\ LitterFits' /\ trouble' \in Nat /\ trouble' >= trouble
  BY PackageNumbers DEF PackageParts, TroublePart, LitterFits, PackagesHold

\* The jobs a worker can be given.
LEMMA JobBegins ==
    ASSUME NEW j \in Works, j.path \in Paths, j.step \in {"stage", "open", "idle"}, j.answer \in {"none", "exists"},
           j.step # "idle" => j.answer = "none", j.seen = <<>>, NEW db, NEW upset
    PROVE  WorkFits(j, db, upset, NoPackage)
  BY PackageNumbers DEF IsInjective, WorkFits, LeaseSince, VersionSince

\* A worker begins a job.
LEMMA JobGiven ==
    ASSUME PackageParts, PackagesHold, NEW w \in Workers, work[w].step = "idle", calls < MaxCalls, calls' = calls + 1,
           UNCHANGED <<place, staging, litter, recents, trouble>>,
           NEW j \in Works, work' = [work EXCEPT ![w] = j],
           WorkFits(j, place[j.path], trouble, NoPackage)
    PROVE  PackageParts' /\ PackagesHold'
<1>1. TroublePart' /\ LitterFits' /\ trouble' \in Nat /\ trouble' >= trouble  BY Called
<1>2. staging[w] = NoPackage /\ staging' = [staging EXCEPT ![w] = NoPackage]  BY WorkFacts, SameStaging DEF WorkFits
<1>3. WorkPart' /\ work'[w] = j /\ \A v \in Workers : v # w => work'[v] = work[v]  BY DEF PackageParts, WorkPart
<1>4. WorkFits(work'[w], place'[work'[w].path], trouble', NoPackage)  BY <1>3
<1>5. PlacePart' /\ StagingPart' /\ WorkPart' /\ PlacesFit' /\ WorkersFit'
  BY <1>1, <1>2, <1>3, <1>4, NothingFits, WorkerAlone
<1>6. ListPart' /\ RecentsAreTidy'  BY ListStays
<1> QED  BY <1>1, <1>5, <1>6 DEF PackageParts, PackagesHold

LEMMA CreateStep ==
    ASSUME PackageParts, PackagesHold, NEW w \in Workers, NEW path \in Paths, CreateProject(w, path)
    PROVE  PackageParts' /\ PackagesHold'
<1>1. PICK step \in {"stage", "idle"}, a \in {"none", "exists"} :
          /\ step = (IF place[path] = NoPackage THEN "stage" ELSE "idle") /\ a = (IF place[path] = NoPackage THEN "none" ELSE "exists")
          /\ step # "idle" => a = "none"
  BY Zenon
<1>2. PICK j : j = [NoJob EXCEPT !.path = path, !.keep = TRUE, !.step = step, !.answer = a]  OBVIOUS
<1>3. NoJob \in Works /\ NoJob.seen = <<>> /\ step \in WorkSteps
  BY NothingFits DEF NoJob, WorkSteps
<1>4. j \in Works /\ j.path = path /\ j.step = step /\ j.answer = a /\ j.seen = <<>>
  BY <1>2, <1>3 DEF Works
<1>5. WorkFits(j, place[j.path], trouble, NoPackage)  BY <1>1, <1>4, JobBegins
<1>6. work' = [work EXCEPT ![w] = j]  BY <1>1, <1>2 DEF CreateProject
<1> QED  BY <1>4, <1>5, <1>6, JobGiven DEF CreateProject, At

LEMMA OpenProjectStep ==
    ASSUME PackageParts, PackagesHold, NEW w \in Workers, NEW path \in Paths, OpenProject(w, path)
    PROVE  PackageParts' /\ PackagesHold'
<1>1. PICK j : j = [NoJob EXCEPT !.path = path, !.keep = TRUE, !.step = "open"]  OBVIOUS
<1>2. NoJob \in Works /\ NoJob.seen = <<>> /\ NoJob.answer = "none" /\ "open" \in WorkSteps
  BY NothingFits DEF NoJob, WorkSteps
<1>3. j \in Works /\ j.path = path /\ j.step = "open" /\ j.answer = "none" /\ j.seen = <<>>
  BY <1>1, <1>2 DEF Works
<1>4. WorkFits(j, place[j.path], trouble, NoPackage)  BY <1>3, JobBegins
<1>5. work' = [work EXCEPT ![w] = j]  BY <1>1 DEF OpenProject
<1> QED  BY <1>3, <1>4, <1>5, JobGiven DEF OpenProject, At

LEMMA RefreshStep ==
    ASSUME PackageParts, PackagesHold, NEW w \in Workers, RefreshRecentProjects(w)
    PROVE  PackageParts' /\ PackagesHold'
<1>1. PICK there : /\ there = RowsOf(recents.rows, {path \in Paths : place[path] # NoPackage}) /\ there # <<>>
                   /\ work' = [work EXCEPT ![w] = [NoJob EXCEPT !.path = Head(there), !.rest = Tail(there), !.step = "open"]]
  BY DEF RefreshRecentProjects
<1>2. recents.rows \in Seq(Paths)  BY DEF PackageParts, ListPart, Lists
<1>3. there \in Seq({path \in Paths : place[path] # NoPackage})  BY <1>1, <1>2, RowsAre
<1>4. Head(there) \in Paths /\ Tail(there) \in Seq({path \in Paths : place[path] # NoPackage})
  BY <1>1, <1>3, HeadTailProperties
<1>5. Tail(there) \in Seq(Paths)  BY <1>4
<1>6. PICK path \in Paths, rest \in Seq(Paths) : path = Head(there) /\ rest = Tail(there)
  BY <1>4, <1>5
<1>7. PICK j : j = [NoJob EXCEPT !.path = path, !.rest = rest, !.step = "open"]  OBVIOUS
<1>8. NoJob \in Works /\ NoJob.seen = <<>> /\ NoJob.answer = "none" /\ "open" \in WorkSteps
  BY NothingFits DEF NoJob, WorkSteps
<1>9. j \in Works /\ j.path = path /\ j.step = "open" /\ j.answer = "none" /\ j.seen = <<>>
  BY <1>7, <1>8 DEF Works
<1>10. WorkFits(j, place[j.path], trouble, NoPackage)  BY <1>9, JobBegins
<1>11. work' = [work EXCEPT ![w] = j]  BY <1>1, <1>6, <1>7
<1> QED  BY <1>9, <1>10, <1>11, JobGiven DEF RefreshRecentProjects, At

\* The parts of the invariant but the list of recent projects.
AllButList == PlacePart /\ StagingPart /\ WorkPart /\ PlacesFit /\ WorkersFit /\ TroublePart /\ LitterFits

LEMMA AllOfThem == AllButList /\ ListPart /\ RecentsAreTidy <=> PackageParts /\ PackagesHold
BY DEF AllButList, PackageParts, PackagesHold

LEMMA AllOfThemNext == AllButList' /\ ListPart' /\ RecentsAreTidy' <=> PackageParts' /\ PackagesHold'
BY DEF AllButList, PackageParts, PackagesHold

\* One worker's job goes on.
LEMMA JobGoesOn ==
    ASSUME PackageParts, PackagesHold, NEW w \in Workers, NEW next \in Works, work' = [work EXCEPT ![w] = next],
           UNCHANGED <<place, litter, calls>>, Smoothly,
           NEW staged \in Databases, staging' = [staging EXCEPT ![w] = staged],
           WorkFits(next, place[next.path], trouble, staged)
    PROVE  AllButList'
<1>1. TroublePart' /\ LitterFits' /\ trouble' \in Nat /\ trouble' = trouble  BY Smooth0
<1>2. WorkPart' /\ work'[w] = next /\ \A v \in Workers : v # w => work'[v] = work[v]
  BY DEF PackageParts, WorkPart
<1>3. WorkFits(work'[w], place'[work'[w].path], trouble', staged) /\ trouble' >= trouble
  BY <1>1, <1>2
<1>4. PlacePart' /\ StagingPart' /\ WorkPart' /\ PlacesFit' /\ WorkersFit'
  BY <1>1, <1>2, <1>3, WorkerAlone
<1> QED  BY <1>1, <1>4 DEF AllButList

\* A job ends, or the next of a scan begins.
LEMMA JobEnds ==
    ASSUME PackageParts, PackagesHold, NEW w \in Workers, work[w].step # "idle", NEW a \in {"exists", "failed", "unfit", "opened", "scanned"},
           Finish(w, a), UNCHANGED <<place, calls>>, staging' = [staging EXCEPT ![w] = NoPackage],
           (Smoothly /\ UNCHANGED litter) \/ (Trouble /\ litter' \in BOOLEAN),
           a = "failed" => Trouble \/ trouble > 0 \/ work[w].raced \/ place[work[w].path].flaw \in {"newer", "rows", "foreign"}
    PROVE  AllButList'
<1>1. TroublePart' /\ LitterFits' /\ trouble' \in Nat /\ trouble' >= trouble /\ (Trouble => trouble' > 0) /\ trouble \in Nat
  BY Smooth0, Troubled DEF Trouble
<1>2. a = "failed" => trouble' > 0 \/ work[w].raced \/ place[work[w].path].flaw \in {"newer", "rows", "foreign"}
  BY <1>1
<1>3. /\ WorkPart' /\ WorkFits(work'[w], place'[work'[w].path], trouble', NoPackage)
      /\ \A v \in Workers : v # w => work'[v] = work[v]
  BY <1>1, <1>2, FinishFits
<1>4. PlacePart' /\ StagingPart' /\ WorkPart' /\ PlacesFit' /\ WorkersFit'
  BY <1>1, <1>3, NothingFits, WorkerAlone
<1> QED  BY <1>1, <1>4 DEF AllButList

\* The same for a job that has nothing staged.
LEMMA NothingStaged ==
    ASSUME PackageParts, PackagesHold, NEW w \in Workers, work[w].step \notin {"database", "publish"}, UNCHANGED staging
    PROVE  staging[w] = NoPackage /\ staging' = [staging EXCEPT ![w] = NoPackage]
BY WorkFacts, SameStaging DEF WorkFits

LEMMA OpenEnds ==
    ASSUME PackageParts, PackagesHold, NEW w \in Workers, work[w].step \notin {"idle", "database", "publish"},
           NEW a \in {"exists", "failed", "unfit", "opened", "scanned"},
           Finish(w, a), UNCHANGED <<place, staging, litter, calls>>, Smoothly \/ Trouble,
           a = "failed" => Trouble \/ trouble > 0 \/ work[w].raced \/ place[work[w].path].flaw \in {"newer", "rows", "foreign"}
    PROVE  AllButList'
  BY NothingStaged, JobEnds DEF PackageParts, TroublePart

LEMMA GivesUpStep ==
    ASSUME PackageParts, PackagesHold, NEW w \in Workers, work[w].step # "idle", GivesUp(w), UNCHANGED <<place, calls>>
    PROVE  AllButList'
  BY JobEnds DEF GivesUp, PackageParts, TroublePart, Fails, DropStaging

LEMMA StageManifestStep ==
    ASSUME PackageParts, PackagesHold, NEW w \in Workers, StageManifest(w)
    PROVE  PackageParts' /\ PackagesHold'
<1>1. work[w].step = "stage" /\ UNCHANGED <<place, recents, calls>>  BY DEF StageManifest, At
<1>2. ListPart' /\ RecentsAreTidy'  BY <1>1, ListStays
<1>3. CASE GivesUp(w)  BY <1>1, <1>2, <1>3, GivesUpStep, AllOfThemNext
<1>4. CASE ~ GivesUp(w)
 <2>1. Smoothly /\ staging' = [staging EXCEPT ![w] = StagedPackage] /\ UNCHANGED litter /\ work' = [work EXCEPT ![w].step = "database"]
   BY <1>4 DEF StageManifest, Goes
 <2>2. StagedPackage \in Databases /\ StagedPackage.flaw = "none" /\ Consistent(StagedPackage)
  <3>1. /\ NoPackage \in Databases /\ NoPackage.schema = 0 /\ NoPackage.tables = {} /\ NoPackage.rows = 0
    BY NothingFits DEF NoPackage, Package
  <3>2. /\ StagedPackage \in Databases /\ StagedPackage.schema = 0 /\ StagedPackage.tables = {} /\ StagedPackage.rows = 0
        /\ StagedPackage.flaw = "none"
    BY <3>1 DEF StagedPackage, Databases, Flaws
  <3>3. 1 .. 0 = {}  OBVIOUS
  <3> QED  BY <3>2, <3>3, PackageNumbers DEF Consistent
 <2>3. PICK next : next = [work[w] EXCEPT !.step = "database"]  OBVIOUS
 <2>4. /\ next \in Works /\ next.step = "database" /\ next.path = work[w].path /\ next.answer = work[w].answer /\ next.seen = work[w].seen
   BY <2>3, WorkFacts DEF Works, WorkSteps
 <2>5. work' = [work EXCEPT ![w] = next]  BY <2>1, <2>3
 <2>6. WorkFits(next, place[next.path], trouble, StagedPackage)
   BY <1>1, <2>2, <2>4, WorkFacts DEF WorkFits, LeaseSince, VersionSince
 <2>7. AllButList'  BY <1>1, <2>1, <2>2, <2>4, <2>5, <2>6, JobGoesOn
 <2> QED  BY <1>2, <2>7, AllOfThemNext
<1> QED  BY <1>3, <1>4

\* A consistent database stays so when the next migration is made.
LEMMA MigratedIs ==
    ASSUME NEW db \in Databases, Consistent(db), db.schema < Latest
    PROVE  LET m == Migrated(db) IN
           /\ m \in Databases /\ Consistent(m) /\ m.schema = db.schema + 1 /\ m.flaw = db.flaw /\ m.project = db.project
           /\ m.file = db.file /\ m.settled = db.settled
<1>1. db.schema \in Nat /\ db.tables = 1 .. db.schema /\ db.rows = db.schema /\ Latest \in Nat /\ db.tables \in SUBSET Nat
  BY PackageNumbers DEF Consistent, Databases
<1>2. db.tables \cup {db.schema + 1} = 1 .. (db.schema + 1) /\ db.tables \cup {db.schema + 1} \in SUBSET Nat
  BY <1>1
<1>3. PICK m : m = Migrated(db)  OBVIOUS
<1>4. /\ m \in Databases /\ m.schema = db.schema + 1 /\ m.tables = db.tables \cup {db.schema + 1} /\ m.rows = db.rows + 1
      /\ m.flaw = db.flaw /\ m.file = db.file
  BY <1>1, <1>2, <1>3 DEF Migrated, Databases
<1>5. m.project = db.project /\ m.settled = db.settled  BY <1>3, Zenon DEF Migrated, Databases
<1>6. Consistent(m)  BY <1>1, <1>2, <1>4 DEF Consistent
<1> QED  BY <1>3, <1>4, <1>5, <1>6

LEMMA StageDatabaseStep ==
    ASSUME PackageParts, PackagesHold, NEW w \in Workers, StageDatabase(w)
    PROVE  PackageParts' /\ PackagesHold'
<1>1. work[w].step = "database" /\ UNCHANGED <<place, recents, calls>>  BY DEF StageDatabase, At
<1>2. ListPart' /\ RecentsAreTidy'  BY <1>1, ListStays
<1>3. staging[w] \in Databases /\ staging[w].flaw = "none" /\ Consistent(staging[w])
  BY <1>1, WorkFacts DEF WorkFits
<1>4. CASE GivesUp(w)  BY <1>1, <1>2, <1>4, GivesUpStep, AllOfThemNext
<1>5. CASE ~ GivesUp(w) /\ staging[w].schema < Latest
 <2>1. Smoothly /\ staging' = [staging EXCEPT ![w] = Migrated(staging[w])] /\ UNCHANGED <<litter, work>>
   BY <1>5 DEF StageDatabase
 <2>2. Migrated(staging[w]) \in Databases /\ Consistent(Migrated(staging[w])) /\ Migrated(staging[w]).flaw = "none"
   BY <1>3, <1>5, MigratedIs
 <2>3. work[w] \in Works /\ work' = [work EXCEPT ![w] = work[w]]
   BY <2>1, WorkFacts DEF PackageParts, WorkPart
 <2>4. WorkFits(work[w], place[work[w].path], trouble, Migrated(staging[w]))
   BY <1>1, <2>2, WorkFacts DEF WorkFits
 <2>5. AllButList'  BY <1>1, <2>1, <2>2, <2>3, <2>4, JobGoesOn
 <2> QED  BY <1>2, <2>5, AllOfThemNext
<1>6. CASE ~ GivesUp(w) /\ ~(staging[w].schema < Latest)
 <2>1. Smoothly /\ staging' = [staging EXCEPT ![w].project = TRUE] /\ UNCHANGED litter /\ work' = [work EXCEPT ![w].step = "publish"]
   BY <1>6 DEF StageDatabase, Goes
 <2>2. PICK staged : staged = [staging[w] EXCEPT !.project = TRUE]  OBVIOUS
 <2>3. /\ staged \in Databases /\ staged.flaw = "none" /\ staged.project /\ staged.schema = staging[w].schema
       /\ staged.tables = staging[w].tables /\ staged.rows = staging[w].rows
   BY <1>3, <2>2 DEF Databases
 <2>4. Consistent(staged) /\ staged.schema = Latest
   BY <1>3, <1>6, <2>3, PackageNumbers DEF Consistent, Databases
 <2>5. PICK next : next = [work[w] EXCEPT !.step = "publish"]  OBVIOUS
 <2>6. /\ next \in Works /\ next.step = "publish" /\ next.path = work[w].path /\ next.answer = work[w].answer /\ next.seen = work[w].seen
   BY <2>5, WorkFacts DEF Works, WorkSteps
 <2>7. work' = [work EXCEPT ![w] = next] /\ staging' = [staging EXCEPT ![w] = staged]
   BY <2>1, <2>2, <2>5
 <2>8. WorkFits(next, place[next.path], trouble, staged)
   BY <1>1, <2>3, <2>4, <2>6, WorkFacts DEF WorkFits, LeaseSince, VersionSince
 <2>9. AllButList'  BY <1>1, <2>1, <2>3, <2>6, <2>7, <2>8, JobGoesOn
 <2> QED  BY <1>2, <2>9, AllOfThemNext
<1> QED  BY <1>4, <1>5, <1>6

LEMMA HoldStep ==
    ASSUME PackageParts, PackagesHold, NEW w \in Workers, HoldDatabase(w)
    PROVE  PackageParts' /\ PackagesHold'
<1>1. work[w].step = "open" /\ UNCHANGED <<place, staging, litter, recents, calls>>
  BY DEF HoldDatabase, At
<1>2. ListPart' /\ RecentsAreTidy'  BY <1>1, ListStays
<1>3. PICK p \in Paths : p = work[w].path  BY <1>1, WorkFacts
<1>4. CASE Smoothly /\ Finish(w, "unfit")  BY <1>1, <1>2, <1>4, OpenEnds, AllOfThemNext
<1>5. CASE Trouble /\ Finish(w, "failed")  BY <1>1, <1>2, <1>5, OpenEnds, AllOfThemNext
<1>6. CASE /\ ManifestReads(p) /\ DatabaseExists(p) /\ Smoothly
           /\ work' = [work EXCEPT ![w].step = "version", ![w].lease = Lease(p)]
 <2>1. PICK next : next = [work[w] EXCEPT !.step = "version", !.lease = place[p].file]  OBVIOUS
 <2>2. place[p].file \in Nat  BY WorkFacts
 <2>3. /\ next \in Works /\ next.step = "version" /\ next.path = p /\ next.answer = work[w].answer /\ next.seen = work[w].seen
       /\ next.lease = place[p].file
   BY <1>3, <2>1, <2>2, WorkFacts DEF Works, WorkSteps
 <2>4. work' = [work EXCEPT ![w] = next]  BY <1>6, <2>1 DEF Lease
 <2>5. place[p].flaw \notin {"absent", "manifest", "database"}
   BY <1>6 DEF ManifestReads, DatabaseExists
 <2>6. staging[w] = NoPackage /\ staging' = [staging EXCEPT ![w] = NoPackage]
   BY <1>1, NothingStaged
 <2>7. WorkFits(next, place[next.path], trouble, NoPackage)
   BY <1>1, <2>2, <2>3, <2>5, <2>6, WorkFacts DEF WorkFits, LeaseSince, VersionSince
 <2>8. AllButList'  BY <1>1, <1>6, <2>3, <2>4, <2>6, <2>7, NothingFits, JobGoesOn
 <2> QED  BY <1>2, <2>8, AllOfThemNext
<1> QED  BY <1>3, <1>4, <1>5, <1>6 DEF HoldDatabase, Path, Fails

LEMMA ReadVersionStep ==
    ASSUME PackageParts, PackagesHold, NEW w \in Workers, ReadVersion(w)
    PROVE  PackageParts' /\ PackagesHold'
<1>1. work[w].step = "version" /\ UNCHANGED <<place, staging, litter, recents, calls, trouble>> /\ Smoothly
  BY DEF ReadVersion, At, Smoothly
<1>2. ListPart' /\ RecentsAreTidy'  BY <1>1, ListStays
<1>3. PICK p \in Paths : p = work[w].path  BY <1>1, WorkFacts
<1>4. /\ place[p] \in Databases /\ DbFits(place[p], p) /\ WorkFits(work[w], place[p], trouble, staging[w]) /\ trouble \in Nat
      /\ place[p].schema \in Nat /\ place[p].flaw \in Flaws
  BY <1>3, WorkFacts DEF Databases
<1>5. place[p].flaw \notin {"absent", "manifest", "database"} /\ (work[w].lease = place[p].file \/ trouble > 0)
  BY <1>1, <1>4 DEF WorkFits, LeaseSince
<1>6. place[p] # NoPackage  BY <1>5, NothingFits
<1>7. CASE place[p].file = work[w].lease /\ place[p].schema <= Latest /\ place[p].rows = place[p].schema
 <2>1. place[p].flaw \in {"none", "foreign"}  BY <1>4, <1>5, <1>7, PackageNumbers DEF DbFits, Flaws
 <2>2. PICK next : next = [work[w] EXCEPT !.step = "migrate", !.schema = place[p].schema]  OBVIOUS
 <2>3. place[p].schema \in 0 .. Latest  BY <1>4, <1>7, PackageNumbers
 <2>4. /\ next \in Works /\ next.step = "migrate" /\ next.path = p /\ next.answer = work[w].answer /\ next.seen = work[w].seen
       /\ next.lease = work[w].lease /\ next.schema = place[p].schema
   BY <1>3, <2>2, <2>3, WorkFacts DEF Works, WorkSteps
 <2>5. work' = [work EXCEPT ![w] = next]
   BY <1>3, <1>6, <1>7, <2>2 DEF ReadVersion, VerifyCurrentIdentity, Lease, Path
 <2>6. staging[w] = NoPackage /\ staging' = [staging EXCEPT ![w] = NoPackage]
   BY <1>1, NothingStaged
 <2>7. WorkFits(next, place[next.path], trouble, NoPackage)
   BY <1>1, <1>4, <1>5, <2>1, <2>4, <2>6, WorkFacts DEF WorkFits, LeaseSince, VersionSince
 <2>8. AllButList'  BY <1>1, <2>4, <2>5, <2>6, <2>7, NothingFits, JobGoesOn
 <2> QED  BY <1>2, <2>8, AllOfThemNext
<1>8. CASE ~(place[p].file = work[w].lease /\ place[p].schema <= Latest /\ place[p].rows = place[p].schema)
  BY <1>3, <1>6, <1>8, <1>5, <1>4, <1>1, OpenEnds, <1>2, AllOfThemNext DEF ReadVersion,
    VerifyCurrentIdentity, Lease, Path, Fails, DbFits, Consistent, Flaws
<1> QED  BY <1>7, <1>8

LEMMA IdentifyStep ==
    ASSUME PackageParts, PackagesHold, NEW w \in Workers, Identify(w)
    PROVE  PackageParts' /\ PackagesHold'
<1>1. work[w].step = "identify" /\ UNCHANGED <<place, staging, litter, recents, calls>>
  BY DEF Identify, At
<1>2. ListPart' /\ RecentsAreTidy'  BY <1>1, ListStays
<1>3. PICK p \in Paths : p = work[w].path  BY <1>1, WorkFacts
<1>4. /\ place[p] \in Databases /\ DbFits(place[p], p) /\ WorkFits(work[w], place[p], trouble, staging[w]) /\ trouble \in Nat
      /\ place[p].schema \in Nat
  BY <1>3, WorkFacts DEF Databases
<1>5. /\ place[p].flaw \in {"none", "foreign"} /\ (work[w].lease = place[p].file \/ trouble > 0) /\ work[w].schema = Latest
      /\ work[w].lease = place[p].file => work[w].schema <= place[p].schema
  BY <1>1, <1>4 DEF WorkFits, LeaseSince, VersionSince
<1>6. place[p] # NoPackage /\ place[p].schema <= Latest
  BY <1>4, <1>5, NothingFits DEF DbFits, Consistent
<1>7. CASE Trouble /\ Finish(w, "failed")  BY <1>1, <1>2, <1>7, OpenEnds, AllOfThemNext
<1>8. CASE Smoothly /\ place[p].file = work[w].lease /\ place[p].project /\ work[w].keep /\ work' = [work EXCEPT ![w].step = "remember"]
 <2>1. PICK next : next = [work[w] EXCEPT !.step = "remember"]  OBVIOUS
 <2>2. /\ next \in Works /\ next.step = "remember" /\ next.path = p /\ next.answer = work[w].answer /\ next.seen = work[w].seen
       /\ next.lease = work[w].lease /\ next.schema = work[w].schema
   BY <1>3, <2>1, WorkFacts DEF Works, WorkSteps
 <2>3. next.raced = work[w].raced  BY <2>1, WorkFacts, Zenon DEF Works
 <2>4. work' = [work EXCEPT ![w] = next]  BY <1>8, <2>1
 <2>5. staging[w] = NoPackage /\ staging' = [staging EXCEPT ![w] = NoPackage]
   BY <1>1, NothingStaged
 <2>6. place[p].schema = Latest  BY <1>4, <1>5, <1>6, <1>8, PackageNumbers
 <2>7. WorkFits(next, place[next.path], trouble, NoPackage)
   BY <1>1, <1>4, <1>5, <1>8, <2>2, <2>3, <2>5, <2>6, WorkFacts, PackageNumbers DEF WorkFits, LeaseSince, VersionSince
 <2>8. AllButList'  BY <1>1, <1>8, <2>2, <2>4, <2>5, <2>7, NothingFits, JobGoesOn
 <2> QED  BY <1>2, <2>8, AllOfThemNext
<1>9. CASE Smoothly /\ Finish(w, "scanned")  BY <1>1, <1>2, <1>9, OpenEnds, AllOfThemNext
<1>10. CASE Smoothly /\ ~(place[p].file = work[w].lease /\ place[p].project) /\ Finish(w, "failed")
  BY <1>4, <1>5, <1>10, <1>1, <1>3, OpenEnds, <1>2, AllOfThemNext DEF DbFits
<1> QED
  BY <1>3, <1>6, <1>7, <1>8, <1>9, <1>10 DEF Identify, VerifyCurrentIdentity, Lease, Path, Fails, Goes

LEMMA RememberStep ==
    ASSUME PackageParts, PackagesHold, NEW w \in Workers, Remember(w)
    PROVE  PackageParts' /\ PackagesHold'
<1>1. work[w].step = "remember" /\ UNCHANGED <<place, staging, litter, calls>>  BY DEF Remember, At
<1>2. recents \in Lists /\ recents.rows \in Seq(Paths) /\ Len(recents.rows) <= RecentLimit /\ IsInjective(recents.rows)
  BY DEF PackageParts, PackagesHold, ListPart, Lists, RecentsAreTidy
<1>3. <<>> \in Seq(Paths) /\ Len(<<>>) <= RecentLimit /\ IsInjective(<<>>)
  BY PackageNumbers, EmptySeq DEF IsInjective
<1>4. CASE Trouble /\ Finish(w, "opened") /\ UNCHANGED recents
  BY <1>1, <1>4, OpenEnds, ListStays, AllOfThemNext
<1>5. CASE /\ Smoothly
           /\ work' = [work EXCEPT ![w].step = "note", ![w].seen = IF recents.good THEN recents.rows ELSE <<>>]
           /\ recents' = IF recents.good THEN recents ELSE [rows |-> <<>>, good |-> TRUE]
 <2>1. PICK seen \in Seq(Paths) : seen = (IF recents.good THEN recents.rows ELSE <<>>) /\ Len(seen) <= RecentLimit /\ IsInjective(seen)
   BY <1>2, <1>3
 <2>2. PICK next : next = [work[w] EXCEPT !.step = "note", !.seen = seen]  OBVIOUS
 <2>3. /\ next \in Works /\ next.step = "note" /\ next.path = work[w].path /\ next.answer = work[w].answer /\ next.seen = seen
       /\ next.lease = work[w].lease /\ next.schema = work[w].schema
   BY <2>2, WorkFacts DEF Works, WorkSteps
 <2>4. next.raced = work[w].raced  BY <2>2, WorkFacts, Zenon DEF Works
 <2>5. work' = [work EXCEPT ![w] = next]  BY <1>5, <2>1, <2>2
 <2>6. staging[w] = NoPackage /\ staging' = [staging EXCEPT ![w] = NoPackage]
   BY <1>1, NothingStaged
 <2>7. WorkFits(next, place[next.path], trouble, NoPackage)
   BY <1>1, <2>1, <2>3, <2>4, <2>6, WorkFacts DEF WorkFits, LeaseSince, VersionSince
 <2>8. AllButList'  BY <1>1, <1>5, <2>3, <2>5, <2>6, <2>7, NothingFits, JobGoesOn
 <2>9. ListPart' /\ RecentsAreTidy'  BY <1>2, <1>3, <1>5 DEF ListPart, Lists, RecentsAreTidy
 <2> QED  BY <2>8, <2>9, AllOfThemNext
<1> QED  BY <1>4, <1>5 DEF Remember

LEMMA NoteStep ==
    ASSUME PackageParts, PackagesHold, NEW w \in Workers, Note(w)
    PROVE  PackageParts' /\ PackagesHold'
<1>1. work[w].step = "note" /\ UNCHANGED <<place, staging, litter, calls>> /\ Finish(w, "opened") /\ (Smoothly \/ Trouble)
  BY DEF Note, At
<1>2. AllButList'  BY <1>1, OpenEnds
<1>3. work[w].path \in Paths /\ work[w].seen \in Seq(Paths) /\ IsInjective(work[w].seen)
  BY <1>1, WorkFacts DEF WorkFits
<1>4. CASE UNCHANGED recents  BY <1>2, <1>4, ListStays, AllOfThemNext
<1>5. CASE recents' = [rows |-> Remembered(work[w].seen, work[w].path), good |-> TRUE]
 <2>1. PICK rows : rows = Remembered(work[w].seen, work[w].path)  OBVIOUS
 <2>2. rows \in Seq(Paths) /\ Len(rows) <= RecentLimit /\ IsInjective(rows)
   BY <1>3, <2>1, RememberedIs
 <2>3. ListPart' /\ RecentsAreTidy'  BY <1>5, <2>1, <2>2 DEF ListPart, Lists, RecentsAreTidy
 <2> QED  BY <1>2, <2>3, AllOfThemNext
<1> QED  BY <1>4, <1>5 DEF Note, Path

LEMMA DiesStep ==
    ASSUME PackageParts, PackagesHold, NEW w \in Workers, WorkerDies(w)
    PROVE  PackageParts' /\ PackagesHold'
  BY Troubled, NothingFits, WorkerAlone, ListStays, AllOfThemNext DEF WorkerDies, DropStaging,
    PackageParts, TroublePart, WorkPart, AllButList

LEMMA PowerFailsStep ==
    ASSUME PackageParts, PackagesHold, PowerFails
    PROVE  PackageParts' /\ PackagesHold'
  BY Troubled, NothingFits, ListStays, AllOfThemNext DEF PowerFails, PackageParts, TroublePart,
    PlacePart, PackagesHold, PlacesFit, WorkPart, StagingPart, WorkersFit, AllButList

LEMMA SpoilStep ==
    ASSUME PackageParts, PackagesHold, SpoilList
    PROVE  PackageParts' /\ PackagesHold'
<1>1. Trouble /\ recents' = [rows |-> <<>>, good |-> FALSE] /\ UNCHANGED <<place, staging, litter, work, calls>>
  BY DEF SpoilList
<1>2. litter' \in BOOLEAN  BY <1>1 DEF PackageParts, TroublePart
<1>3. TroublePart' /\ LitterFits' /\ trouble' \in Nat /\ trouble' >= trouble /\ trouble \in Nat
  BY <1>1, <1>2, Troubled
<1>4. PlacePart' /\ WorkPart' /\ StagingPart' /\ PlacesFit'
  BY <1>1 DEF PackageParts, PackagesHold, PlacePart, WorkPart, StagingPart, PlacesFit
<1>5. WorkersFit'  BY <1>1, <1>3, WorkFacts, WorkStays DEF WorkersFit
<1>6. <<>> \in Seq(Paths) /\ Len(<<>>) <= RecentLimit /\ IsInjective(<<>>)
  BY PackageNumbers, EmptySeq DEF IsInjective
<1>7. ListPart' /\ RecentsAreTidy'  BY <1>1, <1>6 DEF ListPart, Lists, RecentsAreTidy
<1> QED  BY <1>3, <1>4, <1>5, <1>7, AllOfThemNext DEF AllButList

\* Another package at one place.
LEMMA PlaceChanges ==
    ASSUME PackageParts, PackagesHold, NEW p \in Paths, NEW new \in Databases, place' = [place EXCEPT ![p] = new], DbFits(new, p)
    PROVE  PlacePart' /\ PlacesFit' /\ place'[p] = new /\ \A q : q \in Paths /\ q # p => place'[q] = place[q]
BY DEF PackageParts, PackagesHold, PlacePart, PlacesFit

LEMMA ElsewhereStays ==
    ASSUME PackageParts, PackagesHold, NEW v \in Workers, NEW p, NEW upset \in Nat, upset >= trouble,
           work[v].path \in Paths => place'[work[v].path] = place[work[v].path]
    PROVE  WorkFits(work[v], place'[work[v].path], upset, staging[v])
<1>1. WorkFits(work[v], place[work[v].path], trouble, staging[v]) /\ trouble \in Nat  BY WorkFacts
<1>2. PICK j, db, new : j = work[v] /\ db = place[work[v].path] /\ new = place'[work[v].path]
  OBVIOUS
<1>3. WorkFits(j, db, trouble, staging[v]) /\ (j.path \in Paths => new = db)  BY <1>1, <1>2
<1>4. WorkFits(j, new, upset, staging[v])  BY <1>1, <1>3, WorkStays
<1> QED  BY <1>2, <1>4

LEMMA SettleStep ==
    ASSUME PackageParts, PackagesHold, NEW p \in Paths, Settle(p)
    PROVE  PackageParts' /\ PackagesHold'
<1>1. ~ place[p].settled /\ place' = [place EXCEPT ![p].settled = TRUE] /\ UNCHANGED <<staging, litter, work, recents, calls, trouble>>
  BY DEF Settle
<1>2. place[p] \in Databases /\ DbFits(place[p], p) /\ trouble \in Nat
  BY WorkFacts DEF PackageParts, PlacePart, PackagesHold, PlacesFit, TroublePart
<1>3. PICK new : new = [place[p] EXCEPT !.settled = TRUE]  OBVIOUS
<1>4. /\ new \in Databases /\ new.schema = place[p].schema /\ new.tables = place[p].tables /\ new.rows = place[p].rows
      /\ new.flaw = place[p].flaw /\ new.file = place[p].file
  BY <1>2, <1>3 DEF Databases
<1>5. new.project = place[p].project  BY <1>2, <1>3, Zenon DEF Databases
<1>6. place[p].flaw \in {"none", "foreign"}
  BY FoundAssumption, NothingFits, <1>1, <1>2 DEF FoundAssumption, DbFits
<1>7. DbFits(new, p)  BY <1>2, <1>4, <1>5, <1>6 DEF DbFits, Consistent
<1>8. place' = [place EXCEPT ![p] = new]  BY <1>1, <1>3
<1>9. PlacePart' /\ PlacesFit' /\ place'[p] = new /\ \A q : q \in Paths /\ q # p => place'[q] = place[q]
  BY <1>4, <1>7, <1>8, PlaceChanges
<1>10. ASSUME NEW v \in Workers PROVE WorkFits(work[v], place'[work[v].path], trouble, staging[v])
 <2>1. CASE work[v].path = p  BY <2>1, WorkFacts, <1>4, <1>5, <1>9 DEF WorkFits
 <2>2. CASE work[v].path # p  BY <1>2, <1>9, <2>2, ElsewhereStays
 <2> QED  BY <2>1, <2>2
<1>11. WorkPart' /\ StagingPart' /\ WorkersFit'
  BY <1>1, <1>10 DEF PackageParts, WorkPart, StagingPart, WorkersFit
<1>12. TroublePart' /\ LitterFits'  BY <1>1 DEF PackageParts, TroublePart, PackagesHold, LitterFits
<1> QED  BY <1>1, <1>9, <1>11, <1>12, ListStays, AllOfThemNext DEF AllButList

LEMMA RestoreStep ==
    ASSUME PackageParts, PackagesHold, NEW p \in Paths, RestoreCopy(p)
    PROVE  PackageParts' /\ PackagesHold'
<1>1. /\ Trouble /\ UNCHANGED <<staging, litter, work, recents, calls>> /\ place[p].flaw = "none" /\ place[p].schema \in 2 .. Latest
      /\ place' = [place EXCEPT ![p] = [Sealed(1) EXCEPT !.file = place[p].file + 1, !.settled = place[p].settled]]
  BY DEF RestoreCopy
<1>2. place[p] \in Databases /\ DbFits(place[p], p) /\ place[p].file \in Nat /\ place[p].settled \in BOOLEAN
  BY DEF PackageParts, PlacePart, PackagesHold, PlacesFit, Databases
<1>3. litter' \in BOOLEAN  BY <1>1 DEF PackageParts, TroublePart
<1>4. TroublePart' /\ LitterFits' /\ trouble' \in Nat /\ trouble' >= trouble /\ trouble' > 0
  BY <1>1, <1>3, Troubled
<1>5. PICK sealed : sealed = Sealed(1)  OBVIOUS
<1>6. /\ sealed \in Databases /\ sealed.schema = 1 /\ sealed.tables = 1 .. 1 /\ sealed.rows = 1 /\ sealed.flaw = "none" /\ sealed.project
  BY <1>5 DEF Sealed, Package, Databases, Flaws
<1>7. PICK new : new = [sealed EXCEPT !.file = place[p].file + 1, !.settled = place[p].settled]
  OBVIOUS
<1>8. /\ new \in Databases /\ new.schema = 1 /\ new.tables = 1 .. 1 /\ new.rows = 1 /\ new.flaw = "none" /\ new.file = place[p].file + 1
 <2>1. PICK f \in Nat, d \in BOOLEAN : f = place[p].file + 1 /\ d = place[p].settled  BY <1>2
 <2>2. new = [sealed EXCEPT !.file = f, !.settled = d]  BY <1>7, <2>1
 <2>3. new \in Databases  BY <1>6, <2>2 DEF Databases
 <2>4. new.schema = 1 /\ new.tables = 1 .. 1 /\ new.rows = 1 /\ new.flaw = "none" /\ new.file = f
   BY <1>6, <2>2 DEF Databases
 <2> QED  BY <2>1, <2>3, <2>4
<1>9. new.project  BY <1>6, <1>7, Zenon DEF Databases
<1>10. DbFits(new, p)  BY <1>8, <1>9, PackageNumbers DEF DbFits, Consistent
<1>11. place' = [place EXCEPT ![p] = new]  BY <1>1, <1>5, <1>7
<1>12. PlacePart' /\ PlacesFit' /\ place'[p] = new /\ \A q : q \in Paths /\ q # p => place'[q] = place[q]
  BY <1>8, <1>10, <1>11, PlaceChanges
<1>13. ASSUME NEW v \in Workers PROVE WorkFits(work[v], place'[work[v].path], trouble', staging[v])
 <2>1. CASE work[v].path = p
  <3>1. WorkFits(work[v], place[p], trouble, staging[v]) /\ work[v].lease \in Nat
    BY <2>1, WorkFacts
  <3>2. LeaseSince(work[v]) => work[v].lease < new.file  BY <1>2, <1>8, <3>1 DEF WorkFits
  <3>3. VersionSince(work[v]) \/ work[v].step \in {"remember", "note"} => LeaseSince(work[v])
    BY DEF VersionSince, LeaseSince
  <3>4. VersionSince(work[v]) \/ work[v].step \in {"remember", "note"} => work[v].lease # new.file
    BY <1>2, <1>8, <3>1, <3>2, <3>3
  <3>5. LeaseSince(work[v]) => work[v].lease <= new.file  BY <1>2, <1>8, <3>1, <3>2
  <3>6. WorkFits(work[v], new, trouble', staging[v])  BY <3>1, <3>4, <3>5, <1>4, <1>8 DEF WorkFits
  <3> QED  BY <1>12, <2>1, <3>6
 <2>2. CASE work[v].path # p  BY <1>4, <1>12, <2>2, ElsewhereStays
 <2> QED  BY <2>1, <2>2
<1>14. WorkPart' /\ StagingPart' /\ WorkersFit'
  BY <1>1, <1>13 DEF PackageParts, WorkPart, StagingPart, WorkersFit
<1> QED  BY <1>1, <1>4, <1>12, <1>14, ListStays, AllOfThemNext DEF AllButList

LEMMA PublishStep ==
    ASSUME PackageParts, PackagesHold, NEW w \in Workers, Publish(w)
    PROVE  PackageParts' /\ PackagesHold'
<1>1. work[w].step = "publish" /\ UNCHANGED <<recents, calls>>  BY DEF Publish, At
<1>2. ListPart' /\ RecentsAreTidy'  BY <1>1, ListStays
<1>3. PICK p \in Paths : p = work[w].path  BY <1>1, WorkFacts
<1>4. CASE GivesUp(w) /\ UNCHANGED place  BY <1>1, <1>2, <1>4, GivesUpStep, AllOfThemNext
<1>5. CASE Smoothly /\ Finish(w, "exists") /\ DropStaging(w) /\ UNCHANGED <<place, litter>>
 <2>1. AllButList'  BY <1>1, <1>5, JobEnds DEF DropStaging
 <2> QED  BY <1>2, <2>1, AllOfThemNext
<1>6. CASE /\ place[p] = NoPackage /\ Smoothly /\ place' = [place EXCEPT ![p] = staging[w]]
           /\ work' = [work EXCEPT ![w].step = "open"] /\ staging' = [staging EXCEPT ![w] = NoPackage] /\ UNCHANGED litter
 <2>1. TroublePart' /\ LitterFits' /\ trouble' = trouble /\ trouble \in Nat  BY <1>1, <1>6, Smooth0
 <2>2. PICK new : new = staging[w]  OBVIOUS
 <2>3. new \in Databases /\ new.flaw = "none" /\ Consistent(new) /\ new.project
   BY <1>1, <2>2, WorkFacts DEF WorkFits
 <2>4. DbFits(new, p)  BY <2>3 DEF DbFits
 <2>5. PlacePart' /\ PlacesFit' /\ place'[p] = new /\ \A q : q \in Paths /\ q # p => place'[q] = place[q]
   BY <1>6, <2>2, <2>3, <2>4, PlaceChanges
 <2>6. PICK next : next = [work[w] EXCEPT !.step = "open"]  OBVIOUS
 <2>7. /\ next \in Works /\ next.step = "open" /\ next.path = p /\ next.answer = work[w].answer /\ next.seen = work[w].seen
   BY <1>3, <2>6, WorkFacts DEF Works, WorkSteps
 <2>8. WorkPart' /\ work'[w] = next /\ \A v \in Workers : v # w => work'[v] = work[v]
   BY <1>6, <2>6, <2>7 DEF PackageParts, WorkPart
 <2>9. StagingPart' /\ staging'[w] = NoPackage /\ \A v \in Workers : v # w => staging'[v] = staging[v]
   BY <1>6, NothingFits DEF PackageParts, StagingPart
 <2>10. ASSUME NEW v \in Workers PROVE WorkFits(work'[v], place'[work'[v].path], trouble', staging'[v])
  <3>1. CASE v = w
    BY <1>1, <2>7, WorkFacts, <3>1, <2>1, <2>5, <2>8, <2>9 DEF WorkFits, LeaseSince, VersionSince
  <3>2. CASE v # w /\ work[v].path = p
    BY <1>6, <3>2, WorkFacts, NothingFits, <2>1, <2>5, <2>8, <2>9 DEF WorkFits, LeaseSince,
      VersionSince
  <3>3. CASE v # w /\ work[v].path # p  BY <2>1, <2>5, <3>3, ElsewhereStays, <2>8, <2>9
  <3> QED  BY <3>1, <3>2, <3>3
 <2>11. WorkersFit'  BY <2>10 DEF WorkersFit
 <2> QED  BY <1>2, <2>1, <2>5, <2>8, <2>9, <2>11, AllOfThemNext DEF AllButList
<1> QED  BY <1>3, <1>4, <1>5, <1>6 DEF Publish, Path, Goes, DropStaging

\* The jobs of other workers when one of them has migrated a database.
LEMMA RacedIs ==
    ASSUME NEW j \in Works, NEW b \in BOOLEAN
    PROVE  LET n == [j EXCEPT !.raced = @ \/ b] IN
           /\ n \in Works /\ n.step = j.step /\ n.path = j.path /\ n.answer = j.answer /\ n.seen = j.seen
           /\ n.lease = j.lease /\ n.schema = j.schema /\ n.raced = (j.raced \/ b)
<1>1. PICK c \in BOOLEAN : c = (j.raced \/ b)  BY Zenon
<1>2. PICK n : n = [j EXCEPT !.raced = c]  OBVIOUS
<1>3. /\ n \in Works /\ n.step = j.step /\ n.path = j.path /\ n.answer = j.answer /\ n.seen = j.seen
      /\ n.lease = j.lease /\ n.schema = j.schema
  BY <1>2 DEF Works
<1>4. n.raced = c  BY <1>2, Zenon DEF Works
<1>5. [j EXCEPT !.raced = @ \/ b] = n  BY <1>1, <1>2
<1> QED  BY <1>1, <1>3, <1>4, <1>5, Zenon

\* One migration of the database whose version was read.
LEMMA MigrationMade ==
    ASSUME PackageParts, PackagesHold, NEW w \in Workers, NEW p \in Paths, p = work[w].path, work[w].step = "migrate",
           Smoothly, UNCHANGED <<staging, litter, recents, calls>>,
           work[w].schema < Latest, place[p].file = work[w].lease, work[w].schema + 1 \notin place[p].tables,
           place' = [place EXCEPT ![p] = Migrated([place[p] EXCEPT !.schema = work[w].schema])],
           work' = [v \in Workers |->
                IF v = w THEN [work[v] EXCEPT !.schema = @ + 1]
                ELSE [work[v] EXCEPT !.raced = @ \/ (work[v].path = p /\ At(v, "migrate"))]]
    PROVE  PackageParts' /\ PackagesHold'
<1>1. TroublePart' /\ LitterFits' /\ trouble' = trouble /\ trouble \in Nat  BY Smooth0
<1>2. /\ place[p] \in Databases /\ DbFits(place[p], p) /\ WorkFits(work[w], place[p], trouble, staging[w])
      /\ place[p].schema \in Nat /\ work[w].schema \in Nat /\ work[w].lease \in Nat
  BY WorkFacts DEF Databases
<1>3. /\ place[p].flaw \in {"none", "foreign"} /\ work[w].schema <= place[p].schema
  BY <1>2 DEF WorkFits, VersionSince
<1>4. Consistent(place[p]) /\ place[p].tables = 1 .. place[p].schema
  BY <1>2, <1>3 DEF DbFits, Consistent
<1>5. work[w].schema = place[p].schema  BY <1>2, <1>3, <1>4
<1>6. [place[p] EXCEPT !.schema = work[w].schema] = place[p]  BY <1>2, <1>5 DEF Databases
<1>7. PICK new : new = Migrated(place[p])  OBVIOUS
<1>8. /\ new \in Databases /\ Consistent(new) /\ new.schema = place[p].schema + 1 /\ new.flaw = place[p].flaw
      /\ new.project = place[p].project /\ new.file = place[p].file
  BY <1>2, <1>4, <1>5, <1>7, MigratedIs
<1>9. DbFits(new, p)  BY <1>2, <1>3, <1>8 DEF DbFits
<1>10. PlacePart' /\ PlacesFit' /\ place'[p] = new /\ \A q : q \in Paths /\ q # p => place'[q] = place[q]
  BY <1>6, <1>7, <1>8, <1>9, PlaceChanges
<1>11. ASSUME NEW v \in Workers PROVE work'[v] \in Works /\ WorkFits(work'[v], place'[work'[v].path], trouble, staging[v])
 <2>1. CASE v = w
  <3>1. PICK next : next = [work[w] EXCEPT !.schema = work[w].schema + 1]  OBVIOUS
  <3>2. work'[v] = next /\ work[w].schema + 1 \in 0 .. Latest
   <4>1. work'[v] = next  BY <2>1, <3>1
   <4>2. work[w].schema + 1 \in 0 .. Latest  BY <1>2, PackageNumbers
   <4> QED  BY <4>1, <4>2
  <3>3. /\ next \in Works /\ next.step = "migrate" /\ next.path = p /\ next.answer = work[w].answer /\ next.seen = work[w].seen
        /\ next.lease = work[w].lease /\ next.schema = work[w].schema + 1
    BY <3>1, <3>2, WorkFacts DEF Works
  <3>4. staging[w] = NoPackage  BY NothingStaged
  <3>5. WorkFits(next, new, trouble, NoPackage)
    BY <1>2, <1>3, <1>5, <1>8, <3>3, PackageNumbers DEF WorkFits, LeaseSince, VersionSince
  <3> QED  BY <1>10, <2>1, <3>2, <3>3, <3>4, <3>5
 <2>2. CASE v # w /\ work[v].path = p
  <3>1. PICK b \in BOOLEAN : b = (work[v].path = p /\ At(v, "migrate"))  BY Zenon
  <3>2. PICK n : n = [work[v] EXCEPT !.raced = @ \/ b]  OBVIOUS
  <3>3. work'[v] = n /\ work[v] \in Works  BY <2>2, <3>1, <3>2, WorkFacts
  <3>4. /\ n \in Works /\ n.step = work[v].step /\ n.path = p /\ n.answer = work[v].answer /\ n.seen = work[v].seen
        /\ n.lease = work[v].lease /\ n.schema = work[v].schema /\ n.raced = (work[v].raced \/ b)
    BY <2>2, <3>2, <3>3, RacedIs
  <3>5. WorkFits(work[v], place[p], trouble, staging[v]) /\ work[v].schema \in Nat
    BY <2>2, WorkFacts
  <3>6. work[v].step = "migrate" => n.raced  BY <2>2, <3>1, <3>4 DEF At
  <3>7. work[v].raced => n.raced  BY <3>4
  <3>8. work[v].step \in {"identify", "remember", "note"} => work[v].lease # place[p].file
    BY <1>2, <1>5, <3>5, PackageNumbers DEF WorkFits, VersionSince
  <3>9. WorkFits(n, new, trouble, staging[v])
   <4>1. /\ n.step # "idle" \/ n.answer # "none" => n.path \in Paths
         /\ n.step # "idle" => n.answer = "none"
         /\ Len(n.seen) <= RecentLimit /\ IsInjective(n.seen)
         /\ staging[v] # NoPackage => n.step \in {"database", "publish"}
         /\ n.step \in {"database", "publish"} => staging[v].flaw = "none" /\ Consistent(staging[v])
         /\ n.step = "publish" => staging[v].schema = Latest /\ staging[v].project
     BY <3>4, <3>5 DEF WorkFits
   <4>2. LeaseSince(n) =>
            new.flaw \notin {"absent", "manifest", "database"} /\ n.lease <= new.file /\ (n.lease = new.file \/ trouble > 0)
     BY <1>8, <3>4, <3>5 DEF WorkFits, LeaseSince
   <4>3. VersionSince(n) => new.flaw \in {"none", "foreign"}  BY <1>3, <1>8
   <4>4. VersionSince(n) /\ n.lease = new.file => n.schema <= new.schema /\ (n.schema < new.schema => n.raced)
     BY <1>2, <1>8, <3>4, <3>5, <3>6, <3>8 DEF WorkFits, VersionSince
   <4>5. n.step \in {"identify", "remember", "note"} => n.schema = Latest
     BY <3>4, <3>5 DEF WorkFits
   <4>6. n.step \in {"remember", "note"} /\ n.lease = new.file => new.schema = Latest /\ new.project
     BY <1>8, <3>4, <3>8
   <4>7. n.answer = "failed" => trouble > 0 \/ n.raced \/ new.flaw \in {"newer", "rows", "foreign"}
     BY <1>8, <3>4, <3>5, <3>7 DEF WorkFits
   <4> QED  BY <4>1, <4>2, <4>3, <4>4, <4>5, <4>6, <4>7 DEF WorkFits
  <3> QED  BY <1>10, <3>3, <3>4, <3>9
 <2>3. CASE v # w /\ work[v].path # p
  <3>1. PICK b \in BOOLEAN : b = (work[v].path = p /\ At(v, "migrate"))  BY Zenon
  <3>2. ~ b  BY <2>3, <3>1
  <3>3. PICK n : n = [work[v] EXCEPT !.raced = @ \/ b]  OBVIOUS
  <3>4. work'[v] = n /\ work[v] \in Works  BY <2>3, <3>1, <3>3, WorkFacts
  <3>5. /\ n \in Works /\ n.step = work[v].step /\ n.path = work[v].path /\ n.answer = work[v].answer /\ n.seen = work[v].seen
        /\ n.lease = work[v].lease /\ n.schema = work[v].schema /\ n.raced = (work[v].raced \/ b)
    BY <3>3, <3>4, RacedIs
  <3>6. WorkFits(work[v], place'[work[v].path], trouble, staging[v])
    BY <1>1, <1>10, <2>3, ElsewhereStays
  <3>7. n.raced = work[v].raced  BY <3>2, <3>5, WorkFacts
  <3>8. WorkFits(n, place'[work[v].path], trouble, staging[v])
    BY ZenonT(40), <3>5, <3>6, <3>7 DEF WorkFits, LeaseSince, VersionSince
  <3> QED  BY <3>4, <3>5, <3>8
 <2> QED  BY <2>1, <2>2, <2>3
<1>12. StagingPart' /\ WorkersFit'  BY <1>1, <1>11 DEF PackageParts, StagingPart, WorkersFit
<1>13. WorkPart'
 <2>1. work' \in [Workers -> Works]
  <3>1. \A v \in Workers : work'[v] \in Works  BY <1>11
  <3>2. PICK f : /\ f = work'
                 /\ f = [v \in Workers |->
                          IF v = w THEN [work[v] EXCEPT !.schema = @ + 1]
                          ELSE [work[v] EXCEPT !.raced = @ \/ (work[v].path = p /\ At(v, "migrate"))]]
    BY Zenon
  <3>3. \A v \in Workers : f[v] \in Works  BY <3>1, <3>2
  <3>4. f \in [Workers -> Works]  BY <3>2, <3>3, Zenon
  <3> QED  BY <3>2, <3>4
 <2> QED  BY <2>1 DEF WorkPart
<1> QED  BY <1>1, <1>10, <1>12, <1>13, ListStays, AllOfThemNext DEF AllButList

LEMMA MigrateStep ==
    ASSUME PackageParts, PackagesHold, NEW w \in Workers, Migrate(w)
    PROVE  PackageParts' /\ PackagesHold'
<1>1. work[w].step = "migrate" /\ UNCHANGED <<staging, litter, recents, calls>>  BY DEF Migrate, At
<1>2. ListPart' /\ RecentsAreTidy'  BY <1>1, ListStays
<1>3. PICK p \in Paths : p = work[w].path  BY <1>1, WorkFacts
<1>4. /\ place[p] \in Databases /\ DbFits(place[p], p) /\ WorkFits(work[w], place[p], trouble, staging[w]) /\ trouble \in Nat
      /\ place[p].schema \in Nat /\ work[w].schema \in Nat /\ work[w].lease \in Nat /\ place[p].file \in Nat
  BY <1>3, WorkFacts DEF Databases
<1>5. place[p].flaw \in {"none", "foreign"} /\ (work[w].lease = place[p].file \/ trouble > 0)
  BY <1>1, <1>4 DEF WorkFits, LeaseSince, VersionSince
<1>6. place[p] # NoPackage /\ Consistent(place[p]) /\ place[p].tables = 1 .. place[p].schema
  BY <1>4, <1>5, NothingFits DEF DbFits, Consistent
<1>7. staging[w] = NoPackage /\ staging' = [staging EXCEPT ![w] = NoPackage]  BY <1>1, NothingStaged
<1>8. CASE work[w].schema = Latest /\ Smoothly /\ work' = [work EXCEPT ![w].step = "identify"] /\ UNCHANGED place
 <2>1. PICK next : next = [work[w] EXCEPT !.step = "identify"]  OBVIOUS
 <2>2. /\ next \in Works /\ next.step = "identify" /\ next.path = p /\ next.answer = work[w].answer /\ next.seen = work[w].seen
       /\ next.lease = work[w].lease /\ next.schema = work[w].schema
   BY <1>3, <2>1, WorkFacts DEF Works, WorkSteps
 <2>3. next.raced = work[w].raced  BY <2>1, WorkFacts, Zenon DEF Works
 <2>4. work' = [work EXCEPT ![w] = next]  BY <1>8, <2>1
 <2>5. WorkFits(next, place[next.path], trouble, NoPackage)
   BY <1>1, <1>4, <1>7, <1>8, <2>2, <2>3, PackageNumbers DEF WorkFits, LeaseSince, VersionSince
 <2>6. AllButList'  BY ZenonT(40), <1>1, <1>7, <1>8, <2>2, <2>4, <2>5, NothingFits, JobGoesOn
 <2> QED  BY <1>2, <2>6, AllOfThemNext
<1>9. CASE /\ work[w].schema < Latest /\ place[p].file = work[w].lease /\ work[w].schema + 1 \notin place[p].tables
           /\ Smoothly /\ place' = [place EXCEPT ![p] = Migrated([place[p] EXCEPT !.schema = work[w].schema])]
           /\ work' = [v \in Workers |->
                IF v = w THEN [work[v] EXCEPT !.schema = @ + 1]
                ELSE [work[v] EXCEPT !.raced = @ \/ (work[v].path = p /\ At(v, "migrate"))]]
  BY <1>1, <1>3, <1>9, MigrationMade
<1>10. CASE /\ work[w].schema < Latest /\ place[p].file = work[w].lease /\ work[w].schema + 1 \in place[p].tables
            /\ Smoothly /\ Finish(w, "failed") /\ UNCHANGED place
  BY <1>4, <1>6, <1>10, <1>1, <1>3, OpenEnds, <1>2, AllOfThemNext DEF WorkFits, VersionSince
<1>11. CASE work[w].schema < Latest /\ place[p].file # work[w].lease
            /\ Smoothly /\ work' = [work EXCEPT ![w].schema = @ + 1] /\ UNCHANGED place
 <2>1. PICK next : next = [work[w] EXCEPT !.schema = work[w].schema + 1]  OBVIOUS
 <2>2. work[w].schema + 1 \in 0 .. Latest  BY <1>4, <1>11, PackageNumbers
 <2>3. /\ next \in Works /\ next.step = "migrate" /\ next.path = p /\ next.answer = work[w].answer /\ next.seen = work[w].seen
       /\ next.lease = work[w].lease
   BY ZenonT(40), <1>1, <1>3, <2>1, <2>2, WorkFacts DEF Works
 <2>4. work' = [work EXCEPT ![w] = next]  BY <1>11, <2>1
 <2>5. WorkFits(next, place[next.path], trouble, NoPackage)
   BY <1>1, <1>4, <1>5, <1>7, <1>11, <2>3 DEF WorkFits, LeaseSince, VersionSince
 <2>6. AllButList'  BY <1>1, <1>7, <1>11, <2>3, <2>4, <2>5, NothingFits, JobGoesOn
 <2> QED  BY <1>2, <2>6, AllOfThemNext
<1>12. CASE Trouble /\ Finish(w, "failed") /\ UNCHANGED place
  BY <1>1, <1>2, <1>12, OpenEnds, AllOfThemNext
<1>13. [place[p] EXCEPT !.schema = work[w].schema].schema = work[w].schema /\ [place[p] EXCEPT !.schema = work[w].schema].tables = place[p].tables
  BY <1>4 DEF Databases
<1> QED
  BY <1>3, <1>6, <1>8, <1>9, <1>10, <1>11, <1>12, <1>13 DEF Migrate, VerifyCurrentIdentity, Lease, Path, Fails, Goes

\* Every step of the project workers, and of what befalls them, keeps all of it.
LEMMA PackageStep ==
    PackageParts /\ PackagesHold /\ [PackageNext]_packageVars => PackageParts' /\ PackagesHold'
<1> SUFFICES ASSUME PackageParts, PackagesHold, [PackageNext]_packageVars PROVE PackageParts' /\ PackagesHold'
  OBVIOUS
<1>1. CASE UNCHANGED packageVars
  BY <1>1, ListStays, AllOfThemNext DEF packageVars, PackageParts, PlacePart, StagingPart, WorkPart,
    TroublePart, PackagesHold, PlacesFit, WorkersFit, LitterFits, AllButList
<1>2. CASE \E w \in Workers, path \in Paths : CreateProject(w, path) \/ OpenProject(w, path)
  BY <1>2, CreateStep, OpenProjectStep
<1>3. ASSUME NEW w \in Workers, RefreshRecentProjects(w) \/ WorkerStep(w) \/ WorkerDies(w) PROVE PackageParts' /\ PackagesHold'
  BY StageManifestStep, StageDatabaseStep, PublishStep, HoldStep, ReadVersionStep, MigrateStep,
    IdentifyStep, RememberStep, NoteStep, <1>3, RefreshStep, DiesStep DEF WorkerStep
<1>4. CASE PowerFails \/ SpoilList  BY <1>4, PowerFailsStep, SpoilStep
<1>5. CASE \E path \in Paths : Settle(path) \/ RestoreCopy(path)  BY <1>5, SettleStep, RestoreStep
<1> QED  BY <1>1, <1>2, <1>3, <1>4, <1>5 DEF PackageNext

-----------------------------------------------------------------------------
(* The shelves *)

\* One shelf moves at a time, and the others stand still.
LEMMA ShelfSteps ==
    [Next \/ Rest]_vars =>
        [AvatarNext]_avatarVars /\ [SpecNext]_specVars /\ [PackageNext]_packageVars /\ [MediaNext]_mediaVars
  BY DEF vars, Rest, Next

PackIInv == AvatarParts /\ CatalogHolds
ProjectIInv == PackageParts /\ PackagesHold
MediaIInv == MediaTypeOK /\ MediaInv

LEMMA ShelvesInit == Init => PackIInv /\ SpecIInv /\ ProjectIInv /\ MediaIInv
BY CatalogInit, SpecInvInit, PackagesInit, MediaInit0 DEF Init, PackIInv, ProjectIInv, MediaIInv

LEMMA ShelvesStep ==
    PackIInv /\ SpecIInv /\ ProjectIInv /\ MediaIInv /\ [Next \/ Rest]_vars => (PackIInv /\ SpecIInv /\ ProjectIInv /\ MediaIInv)'
<1> SUFFICES ASSUME PackIInv, SpecIInv, ProjectIInv, MediaIInv, [Next \/ Rest]_vars
             PROVE  PackIInv' /\ SpecIInv' /\ ProjectIInv' /\ MediaIInv'
  OBVIOUS
<1>1. [AvatarNext]_avatarVars /\ [SpecNext]_specVars /\ [PackageNext]_packageVars /\ [MediaNext]_mediaVars
  BY ShelfSteps
<1>2. PackIInv'  BY <1>1, CatalogStep DEF PackIInv
<1>3. SpecIInv'  BY <1>1, SpecTypesStep, SpecInvStep DEF SpecIInv
<1>4. ProjectIInv'  BY <1>1, PackageStep DEF ProjectIInv
<1>5. MediaIInv'  BY <1>1, MediaStep DEF MediaIInv
<1> QED  BY <1>2, <1>3, <1>4, <1>5

\* Whatever installations of whichever processes, deaths, power losses and disk faults fall
\* upon each other: what is published is a sound pack with all its files, a version once
\* promised is served until its files rot, and every staging tree belongs to the one
\* process at work, or is left to be cleaned (FileAvatarCatalog, AvatarPackStaging).
THEOREM PacksCorrect == Spec => []AvatarInv
<1>1. PackIInv /\ SpecIInv /\ ProjectIInv /\ MediaIInv => AvatarInv
  BY CatalogServes DEF PackIInv, CatalogHolds, AvatarInv
<1> QED  BY <1>1, ShelvesInit, ShelvesStep, PTL DEF Spec

\* However a save is interrupted, one of the two files of an avatar is sound and no older
\* than the last save that was answered well; however many processes open, create and
\* migrate a package, and whatever dies between two transactions, its version agrees with
\* its tables and its rows, and what is refused is left as it was found; and what an
\* import records is what the file was (AvatarSpecFileStore, ProjectPackageStore,
\* MigrationRunner, RecentProjectRegistry, FfmpegMediaProbe).
THEOREM StoresCorrect == Spec => []StoresInv
<1>1. PackIInv /\ SpecIInv /\ ProjectIInv /\ MediaIInv => StoresInv
  BY PackageInvIs DEF SpecIInv, ProjectIInv, MediaIInv, StoresInv
<1> QED  BY <1>1, ShelvesInit, ShelvesStep, PTL DEF Spec

\* The variables of the four stores keep their types.
THEOREM LibraryTypes == Spec => []TypeOK
<1>1. PackIInv /\ SpecIInv /\ ProjectIInv /\ MediaIInv => TypeOK
  BY AvatarTypesAre, PackageTypesAre DEF PackIInv, SpecIInv, ProjectIInv, MediaIInv, TypeOK
<1> QED  BY <1>1, ShelvesInit, ShelvesStep, PTL DEF Spec
=============================================================================
