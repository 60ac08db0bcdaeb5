--------------------------- MODULE AvatarSpecStore ---------------------------
(* One avatar of AvatarSpecFileStore (src/project_store): avatar.json and its  *)
(* avatar.last-good.json, each replaced by a temporary file that is flushed    *)
(* and renamed, while another thread loads the avatar.  A call may fail at     *)
(* every step, the process may die, the machine may lose its power, and a file *)
(* may go bad.                                                                 *)
EXTENDS Integers

CONSTANTS
    MaxSave,      \* bound: versions saved, numbered in their order
    MaxLoad,      \* bound: loads
    MaxUpset      \* bound: failures, deaths, power losses and bad files

ASSUME SpecAssumption == MaxSave \in Nat /\ MaxLoad \in Nat /\ MaxUpset \in Nat

VARIABLES
    posix,        \* whether the files are those of POSIX or of Windows
    spec,         \* [primary, backup]: the file under each name
    save,         \* the call of save(): [step, version, name, copied]
    temporary,    \* its temporary file
    load,         \* the call of load(): [step, seen, floor, raced, got]
    lastSaved,    \* the last version a save() succeeded with
    upsets, loads, wasBad

specVars == <<posix, spec, save, temporary, load, lastSaved, upsets, loads, wasBad>>

Names == {"primary", "backup"}
Missing == 0
Bad == -1
Contents == Bad..MaxSave
\* A file: what is read, what a power loss may bring back, and whether what is
\* read was flushed before the file got its name.
File(now, old, solid) == [now |-> now, old |-> old, solid |-> solid]
NoPart == [version |-> Missing, solid |-> FALSE]
NoSave == [step |-> "idle", version |-> 0, name |-> "primary", copied |-> Missing]
NoLoad == [step |-> "idle", seen |-> Missing, floor |-> 0, raced |-> FALSE, got |-> Missing]
Failed == -2

Readable(name) == spec[name].now > Missing
\* list() names an avatar one of whose files can be decoded.
Listed == \E name \in Names : Readable(name)

SpecInit ==
    /\ posix \in BOOLEAN
    /\ spec = [n \in Names |-> File(Missing, Missing, TRUE)]
    /\ save = NoSave /\ temporary = NoPart /\ load = NoLoad
    /\ lastSaved = 0 /\ upsets = 0 /\ loads = 0 /\ wasBad = {}

Upset == upsets < MaxUpset /\ upsets' = upsets + 1
Smooth == UNCHANGED upsets

-----------------------------------------------------------------------------
(* save()                                                                   *)

Save ==
    /\ save.step = "idle" /\ save.version < MaxSave
    /\ save' = [save EXCEPT !.step = "reading", !.version = @ + 1]
    /\ UNCHANGED <<posix, spec, temporary, load, lastSaved, upsets, loads, wasBad>>

\* The version goes on counting, a failed save is a new version for the next.
Ended == save' = [save EXCEPT !.step = "idle", !.name = "primary", !.copied = Missing]
Begin(name, copied) == save' = [save EXCEPT !.step = "create", !.name = name, !.copied = copied]

\* What was good is kept as the last good one; a backup is made of the new
\* version only if there is none.
Choose ==
    /\ save.step = "reading" /\ Smooth
    /\ \/ Readable("primary") /\ Begin("backup", spec["primary"].now)
       \/ ~Readable("primary") /\ Readable("backup") /\ Begin("primary", save.version)
       \/ ~Readable("primary") /\ spec["backup"].now = Missing /\ Begin("backup", save.version)
       \/ ~Readable("primary") /\ spec["backup"].now = Bad /\ Ended
    /\ UNCHANGED <<posix, spec, temporary, load, lastSaved, loads, wasBad>>

CreatePart ==
    /\ save.step = "create"
    /\ \/ /\ Smooth /\ temporary' = [version |-> save.copied, solid |-> FALSE]
          /\ save' = [save EXCEPT !.step = "flush"]
       \/ Upset /\ temporary' = NoPart /\ Ended
    /\ UNCHANGED <<posix, spec, load, lastSaved, loads, wasBad>>

\* FlushPart, did write() not flush the temporary file.
UnflushedPart ==
    /\ save.step = "flush" /\ Smooth /\ save' = [save EXCEPT !.step = "rename"]
    /\ UNCHANGED <<posix, spec, temporary, load, lastSaved, loads, wasBad>>

FlushPart ==
    /\ save.step = "flush"
    /\ \/ Smooth /\ temporary' = [temporary EXCEPT !.solid = TRUE] /\ save' = [save EXCEPT !.step = "rename"]
       \/ Upset /\ temporary' = NoPart /\ Ended
    /\ UNCHANGED <<posix, spec, load, lastSaved, loads, wasBad>>

\* The file read under a name is now another one.
Replaced(name) == File(temporary.version, spec[name].old, temporary.solid)

\* Windows does not rename over a file that is being read; POSIX does, and the
\* reader notices.
RenamePart ==
    /\ save.step = "rename"
    /\ \/ /\ posix \/ load.step # save.name
          /\ Smooth /\ spec' = [spec EXCEPT ![save.name] = Replaced(save.name)]
          /\ save' = [save EXCEPT !.step = "sync"]
          /\ load' = [load EXCEPT !.raced = @ \/ load.step = save.name]
       \/ ~posix /\ load.step = save.name /\ Smooth /\ Ended /\ UNCHANGED <<spec, load>>
       \/ Upset /\ Ended /\ UNCHANGED <<spec, load>>
    /\ temporary' = NoPart
    /\ UNCHANGED <<posix, lastSaved, loads, wasBad>>

\* A directory that is flushed keeps its names over a power loss.
Flushed(f) == [f EXCEPT !.old = IF f.solid THEN f.now ELSE Bad]

\* The backup is followed by the file itself.
SyncDirectory ==
    /\ save.step = "sync"
    /\ \/ /\ Smooth /\ spec' = [n \in Names |-> Flushed(spec[n])]
          /\ IF save.name = "backup"
             THEN Begin("primary", save.version) /\ UNCHANGED lastSaved
             ELSE Ended /\ lastSaved' = save.version
       \/ Upset /\ Ended /\ UNCHANGED <<spec, lastSaved>>
    /\ UNCHANGED <<posix, temporary, load, loads, wasBad>>

-----------------------------------------------------------------------------
(* load()                                                                   *)

BeginLoad ==
    /\ load.step \in {"idle", "done"} /\ loads < MaxLoad
    /\ load' = [step |-> "primary", seen |-> spec["primary"].now, floor |-> lastSaved, raced |-> FALSE, got |-> Missing]
    /\ loads' = loads + 1
    /\ UNCHANGED <<posix, spec, save, temporary, lastSaved, upsets, wasBad>>

Answered(got) == load' = [load EXCEPT !.step = "done", !.got = got]

\* Whether the file read has lost its name since it was opened.
Raced == load.raced

\* A file that was replaced while it was read is an error at once: it has lost
\* its only link.  A file that cannot be decoded or is missing sends load() to
\* the backup.
ReadPrimary ==
    /\ load.step = "primary"
    /\ IF Raced THEN Answered(Failed)
       ELSE IF load.seen > Missing THEN Answered(load.seen)
       ELSE load' = [load EXCEPT !.step = "backup", !.seen = spec["backup"].now]
    /\ UNCHANGED <<posix, spec, save, temporary, lastSaved, upsets, loads, wasBad>>

ReadBackup ==
    /\ load.step = "backup"
    /\ Answered(IF Raced \/ load.seen <= Missing THEN Failed ELSE load.seen)
    /\ UNCHANGED <<posix, spec, save, temporary, lastSaved, upsets, loads, wasBad>>

-----------------------------------------------------------------------------
(* The world                                                                *)

Interrupted ==
    /\ Ended /\ temporary' = NoPart
    /\ load' = IF load.step \in {"primary", "backup"} THEN NoLoad ELSE load

SaverDies ==
    /\ Upset /\ Interrupted
    /\ UNCHANGED <<posix, spec, lastSaved, loads, wasBad>>

\* Each name holds what it held, or what it held when its directory was last
\* flushed.
AfterPowerLoss(f) ==
    {File(v, v, TRUE) : v \in {IF f.solid THEN f.now ELSE Bad, f.old}}

LosePower ==
    /\ Upset /\ Interrupted
    /\ \E p \in AfterPowerLoss(spec["primary"]), b \in AfterPowerLoss(spec["backup"]) :
         spec' = [n \in Names |-> IF n = "primary" THEN p ELSE b]
    /\ UNCHANGED <<posix, lastSaved, loads, wasBad>>

\* One of the two files goes bad: not both, but for an avatar never saved.
GoBad(name) ==
    LET other == IF name = "primary" THEN "backup" ELSE "primary" IN
    /\ Upset /\ Readable(name) /\ spec[name].old = spec[name].now
    /\ lastSaved = 0 \/ (spec[other].now > Missing /\ spec[other].old > Missing)
    /\ spec' = [spec EXCEPT ![name] = File(Bad, Bad, TRUE)] /\ wasBad' = wasBad \cup {name}
    /\ UNCHANGED <<posix, save, temporary, load, lastSaved, loads>>

-----------------------------------------------------------------------------
SaveStep == Choose \/ CreatePart \/ FlushPart \/ RenamePart \/ SyncDirectory
LoadStep == ReadPrimary \/ ReadBackup
SpecNext ==
    \/ Save \/ SaveStep \/ BeginLoad \/ LoadStep \/ SaverDies \/ LosePower
    \/ \E name \in Names : GoBad(name)

SpecFairness == WF_specVars(SaveStep) /\ WF_specVars(LoadStep)
-----------------------------------------------------------------------------
(* Properties                                                               *)

SpecTypeOK ==
    /\ spec \in [Names -> [now : Contents, old : Contents, solid : BOOLEAN]]
    /\ save \in [step : {"idle", "reading", "create", "flush", "rename", "sync"}, version : 0..MaxSave,
                 name : Names, copied : 0..MaxSave]
    /\ temporary \in [version : 0..MaxSave, solid : BOOLEAN] /\ lastSaved \in 0..MaxSave
    /\ load \in [step : {"idle", "primary", "backup", "done"}, seen : Contents, floor : 0..MaxSave,
                 raced : BOOLEAN, got : Contents \cup {Failed}]
    /\ upsets \in 0..MaxUpset /\ wasBad \subseteq Names

\* An avatar that was ever saved can be read, whatever one failure, death, power
\* loss or bad file did to one of its files.
AvatarIsKept == lastSaved > 0 => Listed

\* Once save() has succeeded the avatar read is that one or a later one, also
\* after a power loss, until a file goes bad.
SavedIsRead == wasBad = {} => spec["primary"].now >= lastSaved /\ spec["primary"].old >= lastSaved

\* A load returns what had been saved when it began or something later; it fails
\* only if the file was replaced under it or is bad.
LoadIsRecent ==
    load.step = "done" /\ wasBad = {} =>
        IF load.got = Failed THEN load.raced \/ load.floor = 0 ELSE load.got >= load.floor

\* What each step of a save has done: a temporary file is flushed before it gets
\* a name, so every file under a name is; versions grow, so a file just replaced
\* differs from what a power loss would bring back, and after the first save one
\* of the two files is good both as it is read and as it would be brought back.
SaveKeeps ==
    /\ \A n \in Names : spec[n].solid /\ spec[n].now <= save.version /\ spec[n].old <= save.version
    /\ lastSaved <= save.version
    /\ save.copied <= save.version
    /\ save.step \in {"create", "flush", "rename"} => save.copied > 0
    /\ save.step \in {"create", "flush", "rename"} /\ save.name = "primary" => save.copied = save.version
    /\ save.step \in {"flush", "rename"} => temporary.version = save.copied
    /\ save.step = "rename" => temporary.solid
    /\ save.step # "idle" =>
         /\ lastSaved < save.version /\ spec["primary"].old < save.version
         /\ IF save.step = "sync" /\ save.name = "primary" THEN spec["primary"].now = save.version
            ELSE spec["primary"].now < save.version
    /\ lastSaved > 0 => \E n \in Names : spec[n].now > Missing /\ spec[n].old > Missing

\* What a load under way has seen was at least what had been saved when it began,
\* and the backup is read only where nothing had been.
LoadKeeps ==
    wasBad = {} =>
        /\ load.step = "primary" => load.seen >= load.floor
        /\ load.step = "backup" => load.floor = 0

\* What the store promises of one avatar.
SpecInv == AvatarIsKept /\ SavedIsRead /\ LoadIsRecent /\ SaveKeeps /\ LoadKeeps

\* save() and load() come back.
SpecEnds == save.step # "idle" ~> save.step = "idle"
=============================================================================
