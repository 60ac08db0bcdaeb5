---------------------------- MODULE AvatarCatalog ----------------------------
(* The catalog of installed avatar packs (src/avatar_pack_adapter): processes *)
(* that share one catalog directory under a lock install packs through a      *)
(* staging tree that is written, sealed, verified and renamed into its place, *)
(* list what is installed and ask for the payload of an asset.  A call may    *)
(* fail at every step, a process may die and the machine may lose its power.  *)
EXTENDS Naturals

CONSTANTS
    Processes,    \* processes with the catalog
    Packs,        \* packs a user may install: [name, slot, asset, flaw]
    MaxFault,     \* bound: calls that fail, deaths, power losses, rotten files
    MaxInstall    \* bound: installations

ASSUME AvatarAssumption ==
    /\ \A p \in Packs : p.flaw \in {"none", "archive", "manifest", "payload", "name"}
    /\ [name |-> "none"] \notin Packs
    /\ MaxFault \in Nat /\ MaxInstall \in Nat

VARIABLES
    locked,       \* the processes that hold the lock of catalog.lock
    job,          \* what each process does: [step, pack, answer]
    tree,         \* the staging tree of each process's AvatarPackStaging
    abandoned,    \* ages of the staging trees nobody owns: "fresh", "old"
    rooms,        \* package directories under installed/, with their durability
    installed,    \* the tree at each package version
    promised,     \* the packs answered as installed: [pack, durable]
    rotten,       \* versions with a file that went bad
    faults, installs

avatarVars == <<locked, job, tree, abandoned, rooms, installed, promised, rotten, faults, installs>>

Slots == {p.slot : p \in Packs}
Files == {"metadata", "payload"}
NoPack == [name |-> "none"]
\* A tree: the files with their contents, those that would survive a power
\* loss, and whether the names of the files would.
NoTree == [pack |-> NoPack, files |-> {}, synced |-> {}, linked |-> FALSE]
\* A tree at its place; settled, if the directory above holds its name on the disk.
InPlace(t, settled) ==
    [pack |-> t.pack, files |-> t.files, synced |-> t.synced, linked |-> t.linked, settled |-> settled]
Closed == [step |-> "closed", pack |-> NoPack, answer |-> "none"]
Working(p) == job[p].step \notin {"closed", "open"}

AvatarInit ==
    /\ locked = {} /\ job = [p \in Processes |-> Closed]
    /\ tree = [p \in Processes |-> NoTree] /\ abandoned = {}
    /\ rooms = [s \in Slots |-> "absent"]
    /\ installed = [s \in Slots |-> InPlace(NoTree, TRUE)]
    /\ promised = {} /\ rotten = {} /\ faults = 0 /\ installs = 0
-----------------------------------------------------------------------------
(* What a call finds in the catalog.                                        *)

Occupied(s) == installed[s].pack # NoPack
Entries == {installed[s].pack : s \in {t \in Slots : Occupied(t)}}
Reads(s, f) == f \in installed[s].files
HasMetadata(s) == Reads(s, "metadata")
Verified(s) == HasMetadata(s) /\ Reads(s, "payload")

\* One bad entry, or two of one asset, fail the scan of the whole catalog.
Scanned ==
    /\ \A s \in Slots : Occupied(s) => HasMetadata(s)
    /\ \A s, t \in Slots : s # t /\ Occupied(s) /\ Occupied(t) => installed[s].pack.asset # installed[t].pack.asset

\* payloadRoot() of an asset: the slot of its payload, or no slot.
PayloadRoots(asset) ==
    {s \in Slots : Scanned /\ Occupied(s) /\ installed[s].pack.asset = asset /\ Verified(s)}

-----------------------------------------------------------------------------
(* The parts of a call.                                                     *)

Faulty == faults < MaxFault /\ faults' = faults + 1
Sound == UNCHANGED faults

\* The call returns: what it said of a pack that is there is kept as a promise.
Answer(p, answer) ==
    /\ job' = [job EXCEPT ![p] = [Closed EXCEPT !.step = "open"]]
    /\ locked' = locked \ {p}
    /\ promised' = IF answer \in {"installed", "indeterminate", "already"}
                   THEN promised \cup {[pack |-> job[p].pack, durable |-> answer = "installed"]} ELSE promised

LockFree == locked = {}
Acquire(p) == locked' = locked \cup {p}

Continue(p, step) == job' = [job EXCEPT ![p].step = step] /\ UNCHANGED <<locked, promised>>

\* The call is over but for the staging tree.
CleanThen(p, answer) ==
    /\ job' = [job EXCEPT ![p].step = "cleaning", ![p].answer = answer]
    /\ UNCHANGED <<locked, promised>>

Swept == abandoned \ {"old"}
ArchiveOpens(k) == k.flaw # "archive"
ManifestFits(k) == k.flaw # "manifest"
NewTree(k) == [NoTree EXCEPT !.pack = k]
Written(t, f) == [t EXCEPT !.files = @ \cup {f}, !.synced = @ \cup {f}]
NextFile(t) == IF "metadata" \in t.files THEN "payload" ELSE "metadata"
HashDiffers(k, f) == f = "payload" /\ k.flaw = "payload"
\* Mutant: the directories of the tree are not flushed before the rename
SyncedFiles(t) == [t EXCEPT !.synced = t.files]

SyncedTree(t) == [t EXCEPT !.synced = t.files, !.linked = TRUE]

-----------------------------------------------------------------------------
(* open() and install()                                                     *)

\* Abandoned trees of more than a day are removed, then every entry is read.
OpenCatalog(p) ==
    /\ job[p].step = "closed" /\ LockFree
    /\ \/ /\ Sound /\ abandoned' = Swept
          /\ IF Scanned /\ \A s \in Slots : Occupied(s) => Verified(s)
             THEN job' = [job EXCEPT ![p].step = "open"] ELSE UNCHANGED job
       \/ /\ Faulty /\ "old" \in abandoned /\ abandoned' \in {abandoned, Swept}
          /\ UNCHANGED job
    /\ UNCHANGED <<locked, tree, rooms, installed, promised, rotten, installs>>

\* The lock is tried, never waited for: a call that finds it held is refused
\* and changes nothing.
Install(p, k) ==
    /\ job[p].step = "open" /\ LockFree /\ installs < MaxInstall
    /\ Acquire(p) /\ job' = [job EXCEPT ![p] = [step |-> "validating", pack |-> k, answer |-> "none"]]
    /\ installs' = installs + 1
    /\ UNCHANGED <<tree, abandoned, rooms, installed, promised, rotten, faults>>

\* Archive, manifest, key and signature are looked at before anything is
\* written; a staging directory that could not be made is cleaned up.
Validate(p) ==
    /\ job[p].step = "validating"
    /\ \/ /\ Sound /\ UNCHANGED abandoned
          /\ IF ArchiveOpens(job[p].pack) /\ ManifestFits(job[p].pack)
             THEN tree' = [tree EXCEPT ![p] = NewTree(job[p].pack)] /\ Continue(p, "writing")
             ELSE Answer(p, "invalid") /\ UNCHANGED tree
       \/ /\ Faulty /\ Answer(p, "io") /\ UNCHANGED tree
          /\ abandoned' \in {abandoned, abandoned \cup {"fresh"}}
    /\ UNCHANGED <<rooms, installed, rotten, installs>>

\* A file is created, written, flushed and closed; the hash of an extracted
\* payload is compared with the manifest's.
WriteFile(p) ==
    /\ job[p].step = "writing" /\ tree[p].files # Files
    /\ LET f == NextFile(tree[p]) IN
       \/ /\ Sound /\ tree' = [tree EXCEPT ![p] = Written(@, f)]
          /\ IF HashDiffers(job[p].pack, f) THEN CleanThen(p, "invalid") ELSE Continue(p, "writing")
       \/ Faulty /\ CleanThen(p, "io") /\ UNCHANGED tree
    /\ UNCHANGED <<abandoned, rooms, installed, rotten, installs>>

\* Every file is read again, and its size and hash are kept.
Seal(p) ==
    /\ job[p].step = "writing" /\ tree[p].files = Files
    /\ \/ Sound /\ Continue(p, "deciding")
       \/ Faulty /\ CleanThen(p, "io")
    /\ UNCHANGED <<tree, abandoned, rooms, installed, rotten, installs>>

Refusal(k) ==
    IF k.flaw = "name" THEN "invalid"
    ELSE IF ~Scanned THEN "io"
    ELSE IF Occupied(k.slot)
         THEN IF installed[k.slot].pack # k THEN "exists"
              ELSE IF Verified(k.slot) THEN "already" ELSE "io"
    ELSE IF \E q \in Entries : q.asset = k.asset THEN "duplicate"
    ELSE "none"

Housed(s) == [rooms EXCEPT ![s] = "durable"]

\* install() from the seal to the promotion.
Decide(p) ==
    /\ job[p].step = "deciding"
    /\ LET k == job[p].pack
           refusal == Refusal(k)
       IN \/ refusal # "none" /\ CleanThen(p, refusal) /\ Sound /\ UNCHANGED rooms
          \/ refusal = "none" /\ Sound /\ rooms' = Housed(k.slot) /\ Continue(p, "promoting")
          \/ /\ refusal = "none" /\ Faulty /\ CleanThen(p, "io")
             /\ rooms' \in {rooms, [rooms EXCEPT ![k.slot] = IF @ = "absent" THEN "made" ELSE @]}
    /\ UNCHANGED <<tree, abandoned, installed, rotten, installs>>

\* promoteTo(): the tree is enumerated, read and flushed once more.
VerifyTree(p) ==
    /\ job[p].step = "promoting"
    /\ \/ /\ Sound /\ tree' = [tree EXCEPT ![p] = SyncedTree(@)] /\ Continue(p, "renaming")
       \/ Faulty /\ CleanThen(p, "io") /\ UNCHANGED tree
    /\ UNCHANGED <<abandoned, rooms, installed, rotten, installs>>

\* The rename replaces nothing.
Promote(p) ==
    /\ job[p].step = "renaming"
    /\ LET s == job[p].pack.slot IN
       \/ /\ Sound
          /\ IF Occupied(s) THEN CleanThen(p, "exists") /\ UNCHANGED <<tree, installed>>
             ELSE /\ Continue(p, "flushing")
                  /\ installed' = [installed EXCEPT ![s] = InPlace(tree[p], FALSE)]
                  /\ tree' = [tree EXCEPT ![p] = NoTree]
       \/ Faulty /\ CleanThen(p, "io") /\ UNCHANGED <<tree, installed>>
    /\ UNCHANGED <<abandoned, rooms, rotten, installs>>

\* Both directories are flushed, the second also when the first could not be.
ConfirmDurability(p) ==
    /\ job[p].step = "flushing"
    /\ LET s == job[p].pack.slot IN
       \/ /\ Sound /\ installed' = [installed EXCEPT ![s].settled = TRUE]
          /\ job' = [job EXCEPT ![p].step = "confirming", ![p].answer = "installed"]
       \/ /\ Faulty /\ \E settled \in BOOLEAN : installed' = [installed EXCEPT ![s].settled = settled]
          /\ job' = [job EXCEPT ![p].step = "confirming", ![p].answer = "indeterminate"]
    /\ UNCHANGED <<locked, tree, abandoned, rooms, promised, rotten, installs>>

\* What was renamed is read back before it is called installed.
Reconcile(p) ==
    /\ job[p].step = "confirming"
    /\ LET k == job[p].pack IN
       Answer(p, IF Occupied(k.slot) /\ installed[k.slot].pack = k /\ Verified(k.slot) THEN job[p].answer ELSE "io")
    /\ UNCHANGED <<tree, abandoned, rooms, installed, rotten, faults, installs>>

\* cleanup(), or the destructor of a staging that was not promoted.
CleanUp(p) ==
    /\ job[p].step = "cleaning"
    /\ \/ Sound /\ Answer(p, job[p].answer) /\ UNCHANGED abandoned
       \/ Faulty /\ Answer(p, "io") /\ abandoned' = abandoned \cup {"fresh"}
    /\ tree' = [tree EXCEPT ![p] = NoTree]
    /\ UNCHANGED <<rooms, installed, rotten, installs>>

-----------------------------------------------------------------------------
(* The world                                                                *)

\* The system frees the lock of a process that dies.
Die(p) ==
    /\ job[p].step # "closed" /\ Faulty
    /\ job' = [job EXCEPT ![p] = Closed] /\ locked' = locked \ {p}
    /\ tree' = [tree EXCEPT ![p] = NoTree]
    /\ abandoned' = IF tree[p] = NoTree THEN abandoned ELSE abandoned \cup {"fresh"}
    /\ UNCHANGED <<rooms, installed, promised, rotten, installs>>

\* What may be at a slot after a power loss: a rename, an entry or a file that
\* was not flushed may be lost.
Survivors(s) ==
    LET t == installed[s]
        Kept == IF t.linked THEN {t.synced \cap t.files} ELSE SUBSET (t.synced \cap t.files)
        lost == InPlace(NoTree, TRUE)
    IN IF ~Occupied(s) THEN {t}
       ELSE {[t EXCEPT !.files = kept, !.settled = TRUE] : kept \in Kept}
            \cup (IF t.settled /\ rooms[s] = "durable" THEN {} ELSE {lost})

PowerLoss ==
    /\ Faulty
    /\ job' = [p \in Processes |-> Closed] /\ locked' = {} /\ tree' = [p \in Processes |-> NoTree]
    /\ abandoned' \in SUBSET (abandoned \cup {"fresh"})
    /\ installed' \in [Slots -> UNION {Survivors(s) : s \in Slots}]
    /\ \A s \in Slots : installed'[s] \in Survivors(s)
    /\ rooms' = [s \in Slots |-> IF rooms[s] = "made" /\ installed'[s].pack = NoPack THEN "absent"
                                 ELSE IF rooms[s] = "made" THEN "durable" ELSE rooms[s]]
    /\ promised' = {a \in promised : a.durable}
    /\ UNCHANGED <<rotten, installs>>

Rot(s, f) ==
    /\ Occupied(s) /\ f \in installed[s].files /\ Faulty
    /\ installed' = [installed EXCEPT ![s].files = @ \ {f}] /\ rotten' = rotten \cup {s}
    /\ UNCHANGED <<locked, job, tree, abandoned, rooms, promised, installs>>

Day ==
    /\ "fresh" \in abandoned /\ abandoned' = {"old"}
    /\ UNCHANGED <<locked, job, tree, rooms, installed, promised, rotten, faults, installs>>

-----------------------------------------------------------------------------
InstallStep(p) ==
    \/ Validate(p) \/ WriteFile(p) \/ Seal(p) \/ Decide(p) \/ VerifyTree(p)
    \/ Promote(p) \/ ConfirmDurability(p) \/ Reconcile(p) \/ CleanUp(p)

AvatarNext ==
    \/ \E p \in Processes : OpenCatalog(p) \/ InstallStep(p) \/ Die(p)
    \/ \E p \in Processes, k \in Packs : Install(p, k)
    \/ \E s \in Slots, f \in Files : Rot(s, f)
    \/ PowerLoss \/ Day

\* A call under way is carried on by its thread.
AvatarFairness == \A p \in Processes : WF_avatarVars(InstallStep(p))

AvatarSpec == AvatarInit /\ [][AvatarNext]_avatarVars /\ AvatarFairness
-----------------------------------------------------------------------------
(* Properties                                                               *)

PackOrNone == Packs \cup {NoPack}
Staged == {"writing", "deciding", "promoting", "renaming"}
AvatarTypeOK ==
    /\ locked \subseteq Processes /\ abandoned \subseteq {"fresh", "old"}
    /\ job \in [Processes -> [step : {"closed", "open", "validating", "flushing", "confirming", "cleaning"} \cup Staged,
                              pack : PackOrNone,
                              answer : {"none", "installed", "indeterminate", "already", "exists", "duplicate", "invalid", "io"}]]
    /\ tree \in [Processes -> [pack : PackOrNone, files : SUBSET Files, synced : SUBSET Files, linked : BOOLEAN]]
    /\ rooms \in [Slots -> {"absent", "made", "durable"}]
    /\ installed \in [Slots -> [pack : PackOrNone, files : SUBSET Files, synced : SUBSET Files, linked : BOOLEAN, settled : BOOLEAN]]
    /\ promised \subseteq [pack : Packs, durable : BOOLEAN] /\ rotten \subseteq Slots
    /\ faults \in 0..MaxFault /\ installs \in 0..MaxInstall

\* A version that is there has all its files, also after a death or a power
\* loss in the middle of its installation.
VersionsAreWhole == \A s \in Slots \ rotten : Occupied(s) => installed[s].files = Files

\* A pack answered as installed is served from then on: nothing replaces it, no
\* other pack makes the catalog unreadable, and a durable answer outlives a
\* power loss.
PromisesAreServed == rotten = {} => \A a \in promised : a.pack.slot \in PayloadRoots(a.pack.asset)

\* Only one process works in the catalog, and it leaves a staging tree behind
\* only if a call failed or it died.
TreesHaveOwners ==
    /\ \A p \in Processes : tree[p] # NoTree => locked = {p}
    /\ faults = 0 => abandoned = {}

\* A package that was refused is not among the entries.
OnlySoundPacks == \A k \in Entries : k.flaw = "none"

\* The lock is held by the process whose call is under way, and by no other.
OneWorks == \A p \in Processes : (p \in locked <=> Working(p)) /\ \A q \in locked : p \in locked => p = q

\* A version has been flushed with all its files and names before it was put in its
\* place, in a directory that is on the disk; no two versions are of one asset.
ShelvesHold ==
    /\ \A s \in Slots : Occupied(s) =>
         installed[s].pack.slot = s /\ installed[s].synced = Files /\ installed[s].linked /\ rooms[s] = "durable"
    /\ \A s, t \in Slots : s # t /\ Occupied(s) /\ Occupied(t) => installed[s].pack.asset # installed[t].pack.asset
    /\ \A a \in promised : installed[a.pack.slot].pack = a.pack /\ (a.durable => installed[a.pack.slot].settled)

\* What an installation relies on from its decision to its rename: the lock keeps the
\* place empty and the asset unknown.
Vacant(k) ==
    /\ k.flaw = "none" /\ rooms[k.slot] = "durable" /\ ~Occupied(k.slot)
    /\ \A q \in Entries : q.asset # k.asset

\* How far an installation is shows in its staging tree and at its place.
Ready(p) ==
    LET k == job[p].pack
        step == job[p].step
    IN /\ Working(p) => k \in Packs
       /\ tree[p] # NoTree => step \in Staged \cup {"cleaning"}
       /\ step \in Staged =>
            /\ tree[p].pack = k /\ tree[p].synced = tree[p].files /\ k.flaw \notin {"archive", "manifest"}
            /\ "payload" \in tree[p].files => k.flaw # "payload"
            /\ step # "writing" => tree[p].files = Files
       /\ step \in {"promoting", "renaming"} => Vacant(k)
       /\ step = "renaming" => tree[p].linked
       /\ step \in {"flushing", "confirming"} => installed[k.slot].pack = k
       /\ step = "flushing" => ~installed[k.slot].settled
       /\ step = "confirming" =>
            job[p].answer \in {"installed", "indeterminate"} /\ (job[p].answer = "installed" => installed[k.slot].settled)
       /\ step = "cleaning" =>
            job[p].answer \notin {"installed", "indeterminate"} /\ (job[p].answer = "already" => installed[k.slot].pack = k)
TreesAreReady == \A p \in Processes : Ready(p)

\* What an installation of an avatar pack relies on and promises (FileAvatarCatalog).
AvatarInv ==
    /\ VersionsAreWhole /\ PromisesAreServed /\ TreesHaveOwners /\ OnlySoundPacks
    /\ OneWorks /\ ShelvesHold /\ TreesAreReady

\* A call of install() comes back, or its process dies.
AvatarEnds == \A p \in Processes : Working(p) ~> ~Working(p)
=============================================================================
