---------------------------- MODULE PackageLibrary ----------------------------
(* Creating and opening project packages (ProjectPackageStore,              *)
(* JsonProjectStore, MigrationRunner) and the list of recent projects       *)
(* (RecentProjectRegistry), by the project workers of several processes.  A *)
(* package is staged beside its place and renamed; an old database is       *)
(* migrated step by step when it is opened.                                 *)
EXTENDS Integers, Sequences, Functions

CONSTANTS
    Workers,      \* processes, each with one project worker
    Paths,        \* places of packages
    Found,        \* packages that may be at each path at first
    Latest,       \* the last migration of this build
    RecentLimit,  \* rows of the list of recent projects
    MaxCalls,     \* bound: creations, openings and scans
    MaxTrouble    \* bound: failures, deaths, power losses, files replaced

ASSUME PackageAssumption ==
    Latest \in Nat \ {0} /\ RecentLimit \in Nat \ {0} /\ MaxCalls \in Nat /\ MaxTrouble \in Nat

VARIABLES
    place,        \* the package at each path
    staging,      \* the staging directory of each worker's creation
    litter,       \* whether staging directories were left behind
    work,          \* what each worker does
    recents,      \* recent-projects.json: [rows, good]
    calls, trouble

packageVars == <<place, staging, litter, work, recents, calls, trouble>>

\* A database: user_version, the migrations whose tables exist, the rows of
\* schema_migrations and whether the project's row is there; with the identity
\* of its file, what else is wrong with the package, and whether the directory
\* above holds its name on the disk.
Package(schema, tables, rows, project, flaw) ==
    [schema |-> schema, tables |-> tables, rows |-> rows, project |-> project, flaw |-> flaw,
     file |-> 0, settled |-> TRUE]
NoPackage == Package(0, {}, 0, FALSE, "absent")
Sealed(v) == Package(v, 1..v, v, TRUE, "none")

\* What is found at a path is nothing, whole, or has one flaw.
Flaws == {"none", "absent", "manifest", "database", "newer", "rows", "foreign"}
Databases == [schema : Nat, tables : SUBSET Nat, rows : Nat, project : BOOLEAN, flaw : Flaws, file : Nat, settled : BOOLEAN]
Consistent(db) == db.tables = 1..db.schema /\ db.rows = db.schema /\ db.schema <= Latest
ASSUME FoundAssumption ==
    \A p \in Paths : \A db \in Found[p] :
        /\ db \in Databases /\ db.settled
        /\ db.flaw \in {"none", "foreign"} => Consistent(db)
        /\ db.flaw = "none" => db.project
        /\ db.flaw = "absent" => db = NoPackage
        /\ db.flaw = "newer" => db.schema > Latest
        /\ db.flaw = "rows" => db.rows # db.schema

NoJob == [step |-> "idle", path |-> "none", rest |-> <<>>, keep |-> FALSE, lease |-> 0, schema |-> 0,
          seen |-> <<>>, raced |-> FALSE, answer |-> "none"]

PackageInit ==
    /\ place \in {first \in [Paths -> UNION {Found[p] : p \in Paths}] : \A p \in Paths : first[p] \in Found[p]}
    /\ staging = [w \in Workers |-> NoPackage] /\ litter = FALSE
    /\ work = [w \in Workers |-> NoJob]
    /\ recents = [rows |-> <<>>, good |-> TRUE] /\ calls = 0 /\ trouble = 0

Trouble == trouble < MaxTrouble /\ trouble' = trouble + 1
Smoothly == UNCHANGED trouble
At(w, step) == work[w].step = step
Path(w) == work[w].path
Goes(w, step) == work' = [work EXCEPT ![w].step = step]
\* A scan of the recent projects goes on with the next one whatever became of
\* this one; any other job ends.
Finish(w, answer) ==
    LET j == work[w] IN
    work' = [work EXCEPT ![w] =
        IF j.rest # <<>> THEN [j EXCEPT !.step = "open", !.path = Head(j.rest), !.rest = Tail(@)]
        ELSE [NoJob EXCEPT !.answer = answer, !.path = j.path, !.raced = j.raced]]
Fails(w) == Finish(w, "failed")
DropStaging(w) == staging' = [staging EXCEPT ![w] = NoPackage]

-----------------------------------------------------------------------------
(* Creating a package                                                       *)

CreateProject(w, path) ==
    /\ At(w, "idle") /\ calls < MaxCalls /\ calls' = calls + 1
    /\ work' = [work EXCEPT ![w] = [NoJob EXCEPT !.path = path, !.keep = TRUE,
                 !.step = IF place[path] = NoPackage THEN "stage" ELSE "idle",
                 !.answer = IF place[path] = NoPackage THEN "none" ELSE "exists"]]
    /\ UNCHANGED <<place, staging, litter, recents, trouble>>

\* A failure removes the staging directory, if that can be removed.
GivesUp(w) ==
    /\ Trouble /\ Fails(w) /\ DropStaging(w)
    /\ litter' \in {litter, TRUE}

\* A manifest is written beside its name, flushed and renamed.
StagedPackage == [NoPackage EXCEPT !.flaw = "none", !.settled = FALSE]

\* The directories, the manifest and the avatar directory.
StageManifest(w) ==
    /\ At(w, "stage")
    /\ \/ /\ Smoothly /\ staging' = [staging EXCEPT ![w] = StagedPackage]
          /\ Goes(w, "database") /\ UNCHANGED litter
       \/ GivesUp(w)
    /\ UNCHANGED <<place, recents, calls>>

\* Migrated, were the version not written.
UnversionedMigration(db) == [db EXCEPT !.tables = @ \cup {db.schema + 1}]

\* One migration is one transaction: its tables, its row and the version.
Migrated(db) ==
    [db EXCEPT !.schema = @ + 1, !.tables = @ \cup {db.schema + 1}, !.rows = @ + 1]

StageDatabase(w) ==
    /\ At(w, "database")
    /\ \/ /\ Smoothly /\ UNCHANGED litter
          /\ IF staging[w].schema < Latest
             THEN staging' = [staging EXCEPT ![w] = Migrated(@)] /\ UNCHANGED work
             ELSE staging' = [staging EXCEPT ![w].project = TRUE] /\ Goes(w, "publish")
       \/ GivesUp(w)
    /\ UNCHANGED <<place, recents, calls>>

\* The rename takes an empty place only; the directory above is not flushed.
Publish(w) ==
    /\ At(w, "publish")
    /\ \/ /\ place[Path(w)] = NoPackage /\ Smoothly
          /\ place' = [place EXCEPT ![Path(w)] = staging[w]]
          /\ Goes(w, "open") /\ DropStaging(w) /\ UNCHANGED litter
       \/ /\ place[Path(w)] # NoPackage /\ Smoothly
          /\ Finish(w, "exists") /\ DropStaging(w) /\ UNCHANGED <<place, litter>>
       \/ GivesUp(w) /\ UNCHANGED place
    /\ UNCHANGED <<recents, calls>>

-----------------------------------------------------------------------------
(* Opening a package                                                        *)

OpenProject(w, path) ==
    /\ At(w, "idle") /\ calls < MaxCalls /\ calls' = calls + 1
    /\ work' = [work EXCEPT ![w] = [NoJob EXCEPT !.path = path, !.keep = TRUE, !.step = "open"]]
    /\ UNCHANGED <<place, staging, litter, recents, trouble>>

\* The rows of some of the paths, in the order they have.
RowsOf(rows, some) ==
    LET kept == {n \in 1..Len(rows) : rows[n] \in some}
        order == CHOOSE f \in UNION {[1..n -> kept] : n \in 0..Len(rows)} :
                    /\ \A i, j \in DOMAIN f : i < j => f[i] < f[j]
                    /\ \A n \in kept : \E i \in DOMAIN f : f[i] = n
    IN [i \in DOMAIN order |-> rows[order[i]]]

\* A list that cannot be read shows nothing; what is not there is not opened.
RefreshRecentProjects(w) ==
    LET there == RowsOf(recents.rows, {path \in Paths : place[path] # NoPackage}) IN
    /\ At(w, "idle") /\ calls < MaxCalls /\ calls' = calls + 1
    /\ recents.good /\ there # <<>>
    /\ work' = [work EXCEPT ![w] = [NoJob EXCEPT !.path = Head(there), !.rest = Tail(there), !.step = "open"]]
    /\ UNCHANGED <<place, staging, litter, recents, trouble>>

\* A manifest of a newer build or of another shape is refused, and so is a
\* database that is not a plain file inside the package.
ManifestReads(path) == place[path].flaw \notin {"absent", "manifest"}
DatabaseExists(path) == place[path].flaw # "database"
Lease(path) == place[path].file

\* The manifest is read and the file it names is held.
HoldDatabase(w) ==
    /\ At(w, "open")
    /\ \/ /\ ManifestReads(Path(w)) /\ DatabaseExists(Path(w)) /\ Smoothly
          /\ work' = [work EXCEPT ![w].step = "version", ![w].lease = Lease(Path(w))]
       \/ ~(ManifestReads(Path(w)) /\ DatabaseExists(Path(w))) /\ Smoothly /\ Finish(w, "unfit")
       \/ Trouble /\ Fails(w)
    /\ UNCHANGED <<place, staging, litter, recents, calls>>

\* Whether the file held is still the one at its place.
VerifyCurrentIdentity(w) == place[Path(w)] # NoPackage /\ Lease(Path(w)) = work[w].lease

\* ReadVersion, were a database of a newer build not refused.
ReadAnyVersion(w) ==
    LET db == place[Path(w)] IN
    /\ At(w, "version")
    /\ IF VerifyCurrentIdentity(w) /\ db.rows = db.schema
       THEN work' = [work EXCEPT ![w].step = "migrate", ![w].schema = db.schema]
       ELSE Fails(w)
    /\ UNCHANGED <<place, staging, litter, recents, calls, trouble>>

\* The version is read before any transaction begins.
ReadVersion(w) ==
    LET db == place[Path(w)] IN
    /\ At(w, "version")
    /\ IF VerifyCurrentIdentity(w) /\ db.schema <= Latest /\ db.rows = db.schema
       THEN work' = [work EXCEPT ![w].step = "migrate", ![w].schema = db.schema]
       ELSE Fails(w)
    /\ UNCHANGED <<place, staging, litter, recents, calls, trouble>>

\* A migration another process has made meanwhile cannot be made again.  The
\* transactions of a file that was replaced go nowhere.
Migrate(w) ==
    LET path == Path(w)
        db == [place[path] EXCEPT !.schema = work[w].schema] IN
    /\ At(w, "migrate")
    /\ \/ /\ work[w].schema = Latest /\ Smoothly /\ Goes(w, "identify") /\ UNCHANGED place
       \/ /\ work[w].schema < Latest /\ VerifyCurrentIdentity(w) /\ db.schema + 1 \notin db.tables
          /\ Smoothly /\ place' = [place EXCEPT ![path] = Migrated(db)]
          /\ work' = [v \in Workers |->
                IF v = w THEN [work[v] EXCEPT !.schema = @ + 1]
                ELSE [work[v] EXCEPT !.raced = @ \/ (work[v].path = path /\ At(v, "migrate"))]]
       \/ /\ work[w].schema < Latest /\ VerifyCurrentIdentity(w) /\ db.schema + 1 \in db.tables
          /\ Smoothly /\ Fails(w) /\ UNCHANGED place
       \/ /\ work[w].schema < Latest /\ ~VerifyCurrentIdentity(w)
          /\ Smoothly /\ work' = [work EXCEPT ![w].schema = @ + 1] /\ UNCHANGED place
       \/ Trouble /\ Fails(w) /\ UNCHANGED place
    /\ UNCHANGED <<staging, litter, recents, calls>>

\* The database has one project, that of the manifest, in the file that was
\* held; recordings to recover are looked for, and the avatar directory is made
\* if it is missing.
Identify(w) ==
    /\ At(w, "identify")
    /\ \/ /\ Smoothly
          /\ IF VerifyCurrentIdentity(w) /\ place[Path(w)].project
             THEN IF work[w].keep THEN Goes(w, "remember") ELSE Finish(w, "scanned")
             ELSE Fails(w)
       \/ Trouble /\ Fails(w)
    /\ UNCHANGED <<place, staging, litter, recents, calls>>

-----------------------------------------------------------------------------
(* The list of recent projects                                              *)

\* A malformed list is put aside.
Remember(w) ==
    /\ At(w, "remember")
    /\ \/ /\ Smoothly
          /\ work' = [work EXCEPT ![w].step = "note", ![w].seen = IF recents.good THEN recents.rows ELSE <<>>]
          /\ recents' = IF recents.good THEN recents ELSE [rows |-> <<>>, good |-> TRUE]
       \/ Trouble /\ Finish(w, "opened") /\ UNCHANGED recents
    /\ UNCHANGED <<place, staging, litter, calls>>

Remembered(rows, path) ==
    LET others == RowsOf(rows, Paths \ {path}) IN
    SubSeq(<<path>> \o others, 1, IF Len(others) < RecentLimit THEN Len(others) + 1 ELSE RecentLimit)

\* QSaveFile replaces the file as a whole; a failure is a warning.
Note(w) ==
    /\ At(w, "note") /\ Finish(w, "opened")
    /\ \/ Smoothly /\ recents' = [rows |-> Remembered(work[w].seen, Path(w)), good |-> TRUE]
       \/ Trouble /\ UNCHANGED recents
    /\ UNCHANGED <<place, staging, litter, calls>>

-----------------------------------------------------------------------------
(* The world                                                                *)

Dead(w) == work[w].step # "idle"
WorkerDies(w) ==
    /\ Dead(w) /\ Trouble /\ work' = [work EXCEPT ![w] = NoJob] /\ DropStaging(w)
    /\ litter' = (litter \/ staging[w] # NoPackage)
    /\ UNCHANGED <<place, recents, calls>>

\* A package whose name was never flushed may be gone; SQLite has flushed the
\* rest.
PowerFails ==
    /\ Trouble /\ work' = [w \in Workers |-> NoJob]
    /\ place' \in {new \in [Paths -> {place[p] : p \in Paths} \cup {NoPackage}] :
                     \A p \in Paths : new[p] = place[p] \/ (~place[p].settled /\ new[p] = NoPackage)}
    /\ staging' = [w \in Workers |-> NoPackage]
    /\ litter' \in {litter, litter \/ \E w \in Workers : staging[w] # NoPackage}
    /\ UNCHANGED <<recents, calls>>

\* The file system writes its directories in its own time.
Settle(path) ==
    /\ ~place[path].settled /\ place' = [place EXCEPT ![path].settled = TRUE]
    /\ UNCHANGED <<staging, litter, work, recents, calls, trouble>>

\* The user puts an older copy of the database in its place.
RestoreCopy(path) ==
    /\ Trouble /\ place[path].flaw = "none" /\ place[path].schema \in 2..Latest
    /\ place' = [place EXCEPT ![path] = [Sealed(1) EXCEPT !.file = place[path].file + 1, !.settled = place[path].settled]]
    /\ UNCHANGED <<staging, litter, work, recents, calls>>

SpoilList ==
    /\ Trouble /\ recents.rows # <<>> /\ recents.good
    /\ recents' = [rows |-> <<>>, good |-> FALSE]
    /\ UNCHANGED <<place, staging, litter, work, calls>>

-----------------------------------------------------------------------------
WorkerStep(w) ==
    \/ StageManifest(w) \/ StageDatabase(w) \/ Publish(w)
    \/ HoldDatabase(w) \/ ReadVersion(w) \/ Migrate(w) \/ Identify(w)
    \/ Remember(w) \/ Note(w)

PackageNext ==
    \/ \E w \in Workers, path \in Paths : CreateProject(w, path) \/ OpenProject(w, path)
    \/ \E w \in Workers : RefreshRecentProjects(w) \/ WorkerStep(w) \/ WorkerDies(w)
    \/ PowerFails \/ SpoilList
    \/ \E path \in Paths : Settle(path) \/ RestoreCopy(path)

PackageFairness == \A w \in Workers : WF_packageVars(WorkerStep(w))
-----------------------------------------------------------------------------
(* Properties                                                               *)

WorkSteps == {"idle", "stage", "database", "publish", "open", "version", "migrate", "identify", "remember", "note"}
PackageTypeOK ==
    /\ place \in [Paths -> Databases] /\ staging \in [Workers -> Databases]
    /\ work \in [Workers -> [step : WorkSteps, path : Paths \cup {"none"}, rest : Seq(Paths), keep : BOOLEAN, lease : Nat,
                             schema : 0..Latest, seen : Seq(Paths), raced : BOOLEAN,
                             answer : {"none", "exists", "failed", "unfit", "opened", "scanned"}]]
    /\ recents \in [rows : Seq(Paths), good : BOOLEAN]
    /\ litter \in BOOLEAN /\ trouble \in 0..MaxTrouble /\ calls \in 0..MaxCalls

\* Whatever died, failed or ran at the same time, a package that was whole, or
\* was created here, has a version that agrees with its tables and its
\* migrations' rows (applyMigrations), and its project.
PackagesAreWhole == \A p \in Paths : place[p].flaw = "none" => Consistent(place[p]) /\ place[p].project

\* A database of a newer build, or one whose rows do not agree, is left as it
\* was found (MigrationRunner).
StrangersAreLeftAlone == \A p \in Paths : place[p].flaw \notin {"none", "foreign"} => place[p] \in Found[p] \cup {NoPackage}

\* A project is remembered only when its database is that of this build, in the
\* file at its place (openValidatedDatabase).
OpenedIsCurrent ==
    \A w \in Workers : work[w].step \in {"remember", "note"} =>
        LET db == place[Path(w)] IN
        work[w].schema = Latest /\ (db.file = work[w].lease => db.schema = Latest /\ db.project)

\* Staging directories stay only where something failed or died
\* (removeGeneratedStaging), and no creation leaves its own after it.
StagingIsRemoved ==
    /\ litter => trouble > 0
    /\ \A w \in Workers : staging[w] # NoPackage => work[w].step \in {"database", "publish"}

\* Opening a good package fails only where something failed or another process
\* migrated the database at the same time.
OpenFailsForAReason ==
    \A w \in Workers : work[w].answer = "failed" =>
        \/ trouble > 0 \/ work[w].raced \/ place[Path(w)].flaw # "none" \/ place[Path(w)].schema > Latest

\* The list names no project twice and is never longer than its limit.
RecentsAreTidy == Len(recents.rows) <= RecentLimit /\ IsInjective(recents.rows)

\* A flaw found stays what it was, and so does a package of another project's.
FlawsStay ==
    \A p \in Paths :
        LET db == place[p] IN
        /\ db.flaw = "foreign" => Consistent(db)
        /\ db.flaw = "absent" => db = NoPackage
        /\ db.flaw = "newer" => db.schema > Latest
        /\ db.flaw = "rows" => db.rows # db.schema

\* A creation has in its staging directory what it has done so far.
StagingIsAhead ==
    \A w \in Workers :
        LET db == staging[w] IN
        work[w].step \in {"database", "publish"} =>
            /\ db.flaw = "none" /\ Consistent(db)
            /\ work[w].step = "publish" => db.schema = Latest /\ db.project

\* A worker that holds the file of a package finds it there, or another in its place
\* if there was trouble; the version it has read is that of the file, unless another
\* worker has migrated it meanwhile.
HasLease(w, from) == work[w].step \in from \cup {"migrate", "identify", "remember", "note"}
LeasesAgree ==
    \A w \in Workers :
        LET db == place[Path(w)] IN
        /\ work[w].step # "idle" \/ work[w].answer # "none" => Path(w) \in Paths
        /\ work[w].step # "idle" => work[w].answer = "none"
        /\ HasLease(w, {"version"}) =>
             db.flaw \notin {"absent", "manifest", "database"} /\ work[w].lease <= db.file /\ (work[w].lease = db.file \/ trouble > 0)
        /\ HasLease(w, {}) => db.flaw \in {"none", "foreign"}
        /\ HasLease(w, {}) /\ work[w].lease = db.file =>
             work[w].schema <= db.schema /\ (work[w].schema < db.schema => work[w].raced)
        /\ work[w].step \in {"identify", "remember", "note"} => work[w].schema = Latest
        /\ work[w].answer = "failed" => trouble > 0 \/ work[w].raced \/ db.flaw \in {"newer", "rows", "foreign"}
        /\ Len(work[w].seen) <= RecentLimit /\ IsInjective(work[w].seen)

\* What the project workers rely on and promise.
PackageInv ==
    /\ PackagesAreWhole /\ StrangersAreLeftAlone /\ OpenedIsCurrent
    /\ StagingIsRemoved /\ OpenFailsForAReason /\ RecentsAreTidy
    /\ FlawsStay /\ StagingIsAhead /\ LeasesAgree

\* A creation, an opening and a scan of the list end.
PackageEnds == \A w \in Workers : work[w].step # "idle" ~> work[w].step = "idle"
=============================================================================
