---------------------------- MODULE MediaIdentity ----------------------------
(* A recorded media file between its inspection and the commit of the import   *)
(* that records it: FfmpegMediaProbe (src/ffmpeg_adapter) takes a lease on the *)
(* file, RecordingTimelineReconciler verifies the lease before the transaction *)
(* and SqliteTimelineStore at its beginning and at its end, while another      *)
(* program works on the same file.                                             *)
EXTENDS Integers, Sequences

CONSTANTS
    MaxIntrusion,   \* bound: what the other program does
    MaxProbe        \* bound: imports tried

ASSUME MediaAssumption == MaxIntrusion \in Nat /\ MaxProbe \in Nat

VARIABLES
    unix,           \* whether the platform is a POSIX one, or Windows
    coarse,         \* whether a change may leave the change stamp as it was
    named,          \* the file under the path: an element of DOMAIN files, or Gone
    files,          \* every file there was: [parts, links, stamp]
    writing,        \* the file the other program holds open for writing, or Gone
    intrusions, probes,
    lease,          \* the importer: where it is and what it holds
    wholes,         \* every content a file under the path had as a whole
    atLastLook      \* the content of the held file when it was last verified

mediaVars == <<unix, coarse, named, files, writing, intrusions, probes, lease, wholes, atLastLook>>

\* The file is found with two pieces; what is written is numbered, so that nothing
\* is written twice.
Gone == 0
NoLease == [step |-> "idle", held |-> Gone, size |-> 0, stamp |-> 0, copy |-> <<>>, again |-> <<>>, looks |-> 0]

MediaInit ==
    /\ unix \in BOOLEAN /\ coarse \in BOOLEAN /\ (coarse => unix)
    /\ named = 1 /\ files = <<[parts |-> <<0, 0>>, links |-> 1, stamp |-> 0]>>
    /\ writing = Gone /\ intrusions = 0 /\ probes = 0
    /\ lease = NoLease /\ wholes = {<<0, 0>>} /\ atLastLook = <<>>

Held == files[lease.held]
Refused == lease' = [NoLease EXCEPT !.step = "refused"] /\ UNCHANGED atLastLook
Proceeds(to) == lease' = [lease EXCEPT !.step = to] /\ UNCHANGED atLastLook
Importer == UNCHANGED <<unix, coarse, named, files, writing, intrusions, wholes>>

-----------------------------------------------------------------------------
(* probe()                                                                  *)

\* The path names a regular file with one name.
Valid == named # Gone /\ files[named].links = 1

Inspect ==
    /\ lease.step \in {"idle", "refused"} /\ probes < MaxProbe /\ probes' = probes + 1
    /\ IF Valid THEN lease' = [NoLease EXCEPT !.step = "open"] /\ UNCHANGED atLastLook ELSE Refused
    /\ Importer

OpenAs(step) ==
    /\ lease' = [lease EXCEPT !.held = named, !.size = Len(files[named].parts), !.stamp = files[named].stamp, !.step = step]
    /\ UNCHANGED atLastLook
HasMedia == Valid /\ files[named].parts # <<>>

\* Windows opens the file so that nobody may write, rename or delete it, and not
\* at all while somebody has it open for writing.
LockFile ==
    /\ lease.step = "open" /\ ~unix
    /\ IF HasMedia /\ writing # named THEN OpenAs("parse") ELSE Refused
    /\ Importer /\ UNCHANGED probes

\* POSIX opens the file and will copy it.
OpenSource ==
    /\ lease.step = "open" /\ unix
    /\ IF HasMedia THEN OpenAs("copy") ELSE Refused
    /\ Importer /\ UNCHANGED probes

\* One more piece is read, into the private snapshot or for the second hash.
ReadOn(read, taken, then) ==
    IF Len(read) >= Len(Held.parts) THEN Refused
    ELSE /\ lease' = [taken EXCEPT !.step = IF Len(read) + 1 = lease.size THEN then ELSE @]
         /\ UNCHANGED atLastLook
WithNext(read) == Append(read, Held.parts[Len(read) + 1])

CopyPiece ==
    /\ lease.step = "copy" /\ Importer /\ UNCHANGED probes
    /\ ReadOn(lease.copy, [lease EXCEPT !.copy = WithNext(@)], "hash")

HashPiece ==
    /\ lease.step = "hash" /\ Importer /\ UNCHANGED probes
    /\ ReadOn(lease.again, [lease EXCEPT !.again = WithNext(@)], "compare")

\* The held file is still the one that was opened.
Unchanged == Held.links = 1 /\ Len(Held.parts) = lease.size /\ (unix => Held.stamp = lease.stamp)

CompareSnapshot ==
    /\ lease.step = "compare"
    /\ IF Unchanged /\ lease.again = lease.copy THEN Proceeds("parse") ELSE Refused
    /\ Importer /\ UNCHANGED probes

\* FFmpeg reads the snapshot, or the locked file, and so does the hash that is
\* recorded; it may find no medium in it.
Parse ==
    /\ lease.step = "parse"
    /\ \/ /\ lease' = [lease EXCEPT !.step = "held", !.copy = IF unix THEN @ ELSE Held.parts]
          /\ UNCHANGED atLastLook
       \/ Refused
    /\ Importer /\ UNCHANGED probes

-----------------------------------------------------------------------------
(* verifyCurrentIdentity(): by the reconciler, and by the store when its       *)
(* transaction begins and before it is committed                               *)

Looks == 3

VerifyHeld ==
    /\ lease.step = "held"
    /\ IF Unchanged
       THEN /\ lease' = [lease EXCEPT !.step = "path", !.looks = @ + 1] /\ atLastLook' = Held.parts
       ELSE Refused
    /\ Importer /\ UNCHANGED probes

\* POSIX looks under the path, too.
VerifyPath ==
    /\ lease.step = "path"
    /\ IF unix /\ ~(Valid /\ named = lease.held) THEN Refused
       ELSE Proceeds(IF lease.looks = Looks THEN "commit" ELSE "held")
    /\ Importer /\ UNCHANGED probes

\* The assets are recorded with the size and the hash of the snapshot.
CommitImport == lease.step = "commit" /\ Proceeds("recorded") /\ Importer /\ UNCHANGED probes

-----------------------------------------------------------------------------
(* The other program                                                        *)

Locked == ~unix /\ lease.held # Gone
Intrudes == intrusions < MaxIntrusion /\ intrusions' = intrusions + 1 /\ UNCHANGED <<unix, coarse, probes, lease, atLastLook>>
\* A change gives a file a new stamp, or none if two fall into one tick of the
\* file system.
Stamps(f) == {intrusions + 1} \cup (IF coarse THEN {files[f].stamp} ELSE {})

\* A file can be opened for writing while it has its name.
OpenForWriting ==
    /\ Intrudes /\ writing = Gone /\ named # Gone /\ ~Locked
    /\ writing' = named /\ UNCHANGED <<named, files, wholes>>

Rewrite(parts) ==
    /\ \E s \in Stamps(writing) : files' = [files EXCEPT ![writing].parts = parts, ![writing].stamp = s]
    /\ wholes' = wholes \cup (IF writing = named THEN {parts} ELSE {})
    /\ UNCHANGED <<named, writing>>

\* One piece is written, the last is cut off, or one is added.
WritePiece ==
    /\ Intrudes /\ writing # Gone
    /\ \E n \in DOMAIN files[writing].parts : Rewrite([files[writing].parts EXCEPT ![n] = intrusions + 1])

CutFile ==
    /\ Intrudes /\ writing # Gone /\ files[writing].parts # <<>>
    /\ Rewrite(SubSeq(files[writing].parts, 1, Len(files[writing].parts) - 1))

GrowFile == Intrudes /\ writing # Gone /\ Rewrite(Append(files[writing].parts, intrusions + 1))

CloseFile ==
    /\ writing # Gone /\ writing' = Gone
    /\ UNCHANGED <<unix, coarse, named, files, intrusions, probes, lease, wholes, atLastLook>>

\* Another file takes the name, or none.
Renamed(f, links) == \E s \in Stamps(f) : files' = [files EXCEPT ![f].links = links, ![f].stamp = s]
NewFile == [parts |-> <<intrusions + 1, intrusions + 1>>, links |-> 1, stamp |-> intrusions + 1]

LoseName(links) ==
    /\ Intrudes /\ ~Locked /\ (unix \/ writing = Gone)
    /\ named' = Gone /\ Renamed(named, links)
    /\ UNCHANGED <<writing, wholes>>
DeleteFile == named # Gone /\ LoseName(files[named].links - 1)
MoveAway == named # Gone /\ LoseName(files[named].links)

PutFile ==
    /\ Intrudes /\ ~Locked /\ named = Gone
    /\ named' = Len(files) + 1 /\ files' = Append(files, NewFile)
    /\ wholes' = wholes \cup {NewFile.parts}
    /\ UNCHANGED writing

\* A second name is no write, and Windows allows it for a file that is locked.
LinkFile ==
    /\ Intrudes /\ named # Gone /\ Renamed(named, files[named].links + 1)
    /\ UNCHANGED <<named, writing, wholes>>

-----------------------------------------------------------------------------
ProbeStep ==
    \/ LockFile \/ OpenSource \/ CopyPiece \/ HashPiece \/ CompareSnapshot \/ Parse
    \/ VerifyHeld \/ VerifyPath \/ CommitImport
MediaNext ==
    \/ Inspect \/ ProbeStep
    \/ OpenForWriting \/ WritePiece \/ CutFile \/ GrowFile \/ CloseFile
    \/ DeleteFile \/ MoveAway \/ PutFile \/ LinkFile

-----------------------------------------------------------------------------
(* Properties                                                               *)

Before == {"idle", "refused", "open"}
Looked == {"path", "commit", "recorded"}
Parsed == {"held"} \cup Looked
Reading == {"copy", "hash", "compare"}
Holding == Reading \cup {"parse"} \cup Parsed
Begins(some, all) == Len(some) <= Len(all) /\ \A n \in 1..Len(some) : some[n] = all[n]

MediaTypeOK ==
    /\ unix \in BOOLEAN /\ coarse \in BOOLEAN
    /\ files \in Seq([parts : Seq(0..MaxIntrusion), links : Int, stamp : 0..MaxIntrusion])
    /\ named \in 0..Len(files) /\ writing \in 0..Len(files)
    /\ lease \in [step : Before \cup Holding, held : 0..Len(files), size : Nat, stamp : 0..MaxIntrusion,
                  copy : Seq(0..MaxIntrusion), again : Seq(0..MaxIntrusion), looks : Nat]
    /\ intrusions \in 0..MaxIntrusion /\ probes \in 0..MaxProbe

\* What an import records of a file is what the file began with at one time: not
\* some of it from before a change and some from after it, also if change stamps
\* do not tell; and it is all of the file at one time if they do.
RecordedIsWhole ==
    lease.step = "recorded" =>
        /\ \E w \in wholes : Begins(lease.copy, w)
        /\ ~coarse => lease.copy \in wholes

\* It is what the file was when it was last looked at, inside the transaction; and
\* on Windows what it is, under its own name.
RecordedIsCurrent ==
    lease.step = "recorded" =>
        /\ ~coarse => lease.copy = atLastLook
        /\ ~unix => lease.copy = Held.parts /\ named = lease.held

\* Everything written is older than the next intrusion, and what is under the path
\* is a whole; a lease is held of one file, which on Windows keeps its name and is
\* written by nobody.
LeaseKeeps ==
    /\ coarse => unix
    /\ \A f \in 1..Len(files) :
         files[f].stamp <= intrusions /\ \A n \in 1..Len(files[f].parts) : files[f].parts[n] <= intrusions
    /\ named # Gone => files[named].parts \in wholes
    /\ lease.step \in Holding <=> lease.held # Gone
    /\ lease.step \in Before => lease.copy = <<>>
    /\ lease.step \in Before \cup {"copy"} => lease.again = <<>>
    /\ lease.step \in Holding /\ ~unix =>
         /\ named = lease.held /\ writing # lease.held /\ lease.step \notin Reading
         /\ lease.step \in Parsed => lease.copy = Held.parts
         /\ lease.step \in Looked => atLastLook = Held.parts
    /\ lease.step \in Holding /\ unix =>
         /\ lease.stamp <= Held.stamp
         /\ IF lease.step = "copy" THEN Len(lease.copy) < lease.size ELSE Len(lease.copy) = lease.size
         /\ lease.step = "hash" => Len(lease.again) < lease.size
         /\ lease.step = "compare" => Len(lease.again) = lease.size
         /\ \A n \in 1..Len(lease.copy) : lease.copy[n] <= intrusions

\* The lease is past the last look at the path, or before it with the name still there.
Founded(steps) ==
    lease.step \in {"commit", "recorded"} \/ (lease.step \in steps /\ named = lease.held)

\* Where a change has a stamp of its own, a held file with the stamp it was opened
\* with is the file that was copied.
StampsTell ==
    ~coarse /\ unix /\ lease.step \in Holding =>
        /\ Held.stamp = lease.stamp => Len(Held.parts) = lease.size /\ Begins(lease.copy, Held.parts)
        /\ lease.step \in Looked => lease.copy = atLastLook
        /\ Founded({"path"}) => lease.copy \in wholes

\* Where it has not, reading twice tells: what is written is never what was there
\* before, so a piece read twice alike was there all the time between, and thus when
\* the last piece had been copied.
ReadingTwiceTells ==
    unix =>
        /\ lease.step \in {"hash", "compare"} /\ named = lease.held =>
             \E w \in wholes :
                /\ lease.size <= Len(w)
                /\ \A n \in 1..lease.size :
                     w[n] = lease.copy[n] \/ ~(n <= Len(Held.parts) /\ Held.parts[n] = lease.copy[n])
                /\ \A n \in 1..Len(lease.again) : lease.again[n] = lease.copy[n] => w[n] = lease.copy[n]
        /\ Founded({"parse", "held", "path"}) => \E w \in wholes : Begins(lease.copy, w)

\* What FfmpegMediaProbe's leases are for.
MediaInv == RecordedIsWhole /\ RecordedIsCurrent /\ LeaseKeeps /\ StampsTell /\ ReadingTwiceTells
=============================================================================
