------------------------------ MODULE MCLibrary ------------------------------
(***************************************************************************)
(* The stores that keep whole files and directories, for TLC: the catalog  *)
(* of avatar packs, an avatar's two files, the project packages with the   *)
(* list of recent ones, and a recorded medium on its way into a timeline.  *)
(* They share no state; the initial state says which of them moves.        *)
(***************************************************************************)
EXTENDS AvatarCatalog, AvatarSpecStore, PackageLibrary, MediaIdentity

VARIABLE shelf   \* "packs", "avatar", "projects" or "media"

vars == <<shelf, avatarVars, specVars, packageVars, mediaVars>>

\* Two packs for one version, two of one asset, and one for each refusal.
Pack(name, slot, asset, flaw) == [name |-> name, slot |-> slot, asset |-> asset, flaw |-> flaw]
MCPacks == {Pack("a", "s", "x", "none"), Pack("b", "s", "y", "none"), Pack("c", "t", "x", "none"),
            Pack("d", "t", "z", "archive"), Pack("g", "t", "z", "manifest"), Pack("e", "t", "z", "payload"), Pack("f", "t", "z", "name")}

\* One path with a current package, one with nothing, an old one, or one that
\* is refused for each of the reasons there are.
Spoiled(v, flaw) == [Sealed(v) EXCEPT !.flaw = flaw]
MCFound == [p \in Paths |->
    IF p = "y" THEN {Sealed(Latest)}
    ELSE {NoPackage, Sealed(1), Spoiled(Latest + 1, "newer"), Spoiled(Latest, "manifest"), Spoiled(Latest, "database"),
          [Spoiled(Latest, "rows") EXCEPT !.rows = 1], [Spoiled(Latest, "foreign") EXCEPT !.project = FALSE]}]

Init ==
    /\ shelf \in {"packs", "avatar", "projects", "media"}
    /\ AvatarInit /\ SpecInit /\ PackageInit /\ MediaInit
    /\ shelf # "avatar" => posix
    /\ shelf # "projects" => place = [p \in Paths |-> Sealed(IF p = "y" THEN Latest ELSE 1)]
    /\ shelf # "media" => ~unix

Next ==
    \/ shelf = "packs" /\ AvatarNext /\ UNCHANGED <<shelf, specVars, packageVars, mediaVars>>
    \/ shelf = "avatar" /\ SpecNext /\ UNCHANGED <<shelf, avatarVars, packageVars, mediaVars>>
    \/ shelf = "projects" /\ PackageNext /\ UNCHANGED <<shelf, avatarVars, specVars, mediaVars>>
    \/ shelf = "media" /\ MediaNext /\ UNCHANGED <<shelf, avatarVars, specVars, packageVars>>

\* Every call has ended and the bounds allow no other.
Rest ==
    /\ \A p \in Processes : ~Working(p)
    /\ save.step = "idle" /\ load.step \in {"idle", "done"}
    /\ \A w \in Workers : work[w].step = "idle"
    /\ lease.step \in {"idle", "refused", "recorded"}
    /\ UNCHANGED vars

Spec == Init /\ [][Next \/ Rest]_vars /\ AvatarFairness /\ SpecFairness /\ PackageFairness

-----------------------------------------------------------------------------
\* The types of the four.
TypeOK == AvatarTypeOK /\ SpecTypeOK /\ PackageTypeOK /\ MediaTypeOK

\* What a save of an avatar, the project workers and an import promise of their files
\* (AvatarSpecFileStore, ProjectPackageStore, FfmpegMediaProbe).
StoresInv == SpecInv /\ PackageInv /\ MediaInv

\* An installation, a save and an opening end for their callers (FileAvatarCatalog,
\* AvatarSpecFileStore, ProjectPackageStore).
LibraryEnds == AvatarEnds /\ SpecEnds /\ PackageEnds
=============================================================================
