-------------------------- MODULE SegmentStoreProofs --------------------------
(***************************************************************************)
(* What SegmentStore guarantees for any number of takes, sources and       *)
(* segments, on either way of publishing a file, and also when a session   *)
(* is recovered while it is recorded.                                      *)
(***************************************************************************)
EXTENDS SegmentStore, TLAPS

Statuses == {"none", "WRITING", "READY", "FAILED"}

LEMMA NotMoving ==
    ASSUME NEW p
    PROVE  <<>> # <<p>>
OBVIOUS

LEMMA PathOfSource ==
    ASSUME TypeOK, NEW x \in Sources
    PROVE  Path(x) \in Paths
BY DEF TypeOK, Path, Paths

LEMMA CellUpdate ==
    ASSUME NEW A, NEW B, NEW V, NEW f \in [A -> [B -> V]], NEW a \in A, NEW b \in B, NEW v \in V
    PROVE  [f EXCEPT ![a][b] = v] \in [A -> [B -> V]]
OBVIOUS

LEMMA RowTyped ==
    ASSUME TypeOK, take # NoOne, NEW x \in Sources, NEW status \in Statuses, SetRow(x, status)
    PROVE  row' \in [Sessions -> [Paths -> Statuses]]
<1>1. take \in Sessions /\ row \in [Sessions -> [Paths -> Statuses]]
  BY DEF TypeOK, Holder, Statuses
<1> QED  BY <1>1, PathOfSource, CellUpdate DEF SetRow

LEMMA PutTyped ==
    ASSUME TypeOK, NEW p \in Paths, NEW media \in Holder, recovering # NoOne, PutThere(p, media)
    PROVE  quarantine' \in [Sessions -> [Paths -> Holder]] /\ orphans' \in [Paths -> Holder]
<1>1. CASE step = "parts"
 <2>1. recovering \in Sessions  BY DEF TypeOK, Holder
 <2>2. quarantine \in [Sessions -> [Paths -> Holder]] /\ orphans \in [Paths -> Holder]  BY DEF TypeOK
 <2>3. quarantine' = [quarantine EXCEPT ![recovering][p] = media] /\ UNCHANGED orphans
   BY <1>1 DEF PutThere
 <2> QED  BY <2>1, <2>2, <2>3, CellUpdate
<1>2. CASE step # "parts"  BY <1>2 DEF PutThere, TypeOK
<1> QED  BY <1>1, <1>2

\* moving names a path only while a session is recovered.
LEMMA MovingRecovers ==
    ASSUME TypeOK, StoreInv, NEW p, moving = <<p>>
    PROVE  recovering \in Sessions /\ step \in {"parts", "orphans"}
BY DEF TypeOK, StoreInv, RecoveryKeeps, IdleMovesNothing, Holder

LEMMA TypeInit == Init => TypeOK
BY StoreAssumption DEF StoreAssumption, Init, TypeOK, Nothing, Holder, Places, Paths

\* A step of the writer of x leaves everything alone but its place, its row and
\* its files.
LEMMA WriterFrame ==
    ASSUME TypeOK, NEW x \in Sources, WriterStep(x)
    PROVE  /\ take \in Sessions
           /\ UNCHANGED <<session, take, recovering, step, claimed, moving, overtaken>>
           /\ UNCHANGED <<quarantine, orphans>>
           /\ todo' \in {todo, todo \ {Path(x)}}
           /\ \A y \in Sources \ {x} : writer'[y] = writer[y] /\ index'[y] = index[y]
           /\ \A s \in Sessions \ {take} : row'[s] = row[s]
           /\ \A p \in Paths \ {Path(x)} :
                  row'[take][p] = row[take][p] /\ part'[p] = part[p] /\ final'[p] = final[p]
<1>1. take # NoOne
  BY DEF WriterStep, At, Prepare, PrepareCollides, BeginSegment, StartEncoder, PublishRename,
   PublishLink, PublishUnlink, MarkReady, MarkFailed, NextSegment, WriterStops
<1>2. take \in Sessions  BY <1>1 DEF TypeOK, Holder
<1>3. UNCHANGED <<session, take, recovering, step, claimed, moving, overtaken>>  BY DEF WriterStep
<1>4. todo' \in {todo, todo \ {Path(x)}}  BY DEF WriterStep, StartEncoder
<1> USE PathOfSource DEF TypeOK, filesVars
<1>5. UNCHANGED <<quarantine, orphans>>
  BY DEF WriterStep, Prepare, PrepareCollides, BeginSegment, StartEncoder, PublishRename,
   PublishLink, PublishUnlink, MarkReady, MarkFailed, NextSegment, WriterStops
<1>6. \A y \in Sources \ {x} : writer'[y] = writer[y] /\ index'[y] = index[y]
  BY DEF WriterStep, Goes, Prepare, PrepareCollides, BeginSegment, StartEncoder, PublishRename,
   PublishLink, PublishUnlink, MarkReady, MarkFailed, NextSegment, WriterStops
<1>7. /\ \A s \in Sessions \ {take} : row'[s] = row[s]
      /\ \A p \in Paths \ {Path(x)} : row'[take][p] = row[take][p]
  BY <1>2 DEF WriterStep, SetRow, Prepare, PrepareCollides, BeginSegment, StartEncoder,
   PublishRename, PublishLink, PublishUnlink, MarkReady, MarkFailed, NextSegment, WriterStops
<1>8. \A p \in Paths \ {Path(x)} : part'[p] = part[p] /\ final'[p] = final[p]
  BY DEF WriterStep, Prepare, PrepareCollides, BeginSegment, StartEncoder, PublishRename,
   PublishLink, PublishUnlink, MarkReady, MarkFailed, NextSegment, WriterStops
<1> QED  BY <1>2, <1>3, <1>4, <1>5, <1>6, <1>7, <1>8

LEMMA WriterTypes ==
    ASSUME TypeOK, NEW x \in Sources, WriterStep(x)
    PROVE  TypeOK'
<1> USE DEF WriterStep, Prepare, PrepareCollides, BeginSegment, StartEncoder, PublishRename,
      PublishLink, PublishUnlink, MarkReady, MarkFailed, NextSegment, WriterStops
<1>1. take \in Sessions /\ Path(x) \in Paths  BY PathOfSource, WriterFrame
<1>2. row' \in [Sessions -> [Paths -> Statuses]]
 <2>1. row \in [Sessions -> [Paths -> Statuses]]  BY DEF TypeOK, Statuses
 <2>2. row' = row \/ \E status \in Statuses : SetRow(x, status)  BY DEF filesVars, Statuses
 <2> QED  BY <1>1, <2>1, <2>2, RowTyped, StoreAssumption DEF StoreAssumption
<1>3. part' \in [Paths -> Holder] /\ final' \in [Paths -> Holder]
 <2>1. part \in [Paths -> Holder] /\ final \in [Paths -> Holder]  BY DEF TypeOK
 <2>2. /\ part' = part \/ \E h \in Holder : part' = [part EXCEPT ![Path(x)] = h]
       /\ final' = final \/ \E h \in Holder : final' = [final EXCEPT ![Path(x)] = h]
   BY <1>1 DEF filesVars, Holder
 <2> QED  BY <2>1, <2>2
<1>4. writer' \in [Sources -> Places]
 <2>1. writer \in [Sources -> Places]  BY DEF TypeOK
 <2>2. \E place \in Places : writer' = [writer EXCEPT ![x] = place]  BY DEF Goes, Places
 <2> QED  BY <2>1, <2>2
<1>5. index' \in [Sources -> 0 .. MaxIndex]
 <2>1. index \in [Sources -> 0 .. MaxIndex] /\ MaxIndex \in Nat
   BY StoreAssumption DEF TypeOK, StoreAssumption
 <2>2. index' = index \/ (index[x] < MaxIndex /\ index' = [index EXCEPT ![x] = index[x] + 1])  OBVIOUS
 <2> QED  BY <2>1, <2>2
<1>6. recorded' \subseteq Sessions \X Paths
 <2>1. recorded' = recorded \/ recorded' = recorded \cup {<<take, Path(x)>>}  OBVIOUS
 <2> QED  BY <1>1, <2>1 DEF TypeOK
<1>7. project' = project  OBVIOUS
<1> QED  BY <1>2, <1>3, <1>4, <1>5, <1>6, <1>7, WriterFrame DEF TypeOK, Statuses

LEMMA RecoveryTypes ==
    ASSUME TypeOK, StoreInv, RecoveryStep
    PROVE  TypeOK'
<1> USE DEF RecoveryStep, takeVars, historyVars
<1>1. ASSUME NEW s \in Sessions, StartRecovery(s) PROVE TypeOK'
  BY <1>1, StoreAssumption DEF StartRecovery, StoreAssumption, TypeOK, Holder, Known, Referenced
<1>2. ASSUME NEW p \in Paths, PartStep(p) PROVE TypeOK'
 <2>1. part \in [Paths -> Holder] /\ part[p] \in Holder /\ NoOne \in Holder
   BY DEF TypeOK, Holder
 <2>2. CASE InspectPart(p)  BY <2>2 DEF InspectPart, TypeOK
 <2>3. CASE MoveByRename(p)
  <3>1. recovering # NoOne  BY <2>3, MovingRecovers, StoreAssumption DEF MoveByRename, StoreAssumption
  <3>2. /\ quarantine' \in [Sessions -> [Paths -> Holder]] /\ orphans' \in [Paths -> Holder]
    BY <2>1, <2>3, <3>1, PutTyped DEF MoveByRename
  <3> QED  BY <2>1, <2>3, <3>2 DEF MoveByRename, TypeOK
 <2>4. CASE MoveByLink(p)
  <3>1. recovering # NoOne  BY <2>4, MovingRecovers, StoreAssumption DEF MoveByLink, StoreAssumption
  <3>2. /\ quarantine' \in [Sessions -> [Paths -> Holder]] /\ orphans' \in [Paths -> Holder]
    BY <2>1, <2>4, <3>1, PutTyped DEF MoveByLink
  <3> QED  BY <2>1, <2>4, <3>2 DEF MoveByLink, TypeOK, recoverVars
 <2>5. CASE MoveByUnlink(p)  BY <2>1, <2>5 DEF MoveByUnlink, TypeOK
 <2>6. CASE MoveTakenBack(p)
  <3>1. recovering # NoOne  BY <2>6, MovingRecovers, StoreAssumption DEF MoveTakenBack, StoreAssumption
  <3>2. /\ quarantine' \in [Sessions -> [Paths -> Holder]] /\ orphans' \in [Paths -> Holder]
    BY <2>1, <2>6, <3>1, PutTyped DEF MoveTakenBack
  <3> QED  BY <2>1, <2>6, <3>2 DEF MoveTakenBack, RecoveryEnds, TypeOK
 <2> QED  BY <1>2, <2>2, <2>3, <2>4, <2>5, <2>6 DEF PartStep
<1>3. CASE PartsDone
 <2>1. recovering # NoOne  BY <1>3 DEF PartsDone, TypeOK
 <2> QED  BY <1>3, <2>1 DEF PartsDone, TypeOK
<1>4. CASE RecoveryFails  BY <1>4 DEF RecoveryFails, RecoveryEnds, TypeOK, Holder
<1> QED  BY <1>1, <1>2, <1>3, <1>4

LEMMA TypeStep == TypeOK /\ StoreInv /\ [Next]_vars => TypeOK'
<1> SUFFICES ASSUME TypeOK, StoreInv, [Next]_vars PROVE TypeOK'  OBVIOUS
<1> USE StoreAssumption DEF StoreAssumption
<1>1. CASE OpenProject
  BY <1>1 DEF OpenProject, TypeOK, filesVars, takeVars, recoverVars, historyVars
<1>2. CASE Crash  BY <1>2 DEF Crash, RecoveryEnds, TypeOK, filesVars, historyVars, Holder, Places
<1>3. ASSUME NEW s \in Sessions, BeginRecording(s) PROVE TypeOK'
  BY <1>3 DEF BeginRecording, TypeOK, filesVars, recoverVars, historyVars, Holder, Places
<1>4. CASE AbortRecording
 <2>1. session' \in [Sessions -> {"none", "RECORDING", "COMPLETED", "RECOVERED", "ABORTED"}]
   BY <1>4 DEF AbortRecording, EndSession, TypeOK
 <2>2. writer' \in [Sources -> Places] /\ take' \in Holder  BY <1>4 DEF AbortRecording, Places, Holder
 <2> QED  BY <1>4, <2>1, <2>2 DEF AbortRecording, TypeOK, filesVars, recoverVars, historyVars
<1>5. CASE CompleteRecording
 <2>1. session' \in [Sessions -> {"none", "RECORDING", "COMPLETED", "RECOVERED", "ABORTED"}]
   BY <1>5 DEF CompleteRecording, EndSession, TypeOK
 <2>2. writer' \in [Sources -> Places] /\ index' \in [Sources -> 0 .. MaxIndex] /\ take' \in Holder
   BY <1>5 DEF CompleteRecording, Places, Holder
 <2> QED  BY <1>5, <2>1, <2>2 DEF CompleteRecording, TypeOK, filesVars, recoverVars, historyVars
<1>6. ASSUME NEW x \in Sources, WriterStep(x) PROVE TypeOK'  BY <1>6, WriterTypes
<1>7. CASE RecoveryStep  BY <1>7, RecoveryTypes
<1>8. CASE CommitRecovery
  BY <1>8 DEF CommitRecovery, RecoveryEnds, TypeOK, Holder, filesVars, takeVars
<1>9. CASE UNCHANGED vars
  BY <1>9 DEF vars, TypeOK, filesVars, takeVars, recoverVars, historyVars
<1> QED  BY <1>1, <1>2, <1>3, <1>4, <1>5, <1>6, <1>7, <1>8, <1>9 DEF Next

-----------------------------------------------------------------------------

LEMMA StoreInit == Init => StoreInv
<1> SUFFICES ASSUME Init PROVE StoreInv  OBVIOUS
<1>1. SessionsKeep /\ WriterKeeps  BY DEF Init, Nothing, SessionsKeep, WriterKeeps
<1>2. ReadyHasFile /\ ClosedIsSettled  BY DEF Init, Nothing, ReadyHasFile, ClosedIsSettled, Closed
<1>3. PartsHaveRows  BY StoreAssumption DEF StoreAssumption, Init, Nothing, PartsHaveRows
<1>4. RecoveryKeeps
 <2>1. recovering = NoOne /\ moving = <<>>  BY DEF Init
 <2>2. \A p \in Paths : moving # <<p>>  BY <2>1, NotMoving
 <2>3. LookedAreGone /\ ClaimsStand  BY <2>1 DEF LookedAreGone, ClaimsStand
 <2>4. IdleMovesNothing /\ LinkedIsThere  BY <2>1, <2>2 DEF IdleMovesNothing, LinkedIsThere
 <2> QED  BY <2>3, <2>4 DEF RecoveryKeeps
<1> QED  BY <1>1, <1>2, <1>3, <1>4 DEF StoreInv

-----------------------------------------------------------------------------

\* What a step of the writer of x does at its path p: to the row, the part and the file.
RowMoves(p) ==
    /\ row'[take][p] = "READY" => final'[p] = take
    /\ row[take][p] # "none" => row'[take][p] # "none"
    /\ row'[take][p] # "none" => part'[p] \in {NoOne, take}
    /\ part'[p] = take => row'[take][p] \in {"WRITING", "FAILED"}
    /\ row'[take][p] # row[take][p] =>
          \/ row[take][p] = "none" /\ row'[take][p] = "WRITING"
          \/ row[take][p] = "WRITING" /\ session[take] = "RECORDING"
FilesMove(p) ==
    /\ \/ part'[p] = part[p] /\ final'[p] = final[p]
       \/ part[p] = NoOne /\ part'[p] = take /\ final[p] = NoOne /\ final'[p] = NoOne
       \/ part[p] = take /\ part'[p] \in {take, NoOne} /\ final[p] \in {NoOne, take} /\ final'[p] = take
    /\ recorded' = recorded \/ (recorded' = recorded \cup {<<take, p>>} /\ part'[p] = take)

\* What the other writers rely on stays as it is.
LEMMA WriterOthers ==
    ASSUME TypeOK, StoreInv, NEW x \in Sources, WriterStep(x), NEW y \in Sources \ {x}
    PROVE  KeepsAt(y)'
<1>1. KeepsAt(y)  BY WriterFrame, StoreAssumption DEF StoreInv, WriterKeeps, StoreAssumption
<1>2. index'[y] = index[y] /\ writer'[y] = writer[y] /\ take' = take /\ overtaken' = overtaken
  BY WriterFrame
<1>3. Path(y) \in Paths \ {Path(x)} /\ Path(y)' = Path(y)  BY <1>2, PathOfSource DEF TypeOK, Path
<1>4. \A i \in 0 .. MaxIndex : row'[take][<<y, i>>] = row[take][<<y, i>>]
 <2> TAKE i \in 0 .. MaxIndex
 <2>1. <<y, i>> \in Paths \ {Path(x)}  BY DEF Paths, Path
 <2> QED  BY <2>1, WriterFrame
<1>5. /\ row'[take][Path(y)] = row[take][Path(y)] /\ part'[Path(y)] = part[Path(y)]
      /\ final'[Path(y)] = final[Path(y)]
  BY <1>3, WriterFrame
<1> QED  BY <1>1, <1>2, <1>3, <1>4, <1>5 DEF KeepsAt, RowOf, OpenRow

LEMMA WriterMoves ==
    ASSUME TypeOK, StoreInv, NEW x \in Sources, WriterStep(x)
    PROVE  /\ KeepsAt(x)' /\ RowMoves(Path(x)) /\ FilesMove(Path(x))
           /\ todo' = todo \/ part'[Path(x)] = take
<1> DEFINE p == Path(x)
<1>1. p \in Paths /\ index[x] \in 0 .. MaxIndex /\ MaxIndex \in Nat /\ NoOne \notin Sessions
  BY PathOfSource, StoreAssumption DEF TypeOK, StoreAssumption
<1>2. /\ take \in Sessions /\ UNCHANGED <<session, take, overtaken>>
      /\ \A q \in Paths \ {p} : row'[take][q] = row[take][q]
  BY WriterFrame
<1>3. KeepsAt(x) /\ (row[take][p] # "none" => part[p] \in {NoOne, take})
  BY <1>1, <1>2 DEF StoreInv, WriterKeeps
<1>4. /\ row \in [Sessions -> [Paths -> Statuses]]
      /\ part \in [Paths -> Holder] /\ final \in [Paths -> Holder]
      /\ writer \in [Sources -> Places] /\ index \in [Sources -> 0 .. MaxIndex]
  BY DEF TypeOK, Statuses
<1>5. /\ row[take][p] = "READY" => final[p] = take
      /\ part[p] = take => row[take][p] \in {"WRITING", "FAILED"}
  BY <1>1, <1>2 DEF StoreInv, ReadyHasFile, PartsHaveRows
<1> HIDE DEF p
<1>6. /\ RowOf(x) = row[take][p] /\ Path(x) = p
      /\ index' = index => Path(x)' = p /\ RowOf(x)' = row'[take][p]
  BY <1>2 DEF Path, RowOf, p
<1>7. \A i \in 0 .. MaxIndex : i > index[x] => <<x, i>> \in Paths \ {p}  BY <1>1 DEF Paths, Path, p
<1>8. \A i \in 0 .. MaxIndex : i > index[x] => row'[take][<<x, i>>] = "none"
  BY <1>2, <1>3, <1>7 DEF KeepsAt
<1>9. todo' = todo \/ part'[p] = take  BY <1>1, <1>4, <1>6 DEF WriterStep, StartEncoder
<1>10. SUFFICES KeepsAt(x)' /\ RowMoves(p) /\ FilesMove(p)  BY <1>6, <1>9
<1> USE <1>1, <1>2, <1>3, <1>4, <1>5, <1>6, <1>8
      DEF At, Goes, filesVars, KeepsAt, OpenRow, RowMoves, FilesMove
<1>11. CASE Prepare(x)  BY <1>11 DEF Prepare
<1>12. CASE PrepareCollides(x)  BY <1>12 DEF PrepareCollides
<1>13. CASE BeginSegment(x)  BY <1>13 DEF BeginSegment, SetRow
<1>14. CASE StartEncoder(x)  BY <1>14 DEF StartEncoder
<1>15. CASE PublishRename(x)  BY <1>15 DEF PublishRename, HasPart
<1>16. CASE PublishLink(x)  BY <1>16 DEF PublishLink, HasPart
<1>17. CASE PublishUnlink(x)  BY <1>17 DEF PublishUnlink, HasPart
<1>18. CASE MarkReady(x)  BY <1>18 DEF MarkReady, Writable, SetRow
<1>19. CASE MarkFailed(x)  BY <1>19 DEF MarkFailed, Writable, SetRow
<1>20. CASE NextSegment(x)  BY <1>20 DEF NextSegment, Path, RowOf
<1>21. CASE WriterStops(x)  BY <1>21 DEF WriterStops
<1> QED
  BY <1>11, <1>12, <1>13, <1>14, <1>15, <1>16, <1>17, <1>18, <1>19, <1>20, <1>21 DEF WriterStep

LEMMA WriterStepKeeps ==
    ASSUME TypeOK, StoreInv, NEW x \in Sources, WriterStep(x)
    PROVE  StoreInv'
<1> DEFINE p == Path(x)
<1>1. p \in Paths /\ NoOne \notin Sessions  BY PathOfSource, StoreAssumption DEF StoreAssumption
<1>2. /\ take \in Sessions
      /\ UNCHANGED <<session, take, recovering, step, claimed, moving, overtaken>>
      /\ UNCHANGED <<quarantine, orphans>>
      /\ todo' \in {todo, todo \ {p}}
      /\ \A s \in Sessions \ {take} : row'[s] = row[s]
      /\ \A q \in Paths \ {p} :
            row'[take][q] = row[take][q] /\ part'[q] = part[q] /\ final'[q] = final[q]
  BY WriterFrame
<1>3. KeepsAt(x)' /\ RowMoves(p) /\ FilesMove(p) /\ (todo' = todo \/ part'[p] = take)
  BY WriterMoves
<1>4. \A y \in Sources : KeepsAt(y)'  BY <1>3, WriterOthers
<1> HIDE DEF p
<1>5. session[take] = "RECORDING" \/ take \in overtaken
  BY <1>1, <1>2 DEF StoreInv, SessionsKeep
<1>6. SessionsKeep'
 <2>1. session[take] # "none"  BY <1>5 DEF StoreInv, SessionsKeep
 <2>2. \A s \in Sessions : session[s] = "none" => row'[s] = row[s]  BY <1>2, <2>1
 <2> QED  BY <1>2, <2>2 DEF StoreInv, SessionsKeep
<1>7. WriterKeeps'
 <2>1. \A q \in Paths : row[take][q] # "none" => part[q] \in {NoOne, take}
   BY <1>1, <1>2 DEF StoreInv, WriterKeeps
 <2>2. \A q \in Paths : row'[take][q] # "none" => part'[q] \in {NoOne, take}
   BY <1>1, <1>2, <1>3, <2>1 DEF RowMoves
 <2> QED  BY <1>2, <1>4, <2>2 DEF WriterKeeps
<1>8. ReadyHasFile'
 <2> SUFFICES ASSUME NEW s \in Sessions, NEW q \in Paths, row'[s][q] = "READY"
              PROVE  final'[q] = s
   BY DEF ReadyHasFile
 <2>1. CASE s = take /\ q = p  BY <1>3, <2>1 DEF RowMoves
 <2>2. CASE ~(s = take /\ q = p)
  <3>1. row[s][q] = "READY"  BY <1>2, <2>2
  <3>2. final[q] = s  BY <3>1 DEF StoreInv, ReadyHasFile
  <3> QED  BY <1>1, <1>2, <1>3, <2>2, <3>2 DEF FilesMove
 <2> QED  BY <2>1, <2>2
<1>9. ClosedIsSettled'
 <2>1. take \notin Closed \ overtaken  BY <1>5 DEF Closed
 <2> QED  BY <1>2, <2>1 DEF StoreInv, ClosedIsSettled, Closed
<1>10. PartsHaveRows'
 <2> SUFFICES ASSUME NEW s \in Sessions, NEW q \in Paths, part'[q] = s
              PROVE  row'[s][q] \in {"WRITING", "FAILED"}
   BY DEF PartsHaveRows
 <2>1. CASE s = take /\ q = p  BY <1>3, <2>1 DEF RowMoves
 <2>2. CASE ~(s = take /\ q = p)
  <3>1. part[q] = s  BY <1>1, <1>2, <1>3, <2>2 DEF FilesMove
  <3>2. row'[s][q] = row[s][q]  BY <1>2, <2>2
  <3> QED  BY <3>1, <3>2 DEF StoreInv, PartsHaveRows
 <2> QED  BY <2>1, <2>2
<1>11. LookedAreGone /\ ClaimsStand /\ IdleMovesNothing /\ LinkedIsThere
  BY DEF StoreInv, RecoveryKeeps
<1>12. LookedAreGone'
 <2> SUFFICES ASSUME recovering \notin {NoOne, take}
              PROVE  Known(recovering)' \subseteq claimed /\ \A q \in Looked' : part'[q] \in {NoOne, take}
   BY <1>2 DEF LookedAreGone
 <2>1. recovering \in Sessions \ {take}  BY DEF TypeOK, Holder
 <2>2. row'[recovering] = row[recovering]  BY <1>2, <2>1
 <2>3. Known(recovering)' = Known(recovering) /\ Known(recovering) \subseteq claimed
   BY <1>2, <1>11, <2>2 DEF LookedAreGone, Known
 <2>4. \A q \in Looked' : q \in Looked \/ (q = p /\ part'[p] = take)
   BY <1>2, <1>3, <2>2 DEF Looked
 <2>5. \A q \in Looked : q \in Paths /\ part[q] \in {NoOne, take}
   BY <1>11 DEF LookedAreGone, Looked
 <2>6. \A q \in Looked : part'[q] \in {NoOne, take}  BY <1>1, <1>2, <1>3, <2>5 DEF FilesMove
 <2> QED  BY <2>3, <2>4, <2>6
<1>13. ClaimsStand'
 <2> SUFFICES ASSUME recovering # NoOne, NEW q \in claimed
              PROVE  \/ \E t \in Sessions \ {take} : row'[t][q] = "WRITING"
                     \/ row'[take][q] # "none"
   BY <1>1, <1>2 DEF ClaimsStand
 <2>1. \/ \E t \in Sessions \ {take} : row[t][q] = "WRITING"
       \/ row[take][q] # "none"
   BY <1>11 DEF ClaimsStand
 <2>2. q \in Paths  BY DEF TypeOK
 <2> QED  BY <1>2, <1>3, <2>1, <2>2 DEF RowMoves
<1>14. IdleMovesNothing'  BY <1>2, <1>11 DEF IdleMovesNothing
<1>15. LinkedIsThere'
 <2> SUFFICES ASSUME NEW q \in Paths, moving = <<q>>, Linked(q)'
              PROVE  Destination(q)' = part'[q] \/ (part'[q] = NoOne /\ Destination(q)' = final'[q])
   BY <1>2 DEF LinkedIsThere
 <2>1. Destination(q)' = Destination(q) /\ Destination(q) # NoOne
   BY <1>2 DEF Destination, Linked
 <2>2. Destination(q) = part[q] \/ (part[q] = NoOne /\ Destination(q) = final[q])
   BY <1>11, <2>1 DEF LinkedIsThere, Linked
 <2>3. CASE q = p  BY <1>3, <2>1, <2>2, <2>3 DEF FilesMove
 <2>4. CASE q # p
  <3>1. part'[q] = part[q] /\ final'[q] = final[q]  BY <1>2, <2>4
  <3> QED  BY <2>1, <2>2, <3>1
 <2> QED  BY <2>3, <2>4
<1>16. RecoveryKeeps'  BY <1>12, <1>13, <1>14, <1>15 DEF RecoveryKeeps
<1> QED  BY <1>6, <1>7, <1>8, <1>9, <1>10, <1>16 DEF StoreInv

-----------------------------------------------------------------------------

\* A step of recover() before its end leaves the rows and the sessions alone and takes
\* parts away.
LEMMA RecoveryFrame ==
    ASSUME RecoveryStep
    PROVE  /\ UNCHANGED <<session, row, final, project, take, writer, index, recorded, overtaken>>
           /\ TypeOK => \A q \in Paths : part'[q] \in {part[q], NoOne}
<1>1. UNCHANGED <<session, row, final, project, take, writer, index, recorded, overtaken>>
  BY DEF RecoveryStep, takeVars, historyVars
<1>2. ASSUME TypeOK PROVE \A q \in Paths : part'[q] \in {part[q], NoOne}
  BY <1>2 DEF TypeOK, RecoveryStep, PartStep, StartRecovery, InspectPart, MoveByRename, MoveByLink,
   MoveByUnlink, MoveTakenBack, PartsDone, RecoveryFails
<1> QED  BY <1>1, <1>2

\* recover() does not disturb what the takes rely on.
LEMMA RecoveryStepFrame ==
    ASSUME TypeOK, StoreInv, RecoveryStep
    PROVE  /\ WriterKeeps' /\ ReadyHasFile' /\ ClosedIsSettled' /\ PartsHaveRows'
<1>1. /\ UNCHANGED <<session, row, final, take, writer, index, overtaken>>
      /\ \A q \in Paths : part'[q] \in {part[q], NoOne}
  BY RecoveryFrame
<1>2. ReadyHasFile' /\ ClosedIsSettled'
  BY <1>1 DEF StoreInv, ReadyHasFile, ClosedIsSettled, Closed
<1>3. PartsHaveRows'
  BY <1>1, StoreAssumption DEF StoreAssumption, StoreInv, PartsHaveRows
<1>4. ASSUME take # NoOne, NEW x \in Sources PROVE KeepsAt(x)'
 <2>1. KeepsAt(x)  BY <1>4 DEF StoreInv, WriterKeeps
 <2>2. Path(x) \in Paths /\ Path(x)' = Path(x) /\ RowOf(x)' = RowOf(x) /\ OpenRow(x)' = OpenRow(x)
   BY <1>1, PathOfSource DEF Path, RowOf, OpenRow
 <2>3. part'[Path(x)] \in {part[Path(x)], NoOne}  BY <1>1, <2>2
 <2> QED  BY <1>1, <2>1, <2>2, <2>3 DEF KeepsAt
<1>5. WriterKeeps'  BY <1>1, <1>4 DEF StoreInv, WriterKeeps
<1> QED  BY <1>2, <1>3, <1>5

LEMMA StartKeeps ==
    ASSUME TypeOK, StoreInv, RecoveryStep, NEW s \in Sessions, StartRecovery(s)
    PROVE  RecoveryKeeps' /\ session[recovering'] = "RECORDING"
<1>1. UNCHANGED <<row, take, final, session>>  BY RecoveryFrame
<1>2. /\ recovering = NoOne /\ recovering' = s /\ session[s] = "RECORDING" /\ step' = "parts"
      /\ claimed' = Referenced /\ todo' = Known(s) /\ moving' = moving
  BY DEF StartRecovery, Interrupted
<1>3. moving = <<>>  BY <1>2 DEF TypeOK, StoreInv, RecoveryKeeps, IdleMovesNothing
<1>4. LookedAreGone'
 <2>1. Known(s) \subseteq Referenced  BY DEF Referenced
 <2>2. Known(recovering)' = Known(s)  BY <1>1, <1>2 DEF Known
 <2>3. \A q \in Looked' : FALSE  BY <1>1, <1>2 DEF Looked, Known
 <2> QED  BY <1>2, <2>1, <2>2, <2>3 DEF LookedAreGone
<1>5. ClaimsStand'
 <2> SUFFICES ASSUME NEW q \in Referenced
              PROVE  \/ \E t \in Sessions \ {take} : row[t][q] = "WRITING"
                     \/ take # NoOne /\ row[take][q] # "none"
   BY <1>1, <1>2 DEF ClaimsStand
 <2>1. PICK t \in Sessions : row[t][q] = "WRITING"  BY DEF Referenced, Known
 <2> QED  BY <2>1, StoreAssumption DEF StoreAssumption
<1>6. IdleMovesNothing'  BY <1>2 DEF IdleMovesNothing
<1>7. \A q \in Paths : moving' # <<q>>  BY <1>2, <1>3, NotMoving
<1>8. LinkedIsThere'  BY <1>7 DEF LinkedIsThere
<1> QED  BY <1>2, <1>4, <1>5, <1>6, <1>8 DEF RecoveryKeeps

\* Of the place of p, nothing else is touched when something is put there.
LEMMA PutChanges ==
    ASSUME TypeOK, recovering \in Sessions, NEW p \in Paths, NEW media, PutThere(p, media),
           recovering' = recovering, step' = step
    PROVE  Destination(p)' = media
BY DEF TypeOK, PutThere, Destination

LEMMA PartKeeps ==
    ASSUME TypeOK, StoreInv, RecoveryStep, NEW p \in Paths, PartStep(p)
    PROVE  RecoveryKeeps' /\ recovering' \in {recovering, NoOne}
<1>1. /\ UNCHANGED <<row, take, final>>
      /\ \A q \in Paths : part'[q] \in {part[q], NoOne}
  BY RecoveryFrame
<1>2. LookedAreGone /\ ClaimsStand /\ IdleMovesNothing /\ LinkedIsThere
  BY DEF StoreInv, RecoveryKeeps
<1>3. CASE MoveTakenBack(p)
 <2>1. recovering' = NoOne /\ moving' = <<>>  BY <1>3 DEF MoveTakenBack, RecoveryEnds
 <2>2. \A q \in Paths : moving' # <<q>>  BY <2>1, NotMoving
 <2>3. LookedAreGone' /\ ClaimsStand'  BY <2>1 DEF LookedAreGone, ClaimsStand
 <2>4. IdleMovesNothing' /\ LinkedIsThere'  BY <2>1, <2>2 DEF IdleMovesNothing, LinkedIsThere
 <2> QED  BY <2>1, <2>3, <2>4 DEF RecoveryKeeps
<1>4. CASE ~MoveTakenBack(p)
 <2>1. UNCHANGED <<recovering, step, claimed, todo>>
   BY <1>4 DEF PartStep, InspectPart, MoveByRename, MoveByLink, MoveByUnlink, recoverVars
 <2>2. Known(recovering)' = Known(recovering) /\ Looked' = Looked
   BY <1>1, <2>1 DEF Known, Looked
 <2>3. LookedAreGone'
  <3>1. Looked \subseteq Paths  BY DEF Looked
  <3> QED  BY <1>1, <1>2, <2>1, <2>2, <3>1 DEF LookedAreGone
 <2>4. ClaimsStand'  BY <1>1, <1>2, <2>1 DEF ClaimsStand
 <2>5. IdleMovesNothing' /\ LinkedIsThere'
  <3>1. CASE MoveByRename(p) \/ MoveByUnlink(p)
   <4>1. moving' = <<>>  BY <3>1 DEF MoveByRename, MoveByUnlink
   <4>2. \A q \in Paths : moving' # <<q>>  BY <4>1, NotMoving
   <4> QED  BY <4>1, <4>2 DEF IdleMovesNothing, LinkedIsThere
  <3>2. CASE InspectPart(p)
   <4>1. moving' = <<p>> /\ Destination(p) = NoOne /\ UNCHANGED <<quarantine, orphans>>
     BY <3>2 DEF InspectPart
   <4>2. Destination(p)' = NoOne  BY <2>1, <4>1 DEF Destination
   <4>3. \A q \in Paths : moving' = <<q>> => q = p  BY <4>1
   <4>4. LinkedIsThere'  BY <4>2, <4>3 DEF LinkedIsThere, Linked
   <4>5. step # "idle"  BY <3>2 DEF InspectPart, TypeOK
   <4> QED  BY <2>1, <4>4, <4>5 DEF IdleMovesNothing
  <3>3. CASE MoveByLink(p)
   <4>1. moving' = moving /\ moving = <<p>> /\ part' = part /\ PutThere(p, part[p])
     BY <3>3 DEF MoveByLink, recoverVars
   <4>2. recovering \in Sessions  BY <4>1, MovingRecovers
   <4>3. Destination(p)' = part'[p]  BY <2>1, <4>1, <4>2, PutChanges
   <4>4. \A q \in Paths : moving' = <<q>> => q = p  BY <4>1
   <4>5. LinkedIsThere'  BY <4>3, <4>4 DEF LinkedIsThere
   <4> QED  BY <1>2, <2>1, <4>1, <4>5 DEF IdleMovesNothing
  <3> QED  BY <1>4, <3>1, <3>2, <3>3 DEF PartStep
 <2> QED  BY <2>1, <2>3, <2>4, <2>5 DEF RecoveryKeeps
<1> QED  BY <1>3, <1>4

LEMMA DoneKeeps ==
    ASSUME TypeOK, StoreInv, RecoveryStep, PartsDone
    PROVE  RecoveryKeeps' /\ recovering' = recovering
<1>1. UNCHANGED <<row, take, final>>  BY RecoveryFrame
<1>2. LookedAreGone /\ ClaimsStand  BY DEF StoreInv, RecoveryKeeps
<1>3. /\ UNCHANGED <<part, recovering, claimed, moving>> /\ moving = <<>>
      /\ step' = "orphans" /\ todo' = Paths \ claimed /\ \A q \in todo : part[q] = NoOne
  BY DEF PartsDone
<1>4. LookedAreGone'
 <2> SUFFICES ASSUME recovering \notin {NoOne, take}
              PROVE  Known(recovering)' \subseteq claimed /\ \A q \in Looked' : part[q] \in {NoOne, take}
   BY <1>1, <1>3 DEF LookedAreGone
 <2>1. Known(recovering)' = Known(recovering) /\ Known(recovering) \subseteq claimed
   BY <1>1, <1>2, <1>3 DEF LookedAreGone, Known
 <2>2. ASSUME NEW q \in Looked' PROVE part[q] \in {NoOne, take}
  <3>1. q \in Paths /\ row[recovering][q] = "WRITING"  BY <1>1, <1>3 DEF Looked
  <3>2. q \in todo \/ q \in Looked  BY <3>1 DEF Looked
  <3> QED  BY <1>2, <1>3, <3>2 DEF LookedAreGone
 <2> QED  BY <2>1, <2>2
<1>5. ClaimsStand'  BY <1>1, <1>2, <1>3 DEF ClaimsStand
<1>6. \A q \in Paths : moving' # <<q>>  BY <1>3, NotMoving
<1>7. IdleMovesNothing' /\ LinkedIsThere'  BY <1>3, <1>6 DEF IdleMovesNothing, LinkedIsThere
<1> QED  BY <1>3, <1>4, <1>5, <1>7 DEF RecoveryKeeps

LEMMA RecoveryStepKeeps == TypeOK /\ StoreInv /\ RecoveryStep => StoreInv'
<1> SUFFICES ASSUME TypeOK, StoreInv, RecoveryStep PROVE StoreInv'  OBVIOUS
<1>1. WriterKeeps' /\ ReadyHasFile' /\ ClosedIsSettled' /\ PartsHaveRows'  BY RecoveryStepFrame
<1>2. UNCHANGED <<session, row, take, overtaken>>  BY RecoveryFrame
<1>3. RecoveryKeeps' /\ (recovering' = NoOne \/ session[recovering'] = "RECORDING")
 <2>1. ASSUME NEW s \in Sessions, StartRecovery(s)
       PROVE  RecoveryKeeps' /\ (recovering' = NoOne \/ session[recovering'] = "RECORDING")
   BY <2>1, StartKeeps
 <2>2. recovering = NoOne \/ session[recovering] = "RECORDING"  BY DEF StoreInv, SessionsKeep
 <2>3. ASSUME NEW p \in Paths, PartStep(p)
       PROVE  RecoveryKeeps' /\ (recovering' = NoOne \/ session[recovering'] = "RECORDING")
   BY <2>2, <2>3, PartKeeps
 <2>4. CASE PartsDone  BY <2>2, <2>4, DoneKeeps
 <2>5. CASE RecoveryFails
  <3>1. recovering' = NoOne /\ moving' = <<>>  BY <2>5 DEF RecoveryFails, RecoveryEnds
  <3>2. \A q \in Paths : moving' # <<q>>  BY <3>1, NotMoving
  <3>3. LookedAreGone' /\ ClaimsStand'  BY <3>1 DEF LookedAreGone, ClaimsStand
  <3>4. IdleMovesNothing' /\ LinkedIsThere'  BY <3>1, <3>2 DEF IdleMovesNothing, LinkedIsThere
  <3> QED  BY <3>1, <3>3, <3>4 DEF RecoveryKeeps
 <2> QED  BY <2>1, <2>3, <2>4, <2>5 DEF RecoveryStep
<1>4. SessionsKeep'  BY <1>2, <1>3 DEF StoreInv, SessionsKeep
<1> QED  BY <1>1, <1>3, <1>4 DEF StoreInv

-----------------------------------------------------------------------------

\* The end of a recovery: the rows of its session that were WRITING are FAILED.
CommitFacts(s) ==
    /\ recovering = s /\ recovering' = NoOne /\ session[s] = "RECORDING"
    /\ session' = [session EXCEPT ![s] = "RECOVERED"]
    /\ overtaken' = overtaken \cup ({s} \cap {take})
    /\ \A t \in Sessions \ {s} : row'[t] = row[t]
    /\ \A p \in Paths : row'[s][p] = IF row[s][p] = "WRITING" THEN "FAILED" ELSE row[s][p]
    /\ UNCHANGED <<part, final, quarantine, orphans, take, writer, index, recorded>>
    /\ step = "orphans" /\ moving = <<>> /\ moving' = <<>> /\ \A p \in todo : part[p] = NoOne

LEMMA CommitDoes ==
    ASSUME TypeOK, StoreInv, CommitRecovery
    PROVE  \E s \in Sessions : CommitFacts(s)
<1>1. recovering \in Sessions /\ recovering # NoOne
  BY StoreAssumption DEF StoreAssumption, TypeOK, CommitRecovery, Holder
<1>2. session[recovering] = "RECORDING"  BY <1>1 DEF StoreInv, SessionsKeep
<1>3. /\ \A t \in Sessions \ {recovering} : row'[t] = row[t]
      /\ \A p \in Paths : row'[recovering][p] =
            IF row[recovering][p] = "WRITING" THEN "FAILED" ELSE row[recovering][p]
  BY <1>1 DEF TypeOK, CommitRecovery
<1>4. CommitFacts(recovering)
  BY <1>1, <1>2, <1>3 DEF CommitFacts, CommitRecovery, RecoveryEnds, filesVars, takeVars
<1> QED  BY <1>1, <1>4

LEMMA CommitKeeps == TypeOK /\ StoreInv /\ CommitRecovery => StoreInv'
<1> SUFFICES ASSUME TypeOK, StoreInv, CommitRecovery PROVE StoreInv'  OBVIOUS
<1>1. PICK s \in Sessions : CommitFacts(s)  BY CommitDoes
<1>2. /\ session \in [Sessions -> {"none", "RECORDING", "COMPLETED", "RECOVERED", "ABORTED"}]
      /\ take \in Sessions \cup {NoOne} /\ overtaken \subseteq Sessions /\ NoOne \notin Sessions
  BY StoreAssumption DEF TypeOK, Holder, StoreAssumption
<1>3. /\ \A t \in Sessions : session'[t] = IF t = s THEN "RECOVERED" ELSE session[t]
      /\ \A t \in Sessions, p \in Paths :
            row'[t][p] = IF t = s /\ row[t][p] = "WRITING" THEN "FAILED" ELSE row[t][p]
  BY <1>1, <1>2 DEF CommitFacts
<1>4. /\ overtaken' = overtaken \cup ({s} \cap {take}) /\ session[s] = "RECORDING"
      /\ UNCHANGED <<part, final, take, writer, index>> /\ recovering' = NoOne /\ moving' = <<>>
  BY <1>1 DEF CommitFacts
<1>5. SessionsKeep'
 <2>1. take' # NoOne => session'[take'] = "RECORDING" \/ take' \in overtaken'
   BY <1>2, <1>3, <1>4 DEF StoreInv, SessionsKeep
 <2>2. \A t \in overtaken' : session'[t] = "RECOVERED"
   BY <1>2, <1>3, <1>4 DEF StoreInv, SessionsKeep
 <2>3. \A t \in Sessions : session'[t] = "none" => \A p \in Paths : row'[t][p] = "none"
  <3>1. \A t \in Sessions : session[t] = "none" => \A p \in Paths : row[t][p] = "none"
    BY DEF StoreInv, SessionsKeep
  <3> QED  BY <1>3, <3>1
 <2> QED  BY <1>4, <2>1, <2>2, <2>3 DEF SessionsKeep
<1>6. ASSUME take # NoOne, NEW x \in Sources PROVE KeepsAt(x)'
 <2>1. KeepsAt(x)  BY <1>6 DEF StoreInv, WriterKeeps
 <2>2. Path(x) \in Paths /\ Path(x)' = Path(x)  BY <1>4, PathOfSource DEF Path
 <2>3. take \in Sessions  BY <1>2, <1>6
 <2>4. /\ RowOf(x)' = row'[take][Path(x)] /\ RowOf(x) = row[take][Path(x)]
   BY <1>4, <2>2 DEF RowOf
 <2>5. RowOf(x) = "none" => RowOf(x)' = "none"  BY <1>3, <2>2, <2>3, <2>4
 <2>6. OpenRow(x) => OpenRow(x)'  BY <1>3, <1>4, <2>2, <2>3, <2>4 DEF OpenRow
 <2>7. \A i \in 0 .. MaxIndex : row[take][<<x, i>>] = "none" => row'[take][<<x, i>>] = "none"
  <3> TAKE i \in 0 .. MaxIndex
  <3>1. <<x, i>> \in Paths  BY DEF Paths
  <3> QED  BY <1>3, <2>3, <3>1
 <2> QED  BY <1>4, <2>1, <2>2, <2>5, <2>6, <2>7 DEF KeepsAt
<1>7. WriterKeeps'
 <2>1. ASSUME take # NoOne, NEW p \in Paths, row'[take][p] # "none" PROVE part[p] \in {NoOne, take}
   BY <1>2, <1>3, <2>1 DEF StoreInv, WriterKeeps
 <2> QED  BY <1>4, <1>6, <2>1 DEF WriterKeeps
<1>8. RecoveryKeeps'
 <2>1. \A q \in Paths : moving' # <<q>>  BY <1>4, NotMoving
 <2>2. LookedAreGone' /\ ClaimsStand'  BY <1>4 DEF LookedAreGone, ClaimsStand
 <2>3. IdleMovesNothing' /\ LinkedIsThere'  BY <1>4, <2>1 DEF IdleMovesNothing, LinkedIsThere
 <2> QED  BY <2>2, <2>3 DEF RecoveryKeeps
<1>9. ReadyHasFile'  BY <1>3, <1>4 DEF StoreInv, ReadyHasFile
<1>10. ClosedIsSettled'
 <2> SUFFICES ASSUME NEW t \in Sessions, t \in Closed' \ overtaken', NEW p \in Paths
              PROVE  row'[t][p] # "WRITING"
   BY DEF ClosedIsSettled, Closed
 <2>1. CASE t = s  BY <1>3, <2>1
 <2>2. CASE t # s
  <3>1. t \in Closed \ overtaken  BY <1>3, <1>4, <2>2 DEF Closed
  <3> QED  BY <1>3, <2>2, <3>1 DEF StoreInv, ClosedIsSettled
 <2> QED  BY <2>1, <2>2
<1>11. PartsHaveRows'
 <2> SUFFICES ASSUME NEW t \in Sessions, NEW p \in Paths, part[p] = t
              PROVE  row'[t][p] \in {"WRITING", "FAILED"}
   BY <1>4 DEF PartsHaveRows
 <2>1. row[t][p] \in {"WRITING", "FAILED"}  BY DEF StoreInv, PartsHaveRows
 <2> QED  BY <1>3, <2>1
<1> QED  BY <1>5, <1>7, <1>8, <1>9, <1>10, <1>11 DEF StoreInv

-----------------------------------------------------------------------------

\* A take that ends, a process that stops: no writer is left.
LEMMA NoTakeKeeps ==
    ASSUME TypeOK, StoreInv, take' = NoOne, recovering' = NoOne, moving' = <<>>,
           UNCHANGED <<row, part, final, overtaken>>,
           \A s \in Sessions :
               \/ session'[s] = session[s]
               \/ /\ session[s] = "RECORDING" /\ session'[s] \in {"COMPLETED", "ABORTED"}
                  /\ \A p \in Paths : row[s][p] # "WRITING"
    PROVE  StoreInv'
<1>1. SessionsKeep'
 <2>1. \A s \in overtaken : s \in Sessions /\ session[s] = "RECOVERED"
   BY DEF StoreInv, SessionsKeep, TypeOK
 <2>2. \A s \in Sessions : session'[s] = "none" => session[s] = "none"  OBVIOUS
 <2> QED  BY <2>1, <2>2 DEF StoreInv, SessionsKeep
<1>2. WriterKeeps'  BY DEF WriterKeeps
<1>3. RecoveryKeeps'
 <2>1. \A q \in Paths : moving' # <<q>>  BY NotMoving
 <2>2. LookedAreGone' /\ ClaimsStand'  BY DEF LookedAreGone, ClaimsStand
 <2>3. IdleMovesNothing' /\ LinkedIsThere'  BY <2>1 DEF IdleMovesNothing, LinkedIsThere
 <2> QED  BY <2>2, <2>3 DEF RecoveryKeeps
<1>4. ReadyHasFile' /\ PartsHaveRows'  BY DEF StoreInv, ReadyHasFile, PartsHaveRows
<1>5. ClosedIsSettled'
 <2> SUFFICES ASSUME NEW s \in Sessions, s \in Closed' \ overtaken, NEW p \in Paths
              PROVE  row[s][p] # "WRITING"
   BY DEF ClosedIsSettled, Closed
 <2>1. CASE session'[s] = session[s]  BY <2>1 DEF StoreInv, ClosedIsSettled, Closed
 <2>2. CASE session'[s] # session[s]  BY <2>2
 <2> QED  BY <2>1, <2>2
<1> QED  BY <1>1, <1>2, <1>3, <1>4, <1>5 DEF StoreInv

\* Only a RECORDING session is ended by its take.
LEMMA EndDoes ==
    ASSUME TypeOK, take # NoOne, NEW states, EndSession(states)
    PROVE  \A s \in Sessions :
               \/ session'[s] = session[s]
               \/ s = take /\ session[s] = "RECORDING" /\ session'[s] \in states
<1>1. take \in Sessions /\ DOMAIN session = Sessions  BY DEF TypeOK, Holder
<1>2. CASE session[take] = "RECORDING" /\ \E state \in states : session' = [session EXCEPT ![take] = state]
 <2>1. PICK state \in states : session' = [session EXCEPT ![take] = state]  BY <1>2
 <2>2. \A s \in Sessions : session'[s] = IF s = take THEN state ELSE session[s]
   BY <1>1, <2>1
 <2> QED  BY <1>2, <2>2
<1>3. CASE session' = session  BY <1>3
<1> QED  BY <1>2, <1>3 DEF EndSession

LEMMA NotMovingAlone ==
    ASSUME TypeOK, StoreInv, recovering = NoOne
    PROVE  moving = <<>> /\ step = "idle"
BY DEF TypeOK, StoreInv, RecoveryKeeps, IdleMovesNothing

LEMMA CompleteKeeps == TypeOK /\ StoreInv /\ CompleteRecording => StoreInv'
<1> SUFFICES ASSUME TypeOK, StoreInv, CompleteRecording PROVE StoreInv'  OBVIOUS
<1>1. /\ take # NoOne /\ recovering = NoOne /\ take' = NoOne
      /\ UNCHANGED <<row, part, final, overtaken, recovering, moving>>
      /\ \/ (\A p \in Paths : row[take][p] # "WRITING") /\ EndSession({"COMPLETED"})
         \/ UNCHANGED session
  BY DEF CompleteRecording, filesVars, recoverVars, historyVars
<1>2. moving = <<>>  BY <1>1, NotMovingAlone
<1>3. \A s \in Sessions :
      \/ session'[s] = session[s]
      \/ /\ session[s] = "RECORDING" /\ session'[s] \in {"COMPLETED", "ABORTED"}
         /\ \A p \in Paths : row[s][p] # "WRITING"
  BY <1>1, EndDoes
<1> QED  BY <1>1, <1>2, <1>3, NoTakeKeeps

LEMMA AbortKeeps == TypeOK /\ StoreInv /\ AbortRecording => StoreInv'
<1> SUFFICES ASSUME TypeOK, StoreInv, AbortRecording PROVE StoreInv'  OBVIOUS
<1>1. /\ take # NoOne /\ recovering = NoOne /\ take' = NoOne
      /\ UNCHANGED <<row, part, final, overtaken, recovering, moving>>
      /\ EndSession({"ABORTED", "RECORDING"})
      /\ \A x \in Sources : writer[x] = "idle" /\ index[x] = 0
  BY DEF AbortRecording, filesVars, recoverVars, historyVars
<1>2. moving = <<>>  BY <1>1, NotMovingAlone
<1>3. ASSUME NEW x \in Sources, NEW i \in 0 .. MaxIndex PROVE row[take][<<x, i>>] = "none"
 <2>1. KeepsAt(x) /\ writer[x] = "idle" /\ index[x] = 0  BY <1>1 DEF StoreInv, WriterKeeps
 <2>2. CASE i = 0  BY <2>1, <2>2 DEF KeepsAt, RowOf, Path
 <2>3. CASE i # 0  BY <2>1, <2>3, StoreAssumption DEF KeepsAt, StoreAssumption
 <2> QED  BY <2>2, <2>3
<1>4. \A p \in Paths : row[take][p] # "WRITING"  BY <1>3 DEF Paths
<1>5. \A s \in Sessions :
      \/ session'[s] = session[s]
      \/ /\ session[s] = "RECORDING" /\ session'[s] \in {"COMPLETED", "ABORTED"}
         /\ \A p \in Paths : row[s][p] # "WRITING"
  BY <1>1, <1>4, EndDoes
<1> QED  BY <1>1, <1>2, <1>5, NoTakeKeeps

LEMMA CrashKeeps == TypeOK /\ StoreInv /\ Crash => StoreInv'
<1> SUFFICES ASSUME TypeOK, StoreInv, Crash PROVE StoreInv'  OBVIOUS
<1>1. /\ take' = NoOne /\ recovering' = NoOne /\ moving' = <<>>
      /\ UNCHANGED <<session, row, part, final, overtaken>>
  BY DEF Crash, RecoveryEnds, filesVars, historyVars
<1> QED  BY <1>1, NoTakeKeeps

LEMMA BeginKeeps ==
    ASSUME TypeOK, StoreInv, NEW s \in Sessions, BeginRecording(s)
    PROVE  StoreInv'
<1>1. /\ take = NoOne /\ take' = s /\ recovering = NoOne /\ recovering' = NoOne
      /\ moving' = moving /\ session[s] = "none" /\ session' = [session EXCEPT ![s] = "RECORDING"]
      /\ writer' = [x \in Sources |-> "idle"] /\ index' = [x \in Sources |-> 0]
      /\ UNCHANGED <<row, part, final, overtaken>>
  BY DEF BeginRecording, filesVars, recoverVars, historyVars
<1>2. moving' = <<>>  BY <1>1, NotMovingAlone
<1>3. /\ \A t \in Sessions : session'[t] = IF t = s THEN "RECORDING" ELSE session[t]
      /\ \A p \in Paths : row[s][p] = "none"
  BY <1>1 DEF TypeOK, StoreInv, SessionsKeep
<1>4. SessionsKeep'
 <2>1. \A t \in overtaken : t \in Sessions /\ session[t] = "RECOVERED"
   BY DEF StoreInv, SessionsKeep, TypeOK
 <2>2. \A t \in overtaken : session'[t] = "RECOVERED"  BY <1>1, <1>3, <2>1
 <2> QED  BY <1>1, <1>3, <2>2 DEF StoreInv, SessionsKeep
<1>5. ASSUME NEW x \in Sources PROVE KeepsAt(x)'
 <2>1. \A i \in 0 .. MaxIndex : <<x, i>> \in Paths /\ row'[take'][<<x, i>>] = "none"
   BY <1>1, <1>3 DEF Paths
 <2>2. index'[x] = 0 /\ writer'[x] = "idle"  BY <1>1
 <2>3. 0 \in 0 .. MaxIndex  BY StoreAssumption DEF StoreAssumption
 <2>4. RowOf(x)' = "none"  BY <2>1, <2>2, <2>3 DEF RowOf, Path
 <2> QED  BY <2>1, <2>2, <2>4 DEF KeepsAt
<1>6. WriterKeeps'  BY <1>1, <1>3, <1>5 DEF WriterKeeps
<1>7. RecoveryKeeps'
 <2>1. \A q \in Paths : moving' # <<q>>  BY <1>2, NotMoving
 <2>2. LookedAreGone' /\ ClaimsStand'  BY <1>1 DEF LookedAreGone, ClaimsStand
 <2>3. IdleMovesNothing' /\ LinkedIsThere'  BY <1>2, <2>1 DEF IdleMovesNothing, LinkedIsThere
 <2> QED  BY <2>2, <2>3 DEF RecoveryKeeps
<1>8. ReadyHasFile' /\ PartsHaveRows'  BY <1>1 DEF StoreInv, ReadyHasFile, PartsHaveRows
<1>9. ClosedIsSettled'  BY <1>1, <1>3 DEF StoreInv, ClosedIsSettled, Closed
<1> QED  BY <1>4, <1>6, <1>7, <1>8, <1>9 DEF StoreInv

LEMMA QuietKeeps ==
    ASSUME StoreInv, OpenProject \/ UNCHANGED vars
    PROVE  StoreInv'
<1>1. /\ UNCHANGED <<session, row, part, final, quarantine, orphans, take, writer, index>>
      /\ UNCHANGED <<recovering, step, claimed, todo, moving, overtaken>>
  BY DEF OpenProject, vars, filesVars, takeVars, recoverVars, historyVars
<1>2. SessionsKeep' /\ ReadyHasFile' /\ ClosedIsSettled' /\ PartsHaveRows'
  BY <1>1 DEF StoreInv, SessionsKeep, ReadyHasFile, ClosedIsSettled, Closed, PartsHaveRows
<1>3. WriterKeeps'  BY <1>1 DEF StoreInv, WriterKeeps, KeepsAt, OpenRow, RowOf, Path
<1>4. LookedAreGone' /\ ClaimsStand' /\ IdleMovesNothing'
  BY <1>1 DEF StoreInv, RecoveryKeeps, LookedAreGone, ClaimsStand, IdleMovesNothing, Known, Looked
<1>5. LinkedIsThere'
  BY <1>1 DEF StoreInv, RecoveryKeeps, LinkedIsThere, Linked, Destination
<1> QED  BY <1>2, <1>3, <1>4, <1>5 DEF StoreInv, RecoveryKeeps

LEMMA StoreStep == TypeOK /\ StoreInv /\ [Next]_vars => StoreInv'
<1> SUFFICES ASSUME TypeOK, StoreInv, [Next]_vars PROVE StoreInv'  OBVIOUS
<1>1. ASSUME NEW s \in Sessions, BeginRecording(s) PROVE StoreInv'  BY <1>1, BeginKeeps
<1>2. ASSUME NEW x \in Sources, WriterStep(x) PROVE StoreInv'  BY <1>2, WriterStepKeeps
<1> QED
  BY <1>1, <1>2, QuietKeeps, CrashKeeps, AbortKeeps, CompleteKeeps, RecoveryStepKeeps, CommitKeeps
  DEF Next

\* Every variable keeps its type, and the facts that takes and recoveries rely on hold at
\* every step, a recovery of the session that is being recorded included.
THEOREM StoreConsistent == Spec => [](TypeOK /\ StoreInv)
<1>1. Init => TypeOK /\ StoreInv  BY TypeInit, StoreInit
<1>2. TypeOK /\ StoreInv /\ [Next]_vars => (TypeOK /\ StoreInv)'  BY TypeStep, StoreStep
<1> QED  BY <1>1, <1>2, PTL DEF Spec

\* Every variable keeps its type, for any number of takes, sources and segments.
THEOREM TypeCorrect == Spec => []TypeOK
BY StoreConsistent, PTL

\* A READY row has its own session's media, for any number of takes, sources and
\* segments.
THEOREM ReadyIsBacked == Spec => []ReadyHasFile
<1>1. TypeOK /\ StoreInv => ReadyHasFile  BY DEF StoreInv
<1> QED  BY <1>1, StoreConsistent, PTL

\* A session that ended, and was not recovered while it was recorded, has no WRITING row.
THEOREM ClosedStaysSettled == Spec => []ClosedIsSettled
<1>1. TypeOK /\ StoreInv => ClosedIsSettled  BY DEF StoreInv
<1> QED  BY <1>1, StoreConsistent, PTL

-----------------------------------------------------------------------------

\* Where the media of s at p can be.
Held(s, p) == s \in {part[p], final[p], orphans[p]} \/ \E t \in Sessions : quarantine[t][p] = s

LEMMA WriterHolds ==
    ASSUME TypeOK, StoreInv, NoMediaLost, NEW x \in Sources, WriterStep(x)
    PROVE  NoMediaLost'
<1> DEFINE p == Path(x)
<1>1. /\ UNCHANGED <<take, quarantine, orphans>> /\ take \in Sessions
      /\ \A q \in Paths \ {p} : part'[q] = part[q] /\ final'[q] = final[q]
  BY WriterFrame
<1>2. FilesMove(p) /\ NoOne \notin Sessions  BY WriterMoves, StoreAssumption DEF StoreAssumption
<1> HIDE DEF p
<1>3. ASSUME NEW s \in Sessions, NEW q \in Paths, <<s, q>> \in recorded' PROVE Held(s, q)'
 <2>1. CASE <<s, q>> \in recorded
  <3>1. Held(s, q)  BY <2>1 DEF NoMediaLost, Held
  <3>2. CASE q # p  BY <1>1, <3>1, <3>2 DEF Held
  <3>3. CASE q = p  BY <1>1, <1>2, <3>1, <3>3 DEF Held, FilesMove
  <3> QED  BY <3>2, <3>3
 <2>2. CASE <<s, q>> \notin recorded
  <3>1. s = take /\ q = p /\ part'[p] = take  BY <1>2, <1>3, <2>2 DEF FilesMove
  <3> QED  BY <1>1, <3>1 DEF Held
 <2> QED  BY <2>1, <2>2
<1> QED  BY <1>3 DEF NoMediaLost, Held

\* What is put at a place nothing was at, or taken back from one that is linked.
LEMMA PutKeeps ==
    ASSUME TypeOK, recovering \in Sessions, NEW p \in Paths, NEW media, PutThere(p, media),
           UNCHANGED final, \A q \in Paths : part'[q] = part[q] \/ (q = p /\ media = part[q]),
           Destination(p) \in {NoOne, part'[p], final[p]},
           NEW s \in Sessions, NEW q \in Paths, Held(s, q)
    PROVE  Held(s, q)'
<1>0. NoOne \notin Sessions  BY StoreAssumption DEF StoreAssumption
<1>1. CASE step = "parts"
 <2>1. /\ orphans' = orphans
       /\ \A t \in Sessions, r \in Paths :
             quarantine'[t][r] = IF t = recovering /\ r = p THEN media ELSE quarantine[t][r]
   BY <1>1 DEF TypeOK, PutThere
 <2>2. quarantine[recovering][p] \in {NoOne, part'[p], final[p]}  BY <1>1 DEF Destination
 <2>3. CASE q # p
  <3>1. part'[q] = part[q] /\ \A t \in Sessions : quarantine'[t][q] = quarantine[t][q]
    BY <2>1, <2>3
  <3> QED  BY <2>1, <3>1 DEF Held
 <2>4. CASE q = p
  <3>1. CASE s \in {final[p], orphans[p]}  BY <2>1, <2>4, <3>1 DEF Held
  <3>2. CASE s = part[p]  BY <2>1, <2>4, <3>2 DEF Held
  <3>3. ASSUME NEW t \in Sessions, quarantine[t][p] = s PROVE Held(s, q)'
   <4>1. CASE t = recovering  BY <1>0, <2>2, <2>4, <3>3, <4>1 DEF Held
   <4>2. CASE t # recovering
    <5>1. quarantine'[t][p] = s  BY <2>1, <3>3, <4>2
    <5> QED  BY <2>4, <5>1 DEF Held
   <4> QED  BY <4>1, <4>2
  <3> QED  BY <2>4, <3>1, <3>2, <3>3 DEF Held
 <2> QED  BY <2>3, <2>4
<1>2. CASE step # "parts"
 <2>1. /\ quarantine' = quarantine
       /\ \A r \in Paths : orphans'[r] = IF r = p THEN media ELSE orphans[r]
   BY <1>2 DEF TypeOK, PutThere
 <2>2. orphans[p] \in {NoOne, part'[p], final[p]}  BY <1>2 DEF Destination
 <2>3. CASE q # p  BY <2>1, <2>3 DEF Held
 <2>4. CASE q = p  BY <1>0, <2>1, <2>2, <2>4 DEF Held
 <2> QED  BY <2>3, <2>4
<1> QED  BY <1>1, <1>2

LEMMA PartHolds ==
    ASSUME TypeOK, StoreInv, RecoveryStep, NEW p \in Paths, PartStep(p),
           NEW s \in Sessions, NEW q \in Paths, Held(s, q)
    PROVE  Held(s, q)'
<1>0. final' = final /\ NoOne \notin Sessions
  BY RecoveryFrame, StoreAssumption DEF StoreAssumption
<1>1. CASE InspectPart(p)  BY <1>0, <1>1 DEF InspectPart, Held
<1>2. CASE MoveByRename(p)
 <2>1. /\ PutThere(p, part[p]) /\ moving = <<p>> /\ Destination(p) = NoOne
       /\ part' = [part EXCEPT ![p] = NoOne]
   BY <1>2 DEF MoveByRename, Linked
 <2>2. recovering \in Sessions  BY <2>1, MovingRecovers
 <2>3. \A r \in Paths : part'[r] = part[r] \/ (r = p /\ part[p] = part[r])  BY <2>1 DEF TypeOK
 <2> QED  BY <1>0, <2>1, <2>2, <2>3, PutKeeps
<1>3. CASE MoveByLink(p)
 <2>1. PutThere(p, part[p]) /\ moving = <<p>> /\ Destination(p) = NoOne /\ part' = part
   BY <1>3 DEF MoveByLink, Linked
 <2>2. recovering \in Sessions  BY <2>1, MovingRecovers
 <2> QED  BY <1>0, <2>1, <2>2, PutKeeps
<1>4. CASE MoveByUnlink(p)
 <2>1. /\ moving = <<p>> /\ Linked(p) /\ part[p] # NoOne /\ UNCHANGED <<quarantine, orphans>>
       /\ part' = [part EXCEPT ![p] = NoOne]
   BY <1>4 DEF MoveByUnlink
 <2>2. recovering \in Sessions  BY <2>1, MovingRecovers
 <2>3. Destination(p) = part[p]  BY <2>1 DEF StoreInv, RecoveryKeeps, LinkedIsThere
 <2>4. CASE s = part[p] /\ q = p
  <3>1. s = orphans[p] \/ quarantine[recovering][p] = s  BY <2>3, <2>4 DEF Destination
  <3> QED  BY <2>1, <2>2, <2>4, <3>1 DEF Held
 <2>5. CASE ~(s = part[p] /\ q = p)
  <3>1. s = part[q] => part'[q] = s  BY <2>1, <2>5 DEF TypeOK
  <3> QED  BY <1>0, <2>1, <3>1 DEF Held
 <2> QED  BY <2>4, <2>5
<1>5. CASE MoveTakenBack(p)
 <2>1. PutThere(p, NoOne) /\ moving = <<p>> /\ Linked(p) /\ part' = part
   BY <1>5 DEF MoveTakenBack
 <2>2. recovering \in Sessions  BY <2>1, MovingRecovers
 <2>3. Destination(p) \in {part[p], final[p]}  BY <2>1 DEF StoreInv, RecoveryKeeps, LinkedIsThere
 <2> QED  BY <1>0, <2>1, <2>2, <2>3, PutKeeps
<1> QED  BY <1>1, <1>2, <1>3, <1>4, <1>5 DEF PartStep

LEMMA MediaStep == TypeOK /\ StoreInv /\ NoMediaLost /\ [Next]_vars => NoMediaLost'
<1> SUFFICES ASSUME TypeOK, StoreInv, NoMediaLost, [Next]_vars PROVE NoMediaLost'  OBVIOUS
<1>1. ASSUME NEW x \in Sources, WriterStep(x) PROVE NoMediaLost'  BY <1>1, WriterHolds
<1>2. ASSUME RecoveryStep, NEW p \in Paths, PartStep(p) PROVE NoMediaLost'
 <2>1. recorded' = recorded  BY <1>2, RecoveryFrame
 <2>2. \A s \in Sessions, q \in Paths : <<s, q>> \in recorded => Held(s, q)  BY DEF NoMediaLost, Held
 <2>3. \A s \in Sessions, q \in Paths : Held(s, q) => Held(s, q)'  BY <1>2, PartHolds
 <2> QED  BY <2>1, <2>2, <2>3 DEF NoMediaLost, Held
<1>3. ASSUME UNCHANGED <<part, final, quarantine, orphans, recorded>> PROVE NoMediaLost'
  BY <1>3 DEF NoMediaLost
<1>4. CASE RecoveryStep /\ ~\E p \in Paths : PartStep(p)
 <2>1. UNCHANGED <<final, recorded>>  BY <1>4, RecoveryFrame
 <2>2. UNCHANGED <<part, quarantine, orphans>>
   BY <1>4 DEF RecoveryStep, StartRecovery, PartsDone, RecoveryFails
 <2> QED  BY <1>3, <2>1, <2>2
<1>5. CASE \/ OpenProject \/ Crash \/ (\E s \in Sessions : BeginRecording(s))
           \/ AbortRecording \/ CompleteRecording \/ CommitRecovery \/ UNCHANGED vars
  BY <1>3, <1>5 DEF OpenProject, Crash, BeginRecording, AbortRecording, CompleteRecording,
   CommitRecovery, vars, filesVars, historyVars
<1> QED  BY <1>1, <1>2, <1>4, <1>5 DEF Next

\* Media an encoder wrote is somewhere, for any number of takes, sources and segments,
\* and when a part is published while recover() moves it away.
THEOREM MediaIsKept == Spec => []NoMediaLost
<1>1. Init => NoMediaLost  BY DEF Init, NoMediaLost
<1> QED  BY <1>1, StoreConsistent, MediaStep, PTL DEF Spec

-----------------------------------------------------------------------------

LEMMA CommitLeavesNoPart ==
    ASSUME TypeOK, StoreInv, RecoveredLeavesNoPart, CommitRecovery
    PROVE  RecoveredLeavesNoPart'
<1>1. PICK u \in Sessions : CommitFacts(u)  BY CommitDoes
<1>2. /\ recovering = u /\ u # NoOne /\ step = "orphans" /\ UNCHANGED <<part, take>>
      /\ session[u] = "RECORDING" /\ session' = [session EXCEPT ![u] = "RECOVERED"]
      /\ overtaken' = overtaken \cup ({u} \cap {take}) /\ \A p \in todo : part[p] = NoOne
      /\ \A t \in Sessions \ {u} : row'[t] = row[t]
      /\ \A p \in Paths : row'[u][p] = IF row[u][p] = "WRITING" THEN "FAILED" ELSE row[u][p]
  BY <1>1, StoreAssumption DEF CommitFacts, StoreAssumption
<1>3. LookedAreGone /\ ClaimsStand /\ WriterKeeps /\ SessionsKeep
  BY DEF StoreInv, RecoveryKeeps
<1> SUFFICES ASSUME NEW s \in Sessions \ overtaken', NEW p \in Paths,
                    session'[s] = "RECOVERED", part[p] = s
             PROVE  \E t \in Sessions \ {s} : row'[t][p] = "WRITING"
  BY <1>2 DEF RecoveredLeavesNoPart
<1>4. s # NoOne /\ p \notin todo  BY <1>2, StoreAssumption DEF StoreAssumption
<1>5. s # take
 <2>1. CASE s = u  BY <1>2, <2>1
 <2>2. CASE s # u
  <3>1. session[s] = "RECOVERED" /\ s \notin overtaken  BY <1>2, <2>2 DEF TypeOK
  <3> QED  BY <1>3, <1>4, <3>1 DEF SessionsKeep
 <2> QED  BY <2>1, <2>2
<1>6. take # NoOne => row[take][p] = "none"  BY <1>3, <1>4, <1>5 DEF WriterKeeps
<1>7. row[u][p] # "WRITING"
 <2>1. CASE u = take  BY <1>2, <1>6, <2>1
 <2>2. CASE u # take
  <3>1. row[u][p] = "WRITING" => p \in Looked  BY <1>2, <1>4 DEF Looked
  <3> QED  BY <1>2, <1>3, <1>4, <1>5, <2>2, <3>1 DEF LookedAreGone
 <2> QED  BY <2>1, <2>2
<1>8. CASE s = u
 <2>1. p \in claimed
  <3>1. p \notin claimed => p \in Looked  BY <1>2, <1>4 DEF Looked
  <3> QED  BY <1>2, <1>3, <1>4, <1>5, <1>8, <3>1 DEF LookedAreGone
 <2>2. PICK t \in Sessions \ {take} : row[t][p] = "WRITING"  BY <1>2, <1>3, <1>6, <2>1 DEF ClaimsStand
 <2>3. t # u  BY <1>7, <2>2
 <2> QED  BY <1>2, <1>8, <2>2, <2>3
<1>9. CASE s # u
 <2>1. session[s] = "RECOVERED" /\ s \notin overtaken  BY <1>2, <1>9 DEF TypeOK
 <2>2. PICK t \in Sessions \ {s} : row[t][p] = "WRITING"  BY <2>1 DEF RecoveredLeavesNoPart
 <2>3. t # u  BY <1>7, <2>2
 <2> QED  BY <1>2, <2>2, <2>3
<1> QED  BY <1>8, <1>9

LEMMA WriterLeavesNoPart ==
    ASSUME TypeOK, StoreInv, RecoveredLeavesNoPart, NEW x \in Sources, WriterStep(x)
    PROVE  RecoveredLeavesNoPart'
<1> DEFINE p == Path(x)
<1>1. /\ UNCHANGED <<take, session, overtaken>> /\ take \in Sessions
      /\ \A s \in Sessions \ {take} : row'[s] = row[s]
      /\ \A q \in Paths \ {p} : row'[take][q] = row[take][q] /\ part'[q] = part[q]
  BY WriterFrame
<1>2. FilesMove(p) /\ NoOne \notin Sessions  BY WriterMoves, StoreAssumption DEF StoreAssumption
<1> HIDE DEF p
<1>3. WriterKeeps /\ SessionsKeep  BY DEF StoreInv
<1> SUFFICES ASSUME NEW s \in Sessions \ overtaken, NEW q \in Paths,
                    session[s] = "RECOVERED", part'[q] = s
             PROVE  \E t \in Sessions \ {s} : row'[t][q] = "WRITING"
  BY <1>1 DEF RecoveredLeavesNoPart
<1>4. s # take  BY <1>1, <1>2, <1>3 DEF SessionsKeep
<1>5. part[q] = s  BY <1>1, <1>2, <1>4 DEF FilesMove
<1>6. PICK t \in Sessions \ {s} : row[t][q] = "WRITING"  BY <1>5 DEF RecoveredLeavesNoPart
<1>7. t # take  BY <1>1, <1>2, <1>3, <1>4, <1>5, <1>6 DEF WriterKeeps
<1> QED  BY <1>1, <1>6, <1>7

LEMMA PartsStep ==
    TypeOK /\ StoreInv /\ RecoveredLeavesNoPart /\ [Next]_vars => RecoveredLeavesNoPart'
<1> SUFFICES ASSUME TypeOK, StoreInv, RecoveredLeavesNoPart, [Next]_vars
             PROVE  RecoveredLeavesNoPart'
  OBVIOUS
<1>1. ASSUME NEW x \in Sources, WriterStep(x) PROVE RecoveredLeavesNoPart'
  BY <1>1, WriterLeavesNoPart
<1>2. CASE CommitRecovery  BY <1>2, CommitLeavesNoPart
<1>3. ASSUME UNCHANGED <<row, overtaken>>, \A q \in Paths : part'[q] \in {part[q], NoOne},
             \A s \in Sessions : session'[s] = "RECOVERED" => session[s] = "RECOVERED"
      PROVE  RecoveredLeavesNoPart'
  BY <1>3, StoreAssumption DEF RecoveredLeavesNoPart, StoreAssumption
<1>4. CASE RecoveryStep  BY <1>3, <1>4, RecoveryFrame
<1>5. CASE OpenProject \/ Crash \/ UNCHANGED vars
  BY <1>3, <1>5 DEF OpenProject, Crash, vars, filesVars, historyVars
<1>6. ASSUME NEW s \in Sessions, BeginRecording(s) PROVE RecoveredLeavesNoPart'
 <2>1. \A t \in Sessions : session'[t] = "RECOVERED" => session[t] = "RECOVERED"
   BY <1>6 DEF BeginRecording, TypeOK
 <2> QED  BY <1>3, <1>6, <2>1 DEF BeginRecording, filesVars, historyVars
<1>7. CASE AbortRecording \/ CompleteRecording
 <2>1. \A t \in Sessions : session'[t] = "RECOVERED" => session[t] = "RECOVERED"
  <3>1. CASE UNCHANGED session  BY <3>1
  <3>2. CASE EndSession({"ABORTED", "RECORDING"})
   <4>1. take # NoOne  BY <1>7 DEF AbortRecording, CompleteRecording
   <4> QED  BY <3>2, <4>1, EndDoes
  <3>3. CASE EndSession({"COMPLETED"})
   <4>1. take # NoOne  BY <1>7 DEF AbortRecording, CompleteRecording
   <4> QED  BY <3>3, <4>1, EndDoes
  <3> QED  BY <1>7, <3>1, <3>2, <3>3 DEF AbortRecording, CompleteRecording
 <2>2. UNCHANGED <<row, overtaken, part>>
   BY <1>7 DEF AbortRecording, CompleteRecording, filesVars, historyVars
 <2> QED  BY <1>3, <2>1, <2>2
<1> QED  BY <1>1, <1>2, <1>4, <1>5, <1>6, <1>7 DEF Next

\* A recovered session that was not being recorded left no part but where another WRITING
\* row claims the path, for any number of takes, sources and segments.
THEOREM RecoveryIsThorough == Spec => []RecoveredLeavesNoPart
<1>1. Init => RecoveredLeavesNoPart  BY DEF Init, RecoveredLeavesNoPart
<1> QED  BY <1>1, StoreConsistent, PartsStep, PTL DEF Spec

-----------------------------------------------------------------------------

LEMMA StepGoesForward == TypeOK /\ StoreInv /\ Next => NeverGoesBack
<1> SUFFICES ASSUME TypeOK, StoreInv, Next PROVE NeverGoesBack  OBVIOUS
<1>1. ASSUME UNCHANGED row, \A s \in Closed : session'[s] = session[s] PROVE NeverGoesBack
  BY <1>1 DEF NeverGoesBack
<1>2. CASE OpenProject \/ Crash \/ RecoveryStep
 <2>1. UNCHANGED <<session, row>>  BY <1>2, RecoveryFrame DEF OpenProject, Crash
 <2> QED  BY <1>1, <2>1
<1>3. ASSUME NEW s \in Sessions, BeginRecording(s) PROVE NeverGoesBack
 <2>1. \A t \in Closed : session'[t] = session[t]
   BY <1>3 DEF BeginRecording, Closed, TypeOK
 <2> QED  BY <1>1, <1>3, <2>1 DEF BeginRecording
<1>4. CASE AbortRecording \/ CompleteRecording
 <2>1. take # NoOne /\ row' = row  BY <1>4 DEF AbortRecording, CompleteRecording
 <2>2. \A t \in Closed : session'[t] = session[t]
  <3>1. CASE UNCHANGED session  BY <3>1
  <3>2. CASE EndSession({"ABORTED", "RECORDING"})  BY <2>1, <3>2, EndDoes DEF Closed
  <3>3. CASE EndSession({"COMPLETED"})  BY <2>1, <3>3, EndDoes DEF Closed
  <3> QED  BY <1>4, <3>1, <3>2, <3>3 DEF AbortRecording, CompleteRecording
 <2> QED  BY <1>1, <2>1, <2>2
<1>5. ASSUME NEW x \in Sources, WriterStep(x) PROVE NeverGoesBack
 <2>1. /\ take \in Sessions /\ session' = session
       /\ \A s \in Sessions \ {take} : row'[s] = row[s]
       /\ \A p \in Paths \ {Path(x)} : row'[take][p] = row[take][p]
   BY <1>5, WriterFrame
 <2>2. RowMoves(Path(x))  BY <1>5, WriterMoves
 <2>3. ASSUME NEW s \in Sessions, NEW p \in Paths, row'[s][p] # row[s][p]
       PROVE  /\ row[s][p] \in {"none", "WRITING"}
              /\ s \in Closed => s = take /\ row[s][p] = "none" /\ row'[s][p] = "WRITING"
  <3>1. s = take /\ p = Path(x)  BY <2>1, <2>3
  <3>2. \/ row[s][p] = "none" /\ row'[s][p] = "WRITING"
        \/ row[s][p] = "WRITING" /\ session[s] = "RECORDING"
    BY <2>2, <2>3, <3>1 DEF RowMoves
  <3> QED  BY <3>1, <3>2 DEF Closed
 <2> QED  BY <2>1, <2>3 DEF NeverGoesBack
<1>6. CASE CommitRecovery
 <2>1. PICK u \in Sessions : CommitFacts(u)  BY <1>6, CommitDoes
 <2>2. u \notin Closed  BY <2>1 DEF CommitFacts, Closed
 <2>3. \A s \in Closed : session'[s] = session[s]  BY <2>1, <2>2 DEF CommitFacts, Closed, TypeOK
 <2>4. \A s \in Sessions, p \in Paths : row'[s][p] # row[s][p] => s = u /\ row[s][p] = "WRITING"
   BY <2>1 DEF CommitFacts
 <2> QED  BY <2>2, <2>3, <2>4 DEF NeverGoesBack
<1> QED  BY <1>2, <1>3, <1>4, <1>5, <1>6 DEF Next

\* No step takes back what the rows of project.db say, for any number of takes, sources
\* and segments.
THEOREM RowsOnlyForward == Spec => RowsMoveForward
BY StoreConsistent, StepGoesForward, PTL DEF Spec, RowsMoveForward

=============================================================================
