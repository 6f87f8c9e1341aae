--------------------- MODULE CollectionWatcherProofs ----------------------
(***************************************************************************)
(* Proofs about CollectionWatcher for every value of the constants: the    *)
(* type invariant, and the rename pairing of the watcher's rename          *)
(* heuristic from an inductive strengthening.                              *)
(***************************************************************************)
EXTENDS CollectionWatcher, TLAPS

USE ConstantsAssumption

\* The record of a callback started for timer t at pc p is a Job.
LEMMA StartedJobType ==
    ASSUME NEW t \in Timer, NEW p \in PCs
    PROVE  Started(t, p) \in Job
BY DEF Started, JobRec, NoSnap, Job, Timer, Tree, Seqs, Events, Absent

LEMMA FreeJobType == FreeJob \in Job
BY DEF FreeJob, JobRec, NoSnap, Job, PCs, Tree, Seqs, Absent

\* A callback resuming and suspending at another pc keeps jobs typed.
LEMMA MoveToType ==
    ASSUME TypeOK, NEW s \in JobSlots, NEW p \in PCs, MoveTo(s, p)
    PROVE  jobs' \in [JobSlots -> Job]
BY DEF MoveTo, JobRec, TypeOK, Job

LEMMA InitType == Init => TypeOK
BY FreeJobType DEF Init, TypeOK, Tree, Seqs, Absent, EvCap

\* Every step keeps every variable in its type.
LEMMA TypeStep == TypeOK /\ [Next]_vars => TypeOK'
<1> SUFFICES ASSUME TypeOK, [Next]_vars PROVE TypeOK'
  OBVIOUS
<1>1. ASSUME NEW f \in Files, WriteFile(f) PROVE TypeOK'
  BY <1>1 DEF WriteFile, WatchCollection, TypeOK, Tree, Seqs, Timer, Events,
              EvCap
<1>2. ASSUME NEW f \in Files, DeleteFile(f) PROVE TypeOK'
  BY <1>2 DEF DeleteFile, WatchCollection, TypeOK, Tree, Seqs, Timer,
              Events, Absent, EvCap
<1>3. CASE Tick
  BY <1>3 DEF Tick, TypeOK, Timer, NoTimer, Older, EvCap
<1>4. CASE FillCache
  BY <1>4 DEF FillCache, TypeOK
<1>5. ASSUME NEW s \in JobSlots, FireDelete(s) PROVE TypeOK'
  <2>1. compileTimeout \in Timer
    BY <1>5 DEF FireDelete, Fire, TypeOK
  <2>2. /\ jobs' \in [JobSlots -> Job]
       /\ compileTimeout' = NoTimer
    <3>1. Started(compileTimeout, "cleanup") \in Job
      BY <2>1, StartedJobType DEF PCs
    <3>2. QED
      BY <1>5, <3>1 DEF FireDelete, Fire, TypeOK
  <2>3. handled' \in Seqs /\ unlinkSeq' \in Seqs
    BY <1>5, <2>1 DEF FireDelete, Fire, Timer, Seqs, TypeOK
  <2>4. /\ unlinksRun' = unlinksRun \cup {compileTimeout.seq}
       /\ lastUnlinkFile' = compileTimeout.file
       /\ unlinkAge' = 0
    BY <1>5 DEF FireDelete
  <2>5. /\ UNCHANGED <<src, compiled, registry, types, cache, evSeq, renames,
                       notified, evAge>>
        /\ candEvAge' = evAge
    BY <1>5 DEF FireDelete
  <2>6. unlinksRun' \subseteq Seqs
    <3>1. compileTimeout.seq \in Seqs
      BY <2>1 DEF Timer, Seqs
    <3>2. QED
      BY <2>4, <3>1, Zenon DEF TypeOK
  <2>7. compileTimeout' \in Timer \cup {NoTimer}
    BY <2>2
  <2>8. unlinkAge' \in 0..RenameWindow
    BY <2>4
  <2>9. lastUnlinkFile' \in Files \cup {NoFile}
    BY <2>1, <2>4 DEF Timer
  <2>10. QED
    BY <2>2, <2>3, <2>5, <2>6, <2>7, <2>8, <2>9 DEF TypeOK
<1>6. ASSUME NEW s \in JobSlots, FireWrite(s) PROVE TypeOK'
  <2>1. compileTimeout \in Timer
    BY <1>6 DEF FireWrite, Fire, TypeOK
  <2>2. /\ jobs' \in [JobSlots -> Job]
       /\ compileTimeout' = NoTimer
    <3>1. Started(compileTimeout, "compile") \in Job
      BY <2>1, StartedJobType DEF PCs
    <3>2. QED
      BY <1>6, <3>1 DEF FireWrite, Fire, TypeOK
  <2>3. handled' \in Seqs /\ unlinkSeq' \in Seqs
    BY <1>6, <2>1 DEF FireWrite, Fire, Timer, Seqs, TypeOK
  <2>4. /\ renames' \subseteq [from : Seqs, to : Seqs]
       /\ lastUnlinkFile' \in Files \cup {NoFile}
    BY <1>6, <2>1 DEF FireWrite, Timer, Seqs, TypeOK
  <2>5. QED
    BY <1>6, <2>2, <2>3, <2>4 DEF FireWrite, TypeOK
<1>7. ASSUME NEW s \in JobSlots, CleanupDone(s) PROVE TypeOK'
  BY <1>7, FreeJobType DEF CleanupDone, Finish, CleanupOutput, TypeOK,
                           Tree, Seqs, Absent
<1>8. ASSUME NEW s \in JobSlots, CompileRead(s) PROVE TypeOK'
  BY <1>8 DEF CompileRead, JobRec, TypeOK, Job, PCs
<1>9. ASSUME NEW s \in JobSlots, CompileResolves(s) PROVE TypeOK'
  <2>1. jobs' \in [JobSlots -> Job]
    BY <1>9, MoveToType DEF CompileResolves, PCs
  <2>2. QED
    BY <1>9, <2>1 DEF CompileResolves, CompileOutput, TypeOK, Job, Tree,
                      Absent
<1>10. ASSUME NEW s \in JobSlots, CompileRejects(s) PROVE TypeOK'
  BY <1>10, FreeJobType DEF CompileRejects, Finish, TypeOK
<1>11. ASSUME NEW s \in JobSlots, ClearCacheResolves(s) PROVE TypeOK'
  BY <1>11, MoveToType DEF ClearCacheResolves, TypeOK, PCs
<1>12. ASSUME NEW s \in JobSlots, ClearCacheRejects(s) PROVE TypeOK'
  BY <1>12, FreeJobType DEF ClearCacheRejects, Finish, TypeOK
<1>13. ASSUME NEW s \in JobSlots, UpdateCollectionsResolves(s)
       PROVE TypeOK'
  BY <1>13, MoveToType DEF UpdateCollectionsResolves, TypeOK, PCs
<1>14. ASSUME NEW s \in JobSlots, UpdateCollectionsRejects(s)
       PROVE TypeOK'
  BY <1>14, FreeJobType DEF UpdateCollectionsRejects, Finish, TypeOK
<1>15. ASSUME NEW s \in JobSlots, GenerateTypesDone(s) PROVE TypeOK'
  BY <1>15, FreeJobType DEF GenerateTypesDone, Finish, TypeOK
<1>16. CASE UNCHANGED vars
  BY <1>16 DEF vars, TypeOK
<1>17. QED
  BY <1>1, <1>2, <1>3, <1>4, <1>5, <1>6, <1>7, <1>8, <1>9, <1>10, <1>11,
     <1>12, <1>13, <1>14, <1>15, <1>16 DEF Next, Environment, RunTimer, Step

(* The type invariant: in every reachable state every variable of the    *)
(* watcher (sources, artifacts, registry, cache, timer, rename candidate, *)
(* callbacks in flight) holds a value of its type.                        *)
THEOREM TypeCorrect == Spec => []TypeOK
BY InitType, TypeStep, PTL DEF Spec

-----------------------------------------------------------------------------
\* The variables the rename heuristic and its history depend on.
renameVars == <<evSeq, handled, unlinkSeq, unlinksRun, renames,
                lastUnlinkFile>>

LEMMA RenameInitial == Init => RenameInv
BY InitType DEF Init, RenameInv, RenamePairing, NoTimer

\* Every step keeps the rename strengthening.
LEMMA RenameStep == RenameInv /\ [Next]_vars => RenameInv'
<1> SUFFICES ASSUME RenameInv, [Next]_vars PROVE RenameInv'
  OBVIOUS
<1>0. TypeOK /\ TypeOK'
  BY TypeStep DEF RenameInv
<1>1. ASSUME NEW f \in Files, WriteFile(f) \/ DeleteFile(f) PROVE RenameInv'
  <2>1. /\ evSeq' = evSeq + 1
       /\ compileTimeout'.seq = evSeq'
       /\ compileTimeout' # NoTimer
       /\ UNCHANGED <<handled, unlinkSeq, unlinksRun, renames, lastUnlinkFile>>
    BY <1>1 DEF WriteFile, DeleteFile, WatchCollection, NoTimer
  <2>2. QED
    BY <1>0, <2>1 DEF RenameInv, RenamePairing, TypeOK, Seqs
<1>2. CASE Tick
  <2>1. /\ compileTimeout' # NoTimer => /\ compileTimeout # NoTimer
                                       /\ compileTimeout'.seq = compileTimeout.seq
       /\ UNCHANGED renameVars
    BY <1>2 DEF Tick, renameVars
  <2>2. QED
    BY <1>0, <2>1 DEF RenameInv, RenamePairing, renameVars
<1>3. ASSUME NEW s \in JobSlots, FireDelete(s) PROVE RenameInv'
  <2> DEFINE t == compileTimeout
  <2>1. /\ t # NoTimer
       /\ compileTimeout' = NoTimer
       /\ handled' = t.seq /\ unlinkSeq' = t.seq
       /\ unlinksRun' = unlinksRun \cup {t.seq}
       /\ lastUnlinkFile' = t.file
       /\ UNCHANGED <<evSeq, renames>>
    BY <1>3 DEF FireDelete, Fire
  <2>2. t.seq = evSeq /\ handled < t.seq
    BY <2>1 DEF RenameInv
  <2>3. \A r \in renames : r.from < r.to /\ r.to < t.seq
    BY <2>2, <1>0 DEF RenameInv, RenamePairing, TypeOK, Seqs
  <2>4. RenamePairing'
    <3>1. \A r \in renames : r.from \in unlinksRun'
      BY <2>1 DEF RenameInv, RenamePairing
    <3>2. \A r \in renames : \A u \in unlinksRun' : ~(r.from < u /\ u < r.to)
      BY <2>1, <2>3, <1>0 DEF RenameInv, RenamePairing, TypeOK, Seqs
    <3>3. QED
      BY <2>1, <3>1, <3>2 DEF RenameInv, RenamePairing
  <2>5. \A u \in unlinksRun' : u <= unlinkSeq'
    BY <2>1, <2>2, <1>0 DEF RenameInv, TypeOK, Seqs
  <2>6. QED
    BY <1>0, <2>1, <2>2, <2>3, <2>4, <2>5 DEF RenameInv, TypeOK, Seqs
<1>4. ASSUME NEW s \in JobSlots, FireWrite(s) PROVE RenameInv'
  <2> DEFINE t == compileTimeout
             isRename == lastUnlinkFile # NoFile /\ unlinkAge < RenameWindow
             new == [from |-> unlinkSeq, to |-> t.seq]
  <2>1. /\ t # NoTimer
       /\ compileTimeout' = NoTimer
       /\ handled' = t.seq
       /\ UNCHANGED <<evSeq, unlinkSeq, unlinksRun>>
    BY <1>4 DEF FireWrite, Fire
  <2>6. isRename => lastUnlinkFile' = NoFile /\ renames' = renames \cup {new}
    BY <1>4 DEF FireWrite
  <2>7. ~isRename => UNCHANGED <<lastUnlinkFile, renames>>
    BY <1>4 DEF FireWrite
  <2>2. t.seq = evSeq /\ handled < t.seq
    BY <2>1 DEF RenameInv
  <2>3. CASE isRename
    <3>1. unlinkSeq \in unlinksRun /\ \A r \in renames : r.from # unlinkSeq
      BY <2>3 DEF RenameInv
    <3>2. new.from \in unlinksRun /\ new.from < new.to
      BY <3>1, <2>2, <1>0 DEF RenameInv, TypeOK, Seqs
    <3>3. \A u \in unlinksRun : ~(new.from < u /\ u < new.to)
      BY <1>0 DEF RenameInv, TypeOK, Seqs
    <3>0. renames' = renames \cup {new} /\ lastUnlinkFile' = NoFile
      BY <2>3, <2>6
    <3>4. RenamePairing'
      <4>1. \A r \in renames : \A u \in unlinksRun : ~(r.from < u /\ u < r.to)
        BY DEF RenameInv, RenamePairing
      <4>2. \A r \in renames : r.from \in unlinksRun /\ r.from < r.to
        BY DEF RenameInv, RenamePairing
      <4>3. \A r, r2 \in renames : r2.from = r.from => r2 = r
        BY DEF RenameInv, RenamePairing
      <4>4. QED
        BY <3>0, <2>1, <3>1, <3>2, <3>3, <4>1, <4>2, <4>3 DEF RenamePairing
    <3>5. \A r \in renames' : r.to <= handled'
      <4>1. \A r \in renames : r.to <= handled
        BY DEF RenameInv
      <4>2. QED
        BY <3>0, <2>1, <2>2, <4>1, <1>0 DEF TypeOK, Seqs
    <3>6. QED
      BY <1>0, <3>0, <2>1, <2>2, <3>4, <3>5 DEF RenameInv, TypeOK, Seqs
  <2>4. CASE ~isRename
    <3>1. UNCHANGED <<renames, lastUnlinkFile>>
      BY <2>4, <2>7
    <3>2. QED
      BY <1>0, <2>1, <2>2, <3>1 DEF RenameInv, RenamePairing, TypeOK, Seqs
  <2>5. QED
    BY <2>3, <2>4
<1>5. ASSUME NEW s \in JobSlots,
             \/ CleanupDone(s) \/ CompileRead(s)
             \/ CompileResolves(s) \/ CompileRejects(s)
             \/ ClearCacheResolves(s) \/ ClearCacheRejects(s)
             \/ UpdateCollectionsResolves(s) \/ UpdateCollectionsRejects(s)
             \/ GenerateTypesDone(s)
      PROVE  RenameInv'
  <2>1. UNCHANGED <<compileTimeout, renameVars>>
    BY <1>5 DEF CleanupDone, CompileRead, CompileResolves, CompileRejects,
                ClearCacheResolves, ClearCacheRejects,
                UpdateCollectionsResolves, UpdateCollectionsRejects,
                GenerateTypesDone, Finish, MoveTo, renameVars
  <2>2. QED
    BY <1>0, <2>1 DEF RenameInv, RenamePairing, renameVars
<1>6. CASE FillCache \/ UNCHANGED vars
  <2>1. UNCHANGED <<compileTimeout, renameVars>>
    BY <1>6 DEF FillCache, vars, renameVars
  <2>2. QED
    BY <1>0, <2>1 DEF RenameInv, RenamePairing, renameVars
<1>7. QED
  BY <1>1, <1>2, <1>3, <1>4, <1>5, <1>6 DEF Next, Environment, RunTimer, Step

(* Rename heuristic: in every reachable state each recorded rename pairs  *)
(* an add/change with the latest unlink processed before it, and no       *)
(* unlink is paired twice (lastUnlinkFile is reset on a match).           *)
THEOREM RenamePairingHolds == Spec => []RenamePairing
<1>1. Init => RenameInv
  BY RenameInitial
<1>2. RenameInv /\ [Next]_vars => RenameInv'
  BY RenameStep
<1>3. RenameInv => RenamePairing
  BY DEF RenameInv
<1>4. QED
  BY <1>1, <1>2, <1>3, PTL DEF Spec

-----------------------------------------------------------------------------
\* The refinement needs one more fact: a candidate is a real event.
RefineInv == RenameInv /\ (lastUnlinkFile # NoFile => unlinkSeq # 0)

\* The variables the refinement mapping reads.
classVars == <<lastUnlinkFile, unlinkAge, unlinkSeq, handled, renames>>

LEMMA RefineStep == RefineInv /\ [Next]_vars => RefineInv'
<1> SUFFICES ASSUME RefineInv, [Next]_vars PROVE RefineInv'
  OBVIOUS
<1>1. RenameInv'
  BY RenameStep DEF RefineInv
<1>2. CASE \E s \in JobSlots : FireDelete(s)
  <2>1. compileTimeout \in Timer
    BY <1>2 DEF FireDelete, Fire, RefineInv, RenameInv, TypeOK
  <2>2. unlinkSeq' = compileTimeout.seq
    BY <1>2 DEF FireDelete
  <2>3. QED
    BY <1>1, <2>1, <2>2 DEF RefineInv, Timer
<1>3. CASE ~\E s \in JobSlots : FireDelete(s)
  <2>1. lastUnlinkFile' # NoFile => UNCHANGED <<lastUnlinkFile, unlinkSeq>>
    BY <1>3 DEF Next, Environment, RunTimer, Step, WriteFile, DeleteFile,
                Tick, FillCache, FireWrite, CleanupDone, CompileRead,
                CompileResolves, CompileRejects, ClearCacheResolves,
                ClearCacheRejects, UpdateCollectionsResolves,
                UpdateCollectionsRejects, GenerateTypesDone, Finish, MoveTo,
                vars
  <2>2. QED
    BY <1>1, <2>1 DEF RefineInv
<1>4. QED
  BY <1>2, <1>3

\* Every step of the watcher is a step of the classifier or leaves the
\* mapped state alone.
LEMMA ClassifierStep ==
    RefineInv /\ [Next]_vars => [RC!Next]_<<RenameCandidate, handled, renames>>
<1> SUFFICES ASSUME RefineInv, [Next]_vars
             PROVE  [RC!Next]_<<RenameCandidate, handled, renames>>
  OBVIOUS
<1>0. TypeOK
  BY DEF RefineInv, RenameInv
<1>1. CASE UNCHANGED classVars
  BY <1>1 DEF classVars, RenameCandidate
<1>2. CASE Tick
  <2>1. UNCHANGED <<lastUnlinkFile, unlinkSeq, handled, renames>>
    BY <1>2 DEF Tick
  <2>2. unlinkAge' \in Nat /\ unlinkAge' >= unlinkAge
    BY <1>2, <1>0 DEF Tick, TypeOK
  <2>3. RenameCandidate' = RenameCandidate \/ RenameCandidate' = 0
    BY <2>1, <2>2, <1>0 DEF RenameCandidate, TypeOK
  <2>4. QED
    BY <2>1, <2>3 DEF RC!Next, RC!Expire, RC!None
<1>3. ASSUME NEW s \in JobSlots, FireDelete(s)
      PROVE  [RC!Next]_<<RenameCandidate, handled, renames>>
  <2> DEFINE t == compileTimeout
  <2>1. /\ t \in Timer
        /\ handled' = t.seq /\ unlinkSeq' = t.seq
        /\ lastUnlinkFile' = t.file /\ unlinkAge' = 0
        /\ UNCHANGED renames
    BY <1>3, <1>0 DEF FireDelete, Fire, TypeOK
  <2>2. handled < t.seq
    BY <1>3 DEF FireDelete, Fire, RefineInv, RenameInv
  <2>3. RenameCandidate' = t.seq
    BY <2>1 DEF RenameCandidate, Timer
  <2>4. RC!Deleted(t.seq)
    BY <2>1, <2>2, <2>3 DEF RC!Deleted, RC!Settle
  <2>5. QED
    BY <2>1, <2>4 DEF RC!Next, Timer
<1>4. ASSUME NEW s \in JobSlots, FireWrite(s)
      PROVE  [RC!Next]_<<RenameCandidate, handled, renames>>
  <2> DEFINE t == compileTimeout
             isRename == lastUnlinkFile # NoFile /\ unlinkAge < RenameWindow
  <2>1. /\ t \in Timer
        /\ handled' = t.seq
        /\ UNCHANGED <<unlinkAge, unlinkSeq>>
    BY <1>4, <1>0 DEF FireWrite, Fire, TypeOK
  <2>2. handled < t.seq
    BY <1>4 DEF FireWrite, Fire, RefineInv, RenameInv
  <2>3. CASE isRename
    <3>1. lastUnlinkFile' = NoFile
          /\ renames' = renames \cup {[from |-> unlinkSeq, to |-> t.seq]}
      BY <1>4, <2>3 DEF FireWrite
    <3>2. RenameCandidate = unlinkSeq /\ unlinkSeq # 0 /\ RenameCandidate' = 0
      BY <2>3, <3>1 DEF RenameCandidate, RefineInv
    <3>3. RC!Renamed(t.seq)
      BY <2>1, <2>2, <3>1, <3>2 DEF RC!Renamed, RC!Settle, RC!None
    <3>4. QED
      BY <2>1, <3>3 DEF RC!Next, Timer
  <2>4. CASE ~isRename
    <3>1. UNCHANGED <<lastUnlinkFile, renames>>
      BY <1>4, <2>4 DEF FireWrite
    <3>2. RenameCandidate = 0 /\ RenameCandidate' = 0
      BY <2>1, <2>4, <3>1 DEF RenameCandidate
    <3>3. RC!Written(t.seq)
      BY <2>1, <2>2, <3>1, <3>2 DEF RC!Written, RC!Settle, RC!None
    <3>4. QED
      BY <2>1, <3>3 DEF RC!Next, Timer
  <2>5. QED
    BY <2>3, <2>4
<1>5. QED
  <2>1. CASE \E f \in Files : WriteFile(f) \/ DeleteFile(f)
    BY <2>1, <1>1 DEF WriteFile, DeleteFile, classVars
  <2>2. CASE \E s \in JobSlots : Step(s)
    BY <2>2, <1>1 DEF Step, CleanupDone, CompileRead, CompileResolves,
                      CompileRejects, ClearCacheResolves, ClearCacheRejects,
                      UpdateCollectionsResolves, UpdateCollectionsRejects,
                      GenerateTypesDone, Finish, MoveTo, classVars
  <2>3. CASE FillCache \/ UNCHANGED vars
    BY <2>3, <1>1 DEF FillCache, vars, classVars
  <2>4. QED
    BY <1>2, <1>3, <1>4, <2>1, <2>2, <2>3 DEF Next, Environment, RunTimer

(* Rename heuristic: the watcher implements the rename classifier of     *)
(* spec 4.3 under the mapping RenameCandidate (lastUnlinkFile while       *)
(* younger than the window) and handled (the last event a callback ran    *)
(* for), for every number of files, callbacks and events.                 *)
THEOREM ClassifierRefines == Spec => ClassifierRefinement
<1>1. Init => RefineInv
  BY RenameInitial DEF Init, RefineInv
<1>2. Init => RC!Init
  BY DEF Init, RC!Init, RC!None, RenameCandidate
<1>3. QED
  BY <1>1, <1>2, RefineStep, ClassifierStep, PTL
     DEF Spec, ClassifierRefinement, RC!Spec
-----------------------------------------------------------------------------
(* The refinement of the Debounce Coalescer.                               *)

(* A pending timer has waited, since the last file event, the part of its *)
(* delay it no longer has left: its ticks left plus the ticks since the   *)
(* event make up at least the debounce delay.                              *)
DebounceInv ==
    /\ TypeOK
    /\ compileTimeout # NoTimer => evAge + compileTimeout.left >= Debounce

LEMMA DebounceInvStep == DebounceInv /\ [Next]_vars => DebounceInv'
<1> SUFFICES ASSUME DebounceInv, [Next]_vars PROVE DebounceInv'
  OBVIOUS
<1>0. TypeOK /\ TypeOK'
  BY TypeStep DEF DebounceInv
<1>1. CASE \E f \in Files : WriteFile(f) \/ DeleteFile(f)
  <2>1. compileTimeout'.left = Debounce /\ evAge' = 0
    BY <1>1 DEF WriteFile, DeleteFile, WatchCollection
  <2>2. QED
    BY <1>0, <2>1 DEF DebounceInv
<1>2. CASE Tick
  <2>1. CASE compileTimeout = NoTimer
    BY <1>0, <1>2, <2>1 DEF Tick, DebounceInv
  <2>2. CASE compileTimeout # NoTimer
    <3>1. compileTimeout.left \in 0..Debounce /\ evAge \in 0..EvCap
      BY <1>0, <2>2 DEF TypeOK, Timer
    <3>2. /\ compileTimeout'.left = IF compileTimeout.left = 0 THEN 0
                                    ELSE compileTimeout.left - 1
          /\ evAge' = Older(evAge)
      BY <1>2, <2>2 DEF Tick
    <3>3. evAge' + compileTimeout'.left >= Debounce
      BY <2>2, <3>1, <3>2 DEF DebounceInv, Older, EvCap
    <3>4. QED
      BY <1>0, <3>3 DEF DebounceInv
  <2>3. QED
    BY <2>1, <2>2
<1>3. CASE RunTimer
  BY <1>0, <1>3 DEF RunTimer, FireDelete, FireWrite, Fire, DebounceInv
<1>4. CASE \/ \E s \in JobSlots : Step(s)
           \/ FillCache \/ UNCHANGED vars
  <2>1. UNCHANGED <<compileTimeout, evAge>>
    BY <1>4 DEF Step, CleanupDone, CompileRead, CompileResolves,
                CompileRejects, ClearCacheResolves, ClearCacheRejects,
                UpdateCollectionsResolves, UpdateCollectionsRejects,
                GenerateTypesDone, Finish, MoveTo, FillCache, vars
  <2>2. QED
    BY <1>0, <2>1 DEF DebounceInv
<1>5. QED
  BY <1>1, <1>2, <1>3, <1>4 DEF Next, Environment

LEMMA DebounceStep ==
    DebounceInv /\ [Next]_vars
       => [DC!Next]_<<evSeq, compileTimeout.seq, evAge, handled>>
<1> SUFFICES ASSUME DebounceInv, [Next]_vars
             PROVE  [DC!Next]_<<evSeq, compileTimeout.seq, evAge, handled>>
  OBVIOUS
<1>0. TypeOK
  BY DEF DebounceInv
<1>1. CASE \E f \in Files : WriteFile(f) \/ DeleteFile(f)
  <2>1. /\ evSeq < MaxSeq /\ evSeq' = evSeq + 1 /\ compileTimeout'.seq = evSeq'
        /\ evAge' = 0 /\ UNCHANGED handled
    BY <1>1 DEF WriteFile, DeleteFile, WatchCollection
  <2>2. DC!Register
    BY <2>1 DEF DC!Register
  <2>3. QED
    BY <2>1, <2>2 DEF DC!Next
<1>2. CASE Tick
  <2>1. compileTimeout'.seq = compileTimeout.seq /\ UNCHANGED evSeq
    BY <1>2 DEF Tick, NoTimer
  <2>2. evAge' = IF evAge < EvCap THEN evAge + 1 ELSE EvCap
    BY <1>2 DEF Tick, Older
  <2>3. DC!Elapse
    BY <1>2, <2>1, <2>2 DEF DC!Elapse, Tick
  <2>4. QED
    BY <2>3 DEF DC!Next
<1>3. ASSUME NEW s \in JobSlots, FireDelete(s) \/ FireWrite(s)
      PROVE  [DC!Next]_<<evSeq, compileTimeout.seq, evAge, handled>>
  <2> DEFINE t == compileTimeout
  <2>1. /\ t # NoTimer /\ t.left = 0 /\ compileTimeout' = NoTimer
        /\ handled' = t.seq /\ UNCHANGED <<evSeq, evAge>>
    BY <1>3 DEF FireDelete, FireWrite, Fire
  <2>2. t.seq \in 1..MaxSeq
    BY <1>0, <2>1 DEF TypeOK, Timer
  <2>3. evAge >= Debounce
    BY <1>0, <2>1 DEF DebounceInv, TypeOK, EvCap
  <2>4. DC!Emit
    BY <2>1, <2>2, <2>3 DEF DC!Emit, DC!None, NoTimer
  <2>5. QED
    BY <2>4 DEF DC!Next
<1>4. CASE \/ \E s \in JobSlots : Step(s)
           \/ FillCache \/ UNCHANGED vars
  BY <1>4 DEF Step, CleanupDone, CompileRead, CompileResolves,
              CompileRejects, ClearCacheResolves, ClearCacheRejects,
              UpdateCollectionsResolves, UpdateCollectionsRejects,
              GenerateTypesDone, Finish, MoveTo, FillCache, vars
<1>5. QED
  BY <1>1, <1>2, <1>3, <1>4 DEF Next, Environment, RunTimer

(* Debounce (clearTimeout, then setTimeout(..., 50)): for every number of *)
(* files, callbacks and events and every delay and window, a timer        *)
(* callback starts only after Debounce ticks with no file event, once per *)
(* window, for the window's final event (the latest file event): the     *)
(* watcher implements the Debounce Coalescer of spec 4.2.                  *)
THEOREM DebounceRefines == Spec => DebounceRefinement
<1>1. Init => DebounceInv
  BY InitType DEF Init, DebounceInv
<1>2. Init => DC!Init
  BY DEF Init, DC!Init, DC!None, NoTimer
<1>3. QED
  BY <1>1, <1>2, DebounceInvStep, DebounceStep, PTL
     DEF Spec, DebounceRefinement, DC!Spec

=============================================================================
