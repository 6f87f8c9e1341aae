------------------------- MODULE CollectionWatcher -------------------------
(***************************************************************************)
(* The 'collection-watcher' Vite plugin of src/vite.config.ts: the watcher *)
(* callback for files under config/collections, the single global          *)
(* debounce timer `compileTimeout`, the rename heuristic on                 *)
(* lastUnlinkFile/lastUnlinkTime, and the async timer callback, which       *)
(* suspends at every await (cleanup, compile, clearCache,                   *)
(* updateCollections, generateContentTypes).  Each action below is one      *)
(* atomic run of JavaScript between two suspension points; timer callbacks *)
(* whose awaits are outstanding are the in-flight `jobs`, and nothing in   *)
(* the code stops two of them from overlapping.                            *)
(*                                                                         *)
(* Data is abstracted to versions: a source file holds the sequence number *)
(* of the file-system event that last wrote it (Absent = 0 when it does    *)
(* not exist); the compiled artifacts, the content manager's registry, the *)
(* generated types and the Redis content-structure cache hold the version *)
(* of each file they reflect.  Time is counted in ticks and kept relative: *)
(* the timer holds the ticks left before it may fire, and unlinkAge the    *)
(* ticks since lastUnlinkTime, capped at RenameWindow (all larger ages     *)
(* behave alike in `currentTime - lastUnlinkTime < 100`).                  *)
(***************************************************************************)
EXTENDS Naturals, FiniteSets

CONSTANTS
    Files,          \* collection source files (model values)
    NoFile,         \* null, the initial value of lastUnlinkFile
    NoCache,        \* an empty content-structure cache region
    JobSlots,       \* bound on timer callbacks in flight at once
    MaxSeq,         \* bound on file-system events (the last sequence number)
    Debounce,       \* the setTimeout delay (50 ms) in ticks
    RenameWindow,   \* the rename threshold (100 ms) in ticks
    RedisEnabled,   \* the value isRedisEnabled() returns
    CanDelete,      \* whether the environment deletes collection files
    Fallible        \* the awaited calls that may reject

Ops == {"cleanup", "compile", "clearCache", "updateCollections", "generateTypes"}

ASSUME ConstantsAssumption ==
    /\ IsFiniteSet(Files) /\ NoFile \notin Files
    /\ JobSlots # {}
    /\ MaxSeq \in Nat \ {0}
    /\ Debounce \in Nat \ {0}
    /\ RenameWindow \in Nat \ {0}
    /\ RedisEnabled \in BOOLEAN
    /\ CanDelete \in BOOLEAN
    /\ Fallible \subseteq Ops

VARIABLES
    src,            \* config/collections: version of each source file
    compiled,       \* compiledCollections: version each artifact was built from
    registry,       \* contentManager's collections
    types,          \* the generated content types
    cache,          \* Redis 'api:content-structure:*' region
    evSeq,          \* number of the last file-system event
    compileTimeout, \* the pending debounce timer, or NoTimer
    lastUnlinkFile, \* the rename candidate
    unlinkAge,      \* ticks since lastUnlinkTime, capped at RenameWindow
    jobs,           \* the timer callbacks in flight, one per slot
    \* history variables, read only by the properties
    handled,        \* sequence number of the last event a timer callback ran for
    unlinkSeq,      \* sequence number of the event that set lastUnlinkFile
    unlinksRun,     \* sequence numbers of the unlink events processed
    renames,        \* the rename classifications made, as [from, to] numbers
    notified,       \* number of 'collections-updated' messages sent
    evAge,          \* ticks since the last file-system event, capped at EvCap
    candEvAge       \* ticks since the candidate's unlink event, capped at EvCap

vars == <<src, compiled, registry, types, cache, evSeq, compileTimeout,
          lastUnlinkFile, unlinkAge, jobs, handled, unlinkSeq, unlinksRun,
          renames, notified, evAge, candEvAge>>

Absent == 0
Seqs == 0..MaxSeq
\* Event ages are told apart up to the debounce delay plus two rename
\* windows: a timer fires at least Debounce ticks after its event and a
\* rename is decided less than a window after its add event, so larger
\* gaps all compare alike.
EvCap == Debounce + 2 * RenameWindow
Older(a) == IF a < EvCap THEN a + 1 ELSE EvCap
Tree == [Files -> Seqs]
NoTimer == [ev |-> "none", file |-> NoFile, seq |-> 0, left |-> 0]
Events == {"add", "change", "unlink"}
Timer == [ev : Events, file : Files, seq : 1..MaxSeq, left : 0..Debounce]
PCs == {"free", "cleanup", "compile", "write", "clearCache",
        "updateCollections", "generateTypes"}
Job == [pc : PCs, ev : Events \cup {"none"}, file : Files \cup {NoFile},
        seq : Seqs, snap : Tree]
NoSnap == [f \in Files |-> Absent]
JobRec(p, ev, f, seq, snap) ==
    [pc |-> p, ev |-> ev, file |-> f, seq |-> seq, snap |-> snap]
FreeJob == JobRec("free", "none", NoFile, 0, NoSnap)

\* The callback of timer t, started and suspended at pc p.
Started(t, p) == JobRec(p, t.ev, t.file, t.seq, NoSnap)

\* The callback in slot s resumes and suspends again at pc p.
MoveTo(s, p) ==
    jobs' = [jobs EXCEPT ![s] = JobRec(p, jobs[s].ev, jobs[s].file,
                                       jobs[s].seq, jobs[s].snap)]

\* The outcomes an awaited call `op` may have.
Outcomes(op) == IF op \in Fallible THEN BOOLEAN ELSE {TRUE}

\* The slot s is running a callback at pc p.
At(s, p) == jobs[s].pc = p

\* A compile writes the artifact of every source it read; it does not
\* remove artifacts whose source is gone (cleanupOrphanedFiles does that).
CompileOutput(snap) == [f \in Files |-> IF snap[f] = Absent THEN compiled[f]
                                                            ELSE snap[f]]

\* cleanupOrphanedFiles: drop every artifact whose source no longer exists.
CleanupOutput == [f \in Files |-> IF src[f] = Absent THEN Absent
                                                    ELSE compiled[f]]

TypeOK ==
    /\ src \in Tree /\ compiled \in Tree /\ registry \in Tree
    /\ types \in Tree
    /\ cache \in Tree \cup {NoCache}
    /\ evSeq \in Seqs
    /\ compileTimeout \in Timer \cup {NoTimer}
    /\ lastUnlinkFile \in Files \cup {NoFile}
    /\ unlinkAge \in 0..RenameWindow
    /\ jobs \in [JobSlots -> Job]
    /\ handled \in Seqs /\ unlinkSeq \in Seqs
    /\ unlinksRun \subseteq Seqs
    /\ renames \subseteq [from : Seqs, to : Seqs]
    /\ notified \in Nat
    /\ evAge \in 0..EvCap /\ candEvAge \in 0..EvCap

-----------------------------------------------------------------------------
(* buildStart has compiled the collections before the server watches them *)
(* (a failed initial compile rethrows and the server never starts), so    *)
(* the artifacts, registry and types all reflect the initial sources.     *)
Init ==
    /\ \E present \in SUBSET Files :
          src = [f \in Files |-> IF f \in present THEN 1 ELSE Absent]
    /\ compiled = src /\ registry = src /\ types = src
    /\ cache = NoCache
    /\ evSeq = 1
    /\ compileTimeout = NoTimer
    /\ lastUnlinkFile = NoFile
    /\ unlinkAge = RenameWindow     \* lastUnlinkTime = 0, long ago
    /\ jobs = [s \in JobSlots |-> FreeJob]
    /\ handled = 1 /\ unlinkSeq = 0 /\ unlinksRun = {}
    /\ renames = {} /\ notified = 0
    /\ evAge = EvCap /\ candEvAge = EvCap

\* Seeded bug: the timer is armed one tick too long.
WatchCollectionLate(ev, f, seq) ==
    compileTimeout' = [ev |-> ev, file |-> f, seq |-> seq, left |-> Debounce + 1]

\* Seeded bug: a pending timer is kept instead of being replaced (throttle).
WatchCollectionThrottle(ev, f, seq) ==
    compileTimeout' = IF compileTimeout = NoTimer
                      THEN [ev |-> ev, file |-> f, seq |-> seq, left |-> Debounce]
                      ELSE compileTimeout

(* server.watcher.on('all') for a .ts/.js file under config/collections:  *)
(* clearTimeout(compileTimeout) and a new 50 ms timer that closes over    *)
(* this event and file.                                                   *)
WatchCollection(ev, f, seq) ==
    compileTimeout' = [ev |-> ev, file |-> f, seq |-> seq, left |-> Debounce]

(* The environment writes or deletes a collection file; chokidar reports  *)
(* it to the watcher callback.                                            *)
WriteFile(f) ==
    /\ evSeq < MaxSeq
    /\ evSeq' = evSeq + 1
    /\ src' = [src EXCEPT ![f] = evSeq']
    /\ WatchCollection(IF src[f] = Absent THEN "add" ELSE "change", f, evSeq')
    /\ evAge' = 0
    /\ UNCHANGED <<compiled, registry, types, cache, lastUnlinkFile,
                   unlinkAge, jobs, handled, unlinkSeq, unlinksRun, renames,
                   notified, candEvAge>>

DeleteFile(f) ==
    /\ CanDelete
    /\ src[f] # Absent
    /\ evSeq < MaxSeq
    /\ evSeq' = evSeq + 1
    /\ src' = [src EXCEPT ![f] = Absent]
    /\ WatchCollection("unlink", f, evSeq')
    /\ evAge' = 0
    /\ UNCHANGED <<compiled, registry, types, cache, lastUnlinkFile,
                   unlinkAge, jobs, handled, unlinkSeq, unlinksRun, renames,
                   notified, candEvAge>>

(* Time passes.  A timer fires no earlier than its delay, and may fire    *)
(* later, when the event loop is busy.                                    *)
Tick ==
    /\ compileTimeout' = IF compileTimeout = NoTimer THEN NoTimer
                         ELSE [ev |-> compileTimeout.ev,
                               file |-> compileTimeout.file,
                               seq |-> compileTimeout.seq,
                               left |-> IF compileTimeout.left = 0 THEN 0
                                        ELSE compileTimeout.left - 1]
    /\ unlinkAge' = IF unlinkAge < RenameWindow THEN unlinkAge + 1
                                               ELSE RenameWindow
    /\ evAge' = Older(evAge) /\ candEvAge' = Older(candEvAge)
    /\ UNCHANGED <<src, compiled, registry, types, cache, evSeq,
                   lastUnlinkFile, jobs, handled, unlinkSeq, unlinksRun,
                   renames, notified>>

(* An API request misses the content-structure cache and fills it from   *)
(* the content manager (the cache-aside reader of the Redis region).     *)
FillCache ==
    /\ RedisEnabled
    /\ cache = NoCache
    /\ cache' = registry
    /\ UNCHANGED <<src, compiled, registry, types, evSeq, compileTimeout,
                   lastUnlinkFile, unlinkAge, jobs, handled, unlinkSeq,
                   unlinksRun, renames, notified, evAge, candEvAge>>
-----------------------------------------------------------------------------
(* The timer fires: the synchronous start of the setTimeout callback, up   *)
(* to its first await.  It runs for the event and file of the last         *)
(* registration; a free slot stands for the callback's own activation.     *)
Fire(s, t) ==
    /\ t # NoTimer /\ t.left = 0
    /\ At(s, "free")
    /\ compileTimeout' = NoTimer
    /\ handled' = t.seq

\* Seeded bug: an unresolved rename candidate is kept ("first delete
\* wins"), though lastUnlinkTime is refreshed.
FireDeleteFirstWins(s) ==
    LET t == compileTimeout
        keep == lastUnlinkFile # NoFile
    IN
    /\ Fire(s, t)
    /\ t.ev = "unlink"
    /\ lastUnlinkFile' = IF keep THEN lastUnlinkFile ELSE t.file
    /\ unlinkAge' = 0
    /\ unlinkSeq' = IF keep THEN unlinkSeq ELSE t.seq
    /\ candEvAge' = IF keep THEN candEvAge ELSE evAge
    /\ unlinksRun' = unlinksRun \cup {t.seq}
    /\ jobs' = [jobs EXCEPT ![s] = Started(t, "cleanup")]
    /\ UNCHANGED <<src, compiled, registry, types, cache, evSeq, renames,
                   notified, evAge>>

(* unlink: remember the file and time as the rename candidate, then await *)
(* cleanupOrphanedFiles.                                                  *)
FireDelete(s) ==
    LET t == compileTimeout IN
    /\ Fire(s, t)
    /\ t.ev = "unlink"
    /\ lastUnlinkFile' = t.file
    /\ unlinkAge' = 0
    /\ unlinkSeq' = t.seq
    /\ candEvAge' = evAge
    /\ unlinksRun' = unlinksRun \cup {t.seq}
    /\ jobs' = [jobs EXCEPT ![s] = Started(t, "cleanup")]
    /\ UNCHANGED <<src, compiled, registry, types, cache, evSeq, renames,
                   notified, evAge>>

(* add/change: a candidate younger than the rename window makes this a   *)
(* rename and is consumed; then await compile.                            *)
FireWrite(s) ==
    LET t == compileTimeout
        isRename == lastUnlinkFile # NoFile /\ unlinkAge < RenameWindow
    IN
    /\ Fire(s, t)
    /\ t.ev \in {"add", "change"}
    /\ lastUnlinkFile' = IF isRename THEN NoFile ELSE lastUnlinkFile
    /\ renames' = IF isRename
                    THEN renames \cup {[from |-> unlinkSeq, to |-> t.seq]}
                    ELSE renames
    /\ jobs' = [jobs EXCEPT ![s] = Started(t, "compile")]
    /\ UNCHANGED <<src, compiled, registry, types, cache, evSeq, unlinkAge,
                   unlinkSeq, unlinksRun, notified, evAge, candEvAge>>

(* The callback ends: back to a free slot, with or without               *)
(* server.ws.send({event: 'collections-updated'}).                        *)
Finish(s, notify) ==
    /\ jobs' = [jobs EXCEPT ![s] = FreeJob]
    /\ notified' = IF notify THEN notified + 1 ELSE notified

(* await cleanupOrphanedFiles resolves (notify) or rejects (the outer     *)
(* catch logs it; nothing is sent).                                       *)
CleanupDone(s) ==
    /\ At(s, "cleanup")
    /\ \E ok \in Outcomes("cleanup") :
          /\ compiled' = IF ok THEN CleanupOutput ELSE compiled
          /\ Finish(s, ok)
    /\ UNCHANGED <<src, registry, types, cache, evSeq, compileTimeout,
                   lastUnlinkFile, unlinkAge, handled, unlinkSeq, unlinksRun,
                   renames, evAge, candEvAge>>

(* The compiler reads the whole source tree ...                           *)
CompileRead(s) ==
    /\ At(s, "compile")
    /\ jobs' = [jobs EXCEPT ![s] = JobRec("write", jobs[s].ev, jobs[s].file,
                                           jobs[s].seq, src)]
    /\ UNCHANGED <<src, compiled, registry, types, cache, evSeq,
                   compileTimeout, lastUnlinkFile, unlinkAge, handled,
                   unlinkSeq, unlinksRun, renames, notified, evAge, candEvAge>>

(* ... and await compile resolves with the artifacts of what it read;    *)
(* the post-compilation sync starts with clearCache if isRedisEnabled().  *)
CompileResolves(s) ==
    /\ At(s, "write")
    /\ TRUE \in Outcomes("compile")
    /\ compiled' = CompileOutput(jobs[s].snap)
    /\ MoveTo(s, IF RedisEnabled THEN "clearCache" ELSE "updateCollections")
    /\ UNCHANGED <<src, registry, types, cache, evSeq, compileTimeout,
                   lastUnlinkFile, unlinkAge, handled, unlinkSeq, unlinksRun,
                   renames, notified, evAge, candEvAge>>

(* ... or rejects: the outer catch logs it and nothing is sent.           *)
CompileRejects(s) ==
    /\ At(s, "write")
    /\ FALSE \in Outcomes("compile")
    /\ Finish(s, FALSE)
    /\ UNCHANGED <<src, compiled, registry, types, cache, evSeq,
                   compileTimeout, lastUnlinkFile, unlinkAge, handled,
                   unlinkSeq, unlinksRun, renames, evAge, candEvAge>>

(* await clearCache('api:content-structure:*') resolves ...               *)
ClearCacheResolves(s) ==
    /\ At(s, "clearCache")
    /\ TRUE \in Outcomes("clearCache")
    /\ cache' = NoCache
    /\ MoveTo(s, "updateCollections")
    /\ UNCHANGED <<src, compiled, registry, types, evSeq, compileTimeout,
                   lastUnlinkFile, unlinkAge, handled, unlinkSeq, unlinksRun,
                   renames, notified, evAge, candEvAge>>

(* ... or rejects: the syncError catch logs it, skipping the rest of the *)
(* sync, and the message is still sent.                                   *)
ClearCacheRejects(s) ==
    /\ At(s, "clearCache")
    /\ FALSE \in Outcomes("clearCache")
    /\ Finish(s, TRUE)
    /\ UNCHANGED <<src, compiled, registry, types, cache, evSeq,
                   compileTimeout, lastUnlinkFile, unlinkAge, handled,
                   unlinkSeq, unlinksRun, renames, evAge, candEvAge>>

(* await contentManager.updateCollections(true) resolves: the registry   *)
(* has reloaded the compiled collections ...                              *)
UpdateCollectionsResolves(s) ==
    /\ At(s, "updateCollections")
    /\ TRUE \in Outcomes("updateCollections")
    /\ registry' = compiled
    /\ MoveTo(s, "generateTypes")
    /\ UNCHANGED <<src, compiled, types, cache, evSeq, compileTimeout,
                   lastUnlinkFile, unlinkAge, handled, unlinkSeq, unlinksRun,
                   renames, notified, evAge, candEvAge>>

(* ... or rejects: logged, generateContentTypes is skipped, message sent. *)
UpdateCollectionsRejects(s) ==
    /\ At(s, "updateCollections")
    /\ FALSE \in Outcomes("updateCollections")
    /\ Finish(s, TRUE)
    /\ UNCHANGED <<src, compiled, registry, types, cache, evSeq,
                   compileTimeout, lastUnlinkFile, unlinkAge, handled,
                   unlinkSeq, unlinksRun, renames, evAge, candEvAge>>

(* await generateContentTypes() settles, then the message is sent either *)
(* way.                                                                   *)
GenerateTypesDone(s) ==
    /\ At(s, "generateTypes")
    /\ \E ok \in Outcomes("generateTypes") :
          types' = IF ok THEN compiled ELSE types
    /\ Finish(s, TRUE)
    /\ UNCHANGED <<src, compiled, registry, cache, evSeq, compileTimeout,
                   lastUnlinkFile, unlinkAge, handled, unlinkSeq, unlinksRun,
                   renames, evAge, candEvAge>>

-----------------------------------------------------------------------------
RunTimer == \E s \in JobSlots : FireDelete(s) \/ FireWrite(s)

Step(s) ==
    \/ CleanupDone(s)
    \/ CompileRead(s)
    \/ CompileResolves(s)
    \/ CompileRejects(s)
    \/ ClearCacheResolves(s)
    \/ ClearCacheRejects(s)
    \/ UpdateCollectionsResolves(s)
    \/ UpdateCollectionsRejects(s)
    \/ GenerateTypesDone(s)

Environment ==
    \/ \E f \in Files : WriteFile(f) \/ DeleteFile(f)
    \/ Tick
    \/ FillCache

Next == Environment \/ RunTimer \/ \E s \in JobSlots : Step(s)

(* Time passes, a due timer runs once the event loop gets to it, and an  *)
(* awaited call settles; file edits and API requests need not happen.     *)
Fairness ==
    /\ WF_vars(Tick)
    /\ WF_vars(RunTimer)
    /\ \A s \in JobSlots : WF_vars(Step(s))

Spec == Init /\ [][Next]_vars /\ Fairness
-----------------------------------------------------------------------------
(* No timer is pending and no callback is awaiting anything.             *)
Quiescent == compileTimeout = NoTimer /\ \A s \in JobSlots : At(s, "free")

(* Rename heuristic (lastUnlinkFile/lastUnlinkTime): a rename pairs an    *)
(* add/change with an earlier processed unlink, only with the latest one  *)
(* processed before it ("last delete wins"), and no unlink is ever paired *)
(* with two adds.                                                         *)
RenamePairing ==
    \A r \in renames :
       /\ r.from \in unlinksRun /\ r.from < r.to
       /\ \A u \in unlinksRun : ~(r.from < u /\ u < r.to)
       /\ \A r2 \in renames : r2.from = r.from => r2 = r

(* The inductive strengthening of RenamePairing.  Timer callbacks run in  *)
(* the order of their events, because setting a timer cancels the pending *)
(* one; unlinkSeq is the latest unlink processed; and a live candidate    *)
(* has not been paired yet.                                               *)
RenameInv ==
    /\ TypeOK
    /\ RenamePairing
    /\ handled <= evSeq
    /\ compileTimeout # NoTimer =>
          compileTimeout.seq = evSeq /\ handled < evSeq
    /\ unlinkSeq <= handled
    /\ \A u \in unlinksRun : u <= unlinkSeq
    /\ \A r \in renames : r.to <= handled
    /\ lastUnlinkFile # NoFile =>
          /\ unlinkSeq \in unlinksRun
          /\ \A r \in renames : r.from # unlinkSeq

(* The rename candidate as the classifier of spec 4.3 sees it: the last  *)
(* processed unlink while it is younger than the rename window.           *)
RenameCandidate ==
    IF lastUnlinkFile # NoFile /\ unlinkAge < RenameWindow THEN unlinkSeq ELSE 0

RC == INSTANCE RenameClassifier WITH candidate <- RenameCandidate,
                                     last <- handled

(* Rename heuristic as a whole (timer callbacks, lastUnlinkFile and       *)
(* lastUnlinkTime): the watcher implements the classifier of spec 4.3.    *)
(* Callbacks classify events in event order, an unlink replaces the       *)
(* candidate, an add or change is a rename exactly when a live candidate  *)
(* exists and then consumes it, and a candidate only ever lapses by age.  *)
ClassifierRefinement == RC!Spec

(* Debounce (clearTimeout, then setTimeout(..., 50)): the watcher is the *)
(* Debounce Coalescer of spec 4.2: each file event restarts the one       *)
(* window and becomes its pending change, and a timer callback starts     *)
(* only after Debounce ticks with no file event, once per window, for the *)
(* window's final event, the latest file event.                           *)
DC == INSTANCE DebounceCoalescer WITH latest <- evSeq,
                                      pending <- compileTimeout.seq,
                                      quiet <- evAge, emitted <- handled,
                                      Window <- Debounce, Cap <- EvCap
DebounceRefinement == DC!Spec

(* Spec 8: a delete followed by an add after the 100 ms threshold yields *)
(* two independent classifications.  The code measures the threshold    *)
(* when the timer callbacks run (currentTime - lastUnlinkTime), so this  *)
(* says: a rename only pairs an unlink with an add whose events happened  *)
(* less than the rename window apart.  When a callback classifies, its   *)
(* add is the latest event, so evAge is that event's age.                *)
RenameWithinWindow ==
    [][renames' # renames => candEvAge - evAge < RenameWindow]_vars

(* Debounce and async callback: every file-system event is eventually    *)
(* settled, i.e. a timer callback ran for it or for a later event and     *)
(* every callback started for it or earlier has finished.                 *)
EveryEventSettles ==
    \A e \in Seqs :
       evSeq = e ~> /\ handled >= e
                    /\ \A s \in JobSlots : At(s, "free") \/ jobs[s].seq > e

(* Whole-tree recompilation (spec 4.2, 4.4): once the watcher is idle,   *)
(* the compiled collections reflect the sources exactly, provided no      *)
(* awaited call rejected.                                                 *)
QuiescentCompiledCurrent == Quiescent => compiled = src

(* Post-compilation sync (clearCache then updateCollections): once the    *)
(* watcher is idle, the content-structure cache is empty or holds the     *)
(* registry's current collections.                                        *)
CacheCoherent == Quiescent => cache \in {NoCache, registry}

(* Spec 4.5: a failed cache clear is logged and updateCollections is      *)
(* still attempted: a callback leaving clearCache goes to it.             *)
SyncBestEffort ==
    [][\A s \in JobSlots :
         At(s, "clearCache") /\ jobs'[s].pc # "clearCache"
            => jobs'[s].pc = "updateCollections"]_vars

(* Spec 4.6: every callback, successful or not, ends by sending one       *)
(* 'collections-updated' message.                                         *)
NotifyEveryOutcome ==
    [][\A s \in JobSlots :
         ~At(s, "free") /\ At(s, "free")'
            => notified' = notified + 1]_vars
=============================================================================
