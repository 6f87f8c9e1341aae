# Verification of SveltyCMS's dev-server plugin and port manager

This directory holds TLA+ models of the parts of this repository that have behaviour:
- the `collection-watcher` Vite plugin in `src/vite.config.ts`;
- the development port manager `src/scripts/dev-port.js`.

Alongside the models are the TLC configurations that check them and the TLAPS proofs about them. `PROJECT.json` lists every run, mutant, finding and hazard, and maps each definition to the source lines it models.

## The system and its parts

| Part | Source | Module(s) | Status |
|---|---|---|---|
| Collection watcher: file event, global 50 ms debounce timer, rename heuristic, async timer callback (cleanup or compile, then clearCache, updateCollections, generateContentTypes, then `collections-updated`) | `src/vite.config.ts` 86-171 | `CollectionWatcher`, `MC_CollectionWatcher`, `CollectionWatcherProofs`; abstract rename classifier `RenameClassifier`; abstract debounce coalescer `DebounceCoalescer` | modelled |
| buildStart initial compile | 75-85 | `CollectionWatcher` (Init) | modelled |
| Roles hot reload: cache-busting `import(roles.ts?update=Date.now())`, `setLoadedRoles`, `full-reload` | 174-193 | `RolesReload`, `RolesReloadProofs` | modelled |
| Config bootstrap: check for `private.ts`/`public.ts`, run the installer | 33-60 | none | not modelled (see below) |
| `config()`, aliases, Vite options | 1-31, 197-229 | none | pure data |
| Port manager CLI: `check`, `find`, `kill`, `set`, `auto`, `updateEnvPort` | `src/scripts/dev-port.js` | `PortManager`, `MC_PortManager`, `PortManagerProofs`; abstract command contract `PortCommand` | partly (Unix `kill` only) |
| `src/config/*.ts` | | none | constant data |
| Playwright tests | `src/tests/playwright` | none | UI tests of code not in the repository |

How the parts interact:
- Both watcher branches hang off one chokidar `'all'` listener. A file under `config/collections` goes to the debounced pipeline. `config/roles.ts` goes to the undebounced roles reload.
- Everything runs on one JavaScript event loop. The hazards therefore come from the interleaving of callbacks at their `await`s, not from threads.
- The port manager is a separate process. It shares nothing with the plugin except `.env.local`, which the dev server reads at start.

## Modules

### CollectionWatcher

Each action is one atomic stretch of JavaScript between two `await`s.

The watcher callback:
- `WriteFile`/`DeleteFile` model the environment editing a file, and `WatchCollection` models the watcher callback's own work.
- That work is `clearTimeout` and a new 50 ms timer capturing this event and file. There is one global `compileTimeout`.
- `Tick` lets time pass. A timer fires no earlier than its delay but may fire later.

The timer callback:
- Firing a timer is `FireDelete` (the unlink branch, lines 109-116) or `FireWrite` (the add/change branch with `isRename`, lines 118-132).
- It starts a *job* in a slot. Each later resumption is one action:
  - `CleanupDone`
  - `CompileRead` then `CompileResolves`/`CompileRejects`
  - `ClearCacheResolves`/`ClearCacheRejects`
  - `UpdateCollectionsResolves`/`UpdateCollectionsRejects`
  - `GenerateTypesDone`
- Each of these ends in `Finish` (with or without `ws.send`) or moves to the next await.
- The single `try/catch (syncError)` around the three sync steps is kept exactly: a rejection anywhere skips the rest.

Data is abstracted to versions:
- a source file holds the sequence number of the event that last wrote it (`Absent` = 0);
- artifacts, registry, generated types and the Redis region hold the versions they reflect.

The external collaborators are not in this repository and are modelled by their contract (spec §6):
- `compile` writes the artifacts of the tree it read and removes nothing;
- `cleanupOrphanedFiles` removes orphans;
- `updateCollections` reloads the registry from the artifacts.

`FillCache` is the cache-aside reader of `api:content-structure:*`. It is the only action taken from the spec rather than from `src/`.

Time is relative: the timer keeps the ticks left, and `unlinkAge` counts ticks since `lastUnlinkTime`, capped at the rename window. The MC instance uses 1 tick = 50 ms, so the 100 ms window is 2 ticks.

History variables are read only by properties:
- `handled`
- `unlinkSeq`
- `unlinksRun`
- `renames`
- `notified`
- `evAge` and `candEvAge`: ticks since the last file event, and since the event of the current rename candidate, capped at the debounce plus twice the window (`EvCap`).

### RenameClassifier (abstract)

This module states what spec §4.3 promises of the rename heuristic, over settled events instead of timers and callbacks:
- events are classified one at a time, in order (`last`);
- a delete becomes the single candidate, replacing any older one;
- an add or change that finds a candidate is `Renamed(candidate, event)` and consumes it; otherwise it is plain;
- a candidate may expire at any time.

`CollectionWatcher` implements it under this mapping:
- `candidate <- RenameCandidate`: the unlink's event while `lastUnlinkFile` is set and younger than the window;
- `last <- handled`;
- `renames <- renames`.

`ClassifierRefinement` (`RC!Spec`) is checked by the `Rename` run and proved by `ClassifierRefines`.

### DebounceCoalescer (abstract)

This module states what spec §4.2 promises of the debounce, without callbacks or files:
- `Register`: the next event (`latest + 1`, up to `MaxSeq`) becomes the window's pending change and resets the quiet time;
- `Elapse`: time passes, counted up to `Cap`;
- `Emit`: after `Window` units with no registration, the pending event is emitted as one batch and the window closes.

Because only `Register` sets `pending`, and always to the latest event, an emitted batch is always the window's final event.

`CollectionWatcher` implements it under this mapping:
- `latest <- evSeq`;
- `pending <- compileTimeout.seq` (0 when no timer is armed);
- `quiet <- evAge`;
- `emitted <- handled`;
- `Window <- Debounce`, `Cap <- EvCap`.

`RunTimer` maps to `Emit`, a file event to `Register`, `Tick` to `Elapse`, and every callback step to a stutter. `DebounceRefinement` (`DC!Spec`) is checked by the `Rename` run and proved by `DebounceRefines`. A throttling timer (one not re-armed by a later event) breaks it: its pending event is no longer the latest.

### RolesReload

- A roles event runs `WatchRoles`. With a URL of a new millisecond it starts a module load. With the current millisecond's URL it joins that load, finished or not: Node keeps one module per URL.
- `LoadRead` reads `roles.ts`. A missing or broken file rejects, and the awaiting callbacks resume in the `catch`.
- `LoadDone` resolves the module. All callbacks awaiting it resume in the same run of microtasks, each calling `setLoadedRoles(roles)` and sending `full-reload`.
- `Tick` advances `Date.now()`.

### PortManager

- `Main` is the `switch` of `main()`. Its `set` case is `SetCmd`: `!portArg || isNaN(portArg)` (0 or not a number) exits, and any other argument is written.
- `FindStep` is one iteration of `findAvailablePort`'s two loops. The candidate order is the start port, then `DEFAULT_PORTS` without it, then `start .. start+SeqSpan-1`.
- `AutoCheck` is `auto` after its 1 s wait.
- `KillPort` is the Unix `killPort`. `lsof -ti` lists every process with a socket on the port, one per line. The shell string `kill -9 ${pid}` therefore kills only the first and fails on the rest, and the error is swallowed.
- `CliAt` is the CLI record after `main()` parsed `command` and `portArg`: the command and argument never change.
- `UpdateEnvPort` translates `updateEnvPort` line by line. A line is `KEY=value`, abstracted to key, host and port. The regular expressions `/PORT=\d+/g` and `/HOST_DEV=http:\/\/localhost:\d+/g` are modelled by which lines they match.
- Other processes `Listen`, `Connect`, `Exit` and `Release` a killed listener's port.

### PortCommand (abstract)

This module states, from the script's header and usage text, what one CLI run promises: it ends once, and it writes `.env.local` at most once, with a port its command may choose (`Allowed`):
- `set`: its argument, unless it is 0 or `NaN`;
- `find`: its start port, one of the common ports it tries (`Tried`), or one of the `SeqSpan` ports from the start, if `listen()` accepts it;
- `auto`: its argument, or a port `find` would choose from argument + 1;
- `check`, `kill` and `help` never write.

`PortManager` implements it under this mapping:
- `cmd`, `arg` <- `cli.cmd`, `cli.arg`;
- `out <- written` (`Unwritten <- NoWrite`);
- `finished <- cli.pc = "done"`;
- `Tried(s)` <- the entries of `DEFAULT_PORTS` without `s`.

The CLI's last step maps to `Run` and every other step to a stutter. `PortRefinement` (`PC!Spec`) is checked by the `Ports` run and proved by `PortRefines`. A sequential loop that runs one port too far breaks it.

## Runs

Passing runs:

| Run | Checks | Bounds | What it shows |
|---|---|---|---|
| `Rename` | TypeOK, RenamePairing, ClassifierRefinement, DebounceRefinement | 2 files, 2 callback slots, 4 file events (`MaxSeq = 5`), no failures, Redis off; symmetry on files and slots | Renames pair an add only with the latest processed unlink and never reuse one, and the watcher implements the abstract rename classifier and the abstract debounce coalescer, over all overlaps of two callbacks (about 2.7M states) |
| `Settle` | EveryEventSettles | 2 files, 2 slots, 2 file events (`MaxSeq = 3`), every call may fail, Redis on | Every event is eventually handled and every callback ends |
| `Roles` | TypeOK | 2 loads, 2 callbacks, 3 roles events (`MaxSeq = 4`), deletes and broken files | `setLoadedRoles` only receives the export of a module that read an existing `roles.ts`, over every interleaving of imports, rejections and shared module records |
| `Ports` | TypeOK, CliTerminates, PortRefinement | ports {5173, 3000, 5174}, arguments {5173, 0, 70000, NaN}, two defaults, a fallback of 2, six `.env.local` shapes | Every command ends, `.env.local` stays well formed with numeric ports, and every run writes only a port its command allows |

Violation runs. Each checks one property, stated from the spec, a comment or a message of the code. In each, TLC finds a trace of the code's behaviour that breaks it.

| Run | Property | Trace |
|---|---|---|
| `Coalesce` | QuiescentCompiledCurrent | write f1, delete f2 within 50 ms: only the delete's callback runs, and f1 is never compiled |
| `StaleCache` | CacheCoherent | a request between `clearCache` and `updateCollections` caches the old registry |
| `ClearCacheFailure` | SyncBestEffort | a rejected `clearCache` skips `updateCollections` (spec 4.5 says it is still attempted) |
| `CompileFailure` | NotifyEveryOutcome | a rejected compile sends no `collections-updated` (spec 4.6 says it does) |
| `RolesSameMs` | RolesCurrent | two roles events in one millisecond share the first module, so the new roles are never loaded |
| `EnvOtherKeys` | EnvKeepsOtherKeys | `set 5173` rewrites `DB_PORT=27017` to 5173 |
| `KillClient` | KillStopsListener | with a client connected, `kill` kills the client and the listener stays |
| `LateRename` | RenameWithinWindow | delete, the unlink's timer runs 2 ticks late, add: the add is a rename although its event came 100 ms or more after the delete (spec 8 says within 100 ms). `lastUnlinkTime` is taken when the callback runs, not when the event happened |

Also observed while modelling, and not kept as runs:
- with two callback slots, overlapping compiles that finish out of order also leave stale artifacts (spec 9 leaves this open);
- with two module loads a millisecond apart, the older roles import settling last also breaks RolesCurrent;
- a newly created `.env.local` gets no `HOST_DEV` line, unlike an updated one;
- `set 70000` writes the port: `set` only rejects 0 and NaN. This is plain input validation that a unit test reaches, so it is not kept as a run.

Why the bounds are enough:
- **Rename.** Four file events allow unlink, unlink, add and unlink, add, add on two files, with two callbacks in flight. That covers every way two callbacks can share the rename candidate.
- **Settle.** Liveness runs without symmetry, so it uses two file events. Those already cover a callback overlapping a newer one, with every call able to fail.
- **LateRename.** One file and one slot suffice: the divergence is a single callback's timing.
- **Roles.** Two loads and two callbacks are the smallest bounds in which both races occur.
- **Ports.** The port set makes `find` reach the sequential fallback.

### Fairness

- **Collection watcher.** It has weak fairness on `Tick` (time passes), on `RunTimer` (a due timer runs once the event loop is free) and on each slot's `Step` (an awaited call settles). The code sets no timeout on these calls, so a call that never settles would hang its callback. The model assumes settlement, because the collaborators are promises that resolve or reject.
- **RolesReload.** No fairness: the run checks only a safety property.
- **PortManager.** The CLI's own steps are fair.
- File edits, API requests and other processes are never assumed to happen.

### Mutants

Every property of a passing run is broken by a plausible bug in the code it describes (`PROJECT.json`, "mutants"):
- a timer armed one tick late;
- a throttling timer;
- "first delete wins";
- a missing `roles.ts` loaded as an empty module;
- `set` writing its argument without the `!portArg || isNaN(portArg)` check, so `set abc` writes NaN, which breaks the port manager's TypeOK;
- a search that does not advance;
- "first delete wins", which also breaks the refinement, because the abstract classifier replaces the candidate;
- a throttling timer, which breaks DebounceRefinement;
- a sequential loop that runs one port too far (`<=` for `<`), which breaks PortRefinement.

One seeded bug was tried and dropped because no property catches it: not clearing `lastUnlinkFile` on a rename. With the code's constants (50 ms debounce, 100 ms window), a second add cannot fire within the window, so the reset is redundant.

## What is proved (TLAPS)

All proofs hold for every value of the constants that satisfies the module's named assumption (`ConstantsAssumption`, `RolesAssumption`, `PortAssumption`).

`CollectionWatcherProofs`, for every set of files and slots, every `MaxSeq` and every positive debounce and rename window:
- **`TypeCorrect`:** `Spec => []TypeOK`. It rests on the typing lemmas `StartedJobType`, `FreeJobType` and `MoveToType` and on one step lemma per action.
- **`RenamePairingHolds`:** `Spec => []RenamePairing`. RenamePairing is not inductive on its own, so the proof goes through `RenameInv`. It is an inductive invariant proved by TLAPS; no run lists it, so TLC checks it only through the properties it implies. It adds these facts:
  1. a pending timer is for the latest event, and that event is not yet handled: timers cancel each other, so callbacks start in event order;
  2. `unlinkSeq` is the latest unlink processed and is no later than `handled`;
  3. every rename ends at or before `handled`;
  4. a live candidate is a processed unlink that no rename has used.

  Facts 1 and 2 show that a new rename pairs with the latest unlink and that no unlink lies between. Fact 4 shows that it cannot reuse one. The proof has one case per action: `FireDelete`, and `FireWrite` split on `isRename`, do the work, and the other actions leave the history unchanged.
- **`ClassifierRefines`:** `Spec => ClassifierRefinement`. The initial state maps to the classifier's initial state. Under `RefineInv` (RenameInv plus "a set candidate names a real unlink"), every step maps to a step of the classifier or a stutter:
  - `FireDelete` maps to `Deleted`;
  - `FireWrite` maps to `Renamed` or `Written`, according to `isRename`;
  - a `Tick` that ages the candidate past the window maps to `Expire`;
  - every other action is a stutter.

`RolesReloadProofs`, for every number of module records, callbacks and events:
- **`RolesTypeCorrect`**, through `RolesInv`. This is TypeOK, `NoLostResume` (a callback suspended in the import awaits a module that has not settled) and `LoadsRead` (a module that has read `roles.ts` read an existing file). `LoadsRead` is what makes `setLoadedRoles` receive a real export. The `LoadDone` case rests on the lemma `ResumeAllEffect`: settling a module frees exactly its waiters.

`PortManagerProofs`, for every set of ports, arguments and initial `.env.local`:
- **`PortTypeCorrect`:** `Spec => []TypeOK`. TypeOK is inductive. The lemmas show:
  - `updateEnvPort` keeps `.env.local` a list of lines, both the created file and the rewritten one (`SetPortLines`, `UpdateEnvPortType`);
  - `killPort` and the other processes keep the process table in range (`ProcExitType`, `KillPortType`).
- **`PortRefines`:** `Spec => PortRefinement`. It goes through `CliInv`, an inductive invariant proved by TLAPS (no run lists it). CliInv says:
  1. before the search, the start port is the argument;
  2. `auto` waits and searches only after its argument failed `listen()`, and then searches from argument + 1;
  3. a search past its first candidate started from a listenable port;
  4. the candidate index never passes the end of the list by more than one.

  With CliInv, `CandidateInSearch` shows that every candidate the search can write lies in `PC!Search(start)` and is listenable. The CLI's final step is then `Run`, and every other step leaves the command, argument, write and `done` unchanged. The proof assumes `NaN \notin Int` (in `PortAssumption`): parseInt's NaN is not a number.

`CollectionWatcherProofs` also proves:
- **`DebounceRefines`:** `Spec => DebounceRefinement`. It goes through `DebounceInv`: TypeOK, and while a timer is armed, the ticks since the last event plus the ticks it has left are at least the debounce. This is why a `RunTimer` step, which needs the timer at 0, maps to `Emit`, which needs `Debounce` units of quiet.

Model-checked only:
- liveness (`EveryEventSettles`, `CliTerminates`), since TLAPS does not handle `ENABLED` and fairness here.

Every safety invariant and refinement that a passing run checks has a theorem.

## Not modelled

- **Config bootstrap** (`vite.config.ts` 33-60). It runs once, synchronously, before the server or any watcher exists: it checks two files and, if one is missing, runs the installer with `execSync` and exits. Nothing runs concurrently with it, and the installer is not in `src/`. Its only property would restate its own `if`.
- **Windows branch of `killPort`** (`netstat`/`taskkill`). It parses a different command's output but has the same shape as the Unix branch. The Unix branch is the one whose first-PID behaviour matters.
- **Release of a port between `find` and the dev server's start** (`dev-port.js` 43): the probe closes its server before the port is written. Another process can then take the port before `npm run dev` binds it. The dev server is outside the script, so the model ends when the CLI does.
- `src/config/*.ts` are constant data, and the Playwright tests exercise UI code that is not in this repository.

## Plan for later work

1. Two CLI runs writing `.env.local` at once (two `CliAt` records sharing the file).
2. Model the dev server binding the written port, so that a property can cover the release race at `dev-port.js` 43.
