---------------------------- MODULE RolesReload ----------------------------
(***************************************************************************)
(* The roles branch of the watcher callback in src/vite.config.ts: on any *)
(* event for config/roles.ts the callback imports                          *)
(*    file://.../config/roles.ts?update=<Date.now()>                       *)
(* awaits it, then calls setLoadedRoles(roles) and sends 'full-reload'.    *)
(* There is no debounce and no ordering between callbacks.                 *)
(*                                                                         *)
(* The ES module loader keeps one module per URL: a second import of the   *)
(* same URL (two events in the same millisecond) joins the first load and  *)
(* gets the roles that load read.  A load reads the file at some point     *)
(* after it starts and settles later; `loads` are those module records,    *)
(* `curLoad` the one whose URL carries the current millisecond, and        *)
(* `reloads` the callbacks suspended in `await import(...)`.  The second   *)
(* await, of the already loaded './src/auth/types', reads no state and is  *)
(* folded into the resumption.                                             *)
(***************************************************************************)
EXTENDS Naturals, FiniteSets

CONSTANTS
    LoadIds,        \* module records the model can hold at once
    NoLoad,         \* no module for the current millisecond yet
    ReloadSlots,    \* bound on roles callbacks in flight at once
    MaxSeq,         \* bound on file-system events on roles.ts
    CanDelete,      \* whether the environment deletes roles.ts
    ImportMayFail   \* whether roles.ts may fail to evaluate (syntax error)

ASSUME RolesAssumption ==
    /\ NoLoad \notin LoadIds
    /\ IsFiniteSet(ReloadSlots)
    /\ MaxSeq \in Nat \ {0}
    /\ CanDelete \in BOOLEAN /\ ImportMayFail \in BOOLEAN

VARIABLES
    rolesFile,      \* config/roles.ts: version of its contents, Absent if deleted
    evSeq,          \* number of the last event on roles.ts
    loads,          \* module records by id
    curLoad,        \* the record for this millisecond's URL, or NoLoad
    reloads,        \* the callbacks awaiting import(), one per slot
    loadedRoles,    \* what setLoadedRoles last received
    fullReloads     \* number of 'full-reload' messages sent

vars == <<rolesFile, evSeq, loads, curLoad, reloads, loadedRoles, fullReloads>>

Absent == 0
Seqs == 0..MaxSeq
Load == [st : {"loading", "read", "done", "failed"}, val : Seqs]
Reload == [pc : {"free", "import"}, load : LoadIds \cup {NoLoad}, seq : Seqs]
FreeReload == [pc |-> "free", load |-> NoLoad, seq |-> 0]

TypeOK ==
    /\ rolesFile \in Seqs
    /\ evSeq \in Seqs
    /\ loads \in [LoadIds -> Load]
    /\ curLoad \in LoadIds \cup {NoLoad}
    /\ reloads \in [ReloadSlots -> Reload]
    /\ loadedRoles \in Seqs \ {Absent}
    /\ fullReloads \in Nat

\* A module record no callback waits on and no URL of this millisecond names.
Unused(l) == l # curLoad /\ \A r \in ReloadSlots : reloads[r].load # l

-----------------------------------------------------------------------------
(* The server starts with the roles of the initial roles.ts loaded.      *)
Init ==
    /\ rolesFile = 1
    /\ evSeq = 1
    /\ loads = [l \in LoadIds |-> [st |-> "done", val |-> 1]]
    /\ curLoad = NoLoad
    /\ reloads = [r \in ReloadSlots |-> FreeReload]
    /\ loadedRoles = 1
    /\ fullReloads = 0

(* The callbacks awaiting module l.                                       *)
Waiting(l) == {r \in ReloadSlots : reloads[r].pc = "import" /\ reloads[r].load = l}

(* Module l settles: the callbacks awaiting it resume, in the same run of *)
(* microtasks, with the roles it read: each calls setLoadedRoles(roles)   *)
(* and sends 'full-reload'.                                                *)
ResumeAll(l, val) ==
    /\ reloads' = [r \in ReloadSlots |-> IF r \in Waiting(l) THEN FreeReload
                                                             ELSE reloads[r]]
    /\ loadedRoles' = IF Waiting(l) = {} THEN loadedRoles ELSE val
    /\ fullReloads' = fullReloads + Cardinality(Waiting(l))

(* The callback for a roles.ts event, up to `await import(url)`: a URL of *)
(* a new millisecond starts a new module load; one of the current         *)
(* millisecond gets the module already loading, or already settled, in   *)
(* which case the callback runs to its end at once.                       *)
WatchRoles(seq) ==
    \/ /\ curLoad = NoLoad
       /\ \E r \in ReloadSlots, l \in LoadIds :
             /\ reloads[r].pc = "free"
             /\ Unused(l)
             /\ loads' = [loads EXCEPT ![l] = [st |-> "loading", val |-> 0]]
             /\ curLoad' = l
             /\ reloads' = [reloads EXCEPT ![r] =
                              [pc |-> "import", load |-> l, seq |-> seq]]
       /\ UNCHANGED <<loadedRoles, fullReloads>>
    \/ /\ curLoad # NoLoad
       /\ \/ /\ loads[curLoad].st \in {"loading", "read"}
             /\ \E r \in ReloadSlots :
                   /\ reloads[r].pc = "free"
                   /\ reloads' = [reloads EXCEPT ![r] =
                                    [pc |-> "import", load |-> curLoad, seq |-> seq]]
             /\ UNCHANGED <<loadedRoles, fullReloads>>
          \/ /\ loads[curLoad].st = "done"
             /\ loadedRoles' = loads[curLoad].val
             /\ fullReloads' = fullReloads + 1
             /\ UNCHANGED reloads
          \/ /\ loads[curLoad].st = "failed"
             /\ UNCHANGED <<reloads, loadedRoles, fullReloads>>
       /\ UNCHANGED <<loads, curLoad>>

(* The environment writes or deletes roles.ts; chokidar reports it.      *)
WriteRoles ==
    /\ evSeq < MaxSeq
    /\ evSeq' = evSeq + 1
    /\ rolesFile' = evSeq'
    /\ WatchRoles(evSeq')

DeleteRoles ==
    /\ CanDelete
    /\ rolesFile # Absent
    /\ evSeq < MaxSeq
    /\ evSeq' = evSeq + 1
    /\ rolesFile' = Absent
    /\ WatchRoles(evSeq')

(* A millisecond passes: Date.now() gives a new URL from now on.         *)
Tick ==
    /\ curLoad' = NoLoad
    /\ UNCHANGED <<rolesFile, evSeq, loads, reloads, loadedRoles, fullReloads>>

\* Seeded bug: a missing roles.ts is loaded as an empty module.
LoadReadMissingEmpty(l) ==
    /\ loads[l].st = "loading"
    /\ \/ /\ loads' = [loads EXCEPT ![l] = [st |-> "read", val |-> rolesFile]]
          /\ UNCHANGED <<reloads, loadedRoles, fullReloads>>
       \/ /\ ImportMayFail
          /\ loads' = [loads EXCEPT ![l] = [st |-> "failed", val |-> 0]]
          /\ reloads' = [r \in ReloadSlots |-> IF r \in Waiting(l) THEN FreeReload
                                                                   ELSE reloads[r]]
          /\ UNCHANGED <<loadedRoles, fullReloads>>
    /\ UNCHANGED <<rolesFile, evSeq, curLoad>>

(* The loader reads roles.ts for module l.  A missing file, or one that   *)
(* does not evaluate, rejects the import: the awaiting callbacks resume   *)
(* in their catch, which only logs.                                       *)
LoadRead(l) ==
    /\ loads[l].st = "loading"
    /\ \/ /\ rolesFile # Absent
          /\ loads' = [loads EXCEPT ![l] = [st |-> "read", val |-> rolesFile]]
          /\ UNCHANGED <<reloads, loadedRoles, fullReloads>>
       \/ /\ rolesFile = Absent \/ ImportMayFail
          /\ loads' = [loads EXCEPT ![l] = [st |-> "failed", val |-> 0]]
          /\ reloads' = [r \in ReloadSlots |-> IF r \in Waiting(l) THEN FreeReload
                                                                   ELSE reloads[r]]
          /\ UNCHANGED <<loadedRoles, fullReloads>>
    /\ UNCHANGED <<rolesFile, evSeq, curLoad>>

(* Module l finishes evaluating and its callbacks resume.                 *)
LoadDone(l) ==
    /\ loads[l].st = "read"
    /\ loads' = [loads EXCEPT ![l] = [st |-> "done", val |-> loads[l].val]]
    /\ ResumeAll(l, loads[l].val)
    /\ UNCHANGED <<rolesFile, evSeq, curLoad>>

-----------------------------------------------------------------------------
Next ==
    \/ WriteRoles \/ DeleteRoles \/ Tick
    \/ \E l \in LoadIds : LoadRead(l) \/ LoadDone(l)

Spec == Init /\ [][Next]_vars

-----------------------------------------------------------------------------
(* No roles callback is awaiting its import.                              *)
Quiescent == \A r \in ReloadSlots : reloads[r].pc = "free"

(* Roles hot reload (the ?update=Date.now() cache-busting import): once   *)
(* every callback has resumed, the loaded roles are those of the roles.ts *)
(* on disk, whenever it exists and evaluates.                             *)
RolesCurrent == Quiescent /\ rolesFile # Absent => loadedRoles = rolesFile
=============================================================================
