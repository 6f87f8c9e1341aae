------------------------- MODULE RolesReloadProofs -------------------------
(***************************************************************************)
(* Proofs about RolesReload for every number of module records, callbacks *)
(* and events: the type invariant, whose last conjunct (setLoadedRoles    *)
(* only receives a loaded export) needs the fact that a read or evaluated *)
(* module holds an existing file, and that a suspended callback awaits a  *)
(* module that has not settled, which needs the typing of its module id. *)
(***************************************************************************)
EXTENDS RolesReload, FiniteSetTheorems, TLAPS

USE RolesAssumption

\* A module that has read roles.ts read an existing file.
LoadsRead ==
    \A l \in LoadIds : loads[l].st \in {"read", "done"} => loads[l].val # Absent

\* A callback suspended in the import awaits a module that has not settled.
NoLostResume ==
    \A r \in ReloadSlots :
       reloads[r].pc = "import" =>
          /\ reloads[r].load \in LoadIds
          /\ loads[reloads[r].load].st \in {"loading", "read"}

RolesInv == TypeOK /\ LoadsRead /\ NoLostResume

\* The number of callbacks a settling module resumes is a number.
LEMMA WaitingCard ==
    ASSUME NEW l
    PROVE  Cardinality(Waiting(l)) \in Nat
<1>1. IsFiniteSet(Waiting(l))
  BY FS_Subset DEF Waiting
<1>2. QED
  BY <1>1, FS_CardinalityType

\* Settling module l frees exactly the callbacks awaiting it: a callback
\* still suspended afterwards was suspended before, on another module.
LEMMA ResumeAllEffect ==
    ASSUME TypeOK, NEW l, NEW val \in Seqs \ {Absent}, ResumeAll(l, val)
    PROVE  /\ reloads' \in [ReloadSlots -> Reload]
           /\ loadedRoles' \in Seqs \ {Absent}
           /\ fullReloads' \in Nat
           /\ \A r \in ReloadSlots :
                 reloads'[r].pc = "import" =>
                    reloads'[r] = reloads[r] /\ reloads[r].load # l
<1>1. FreeReload \in Reload
  BY DEF FreeReload, Reload, Seqs
<1>2. Cardinality(Waiting(l)) \in Nat
  BY WaitingCard
<1>3. QED
  BY <1>1, <1>2 DEF ResumeAll, Waiting, FreeReload, TypeOK

LEMMA RolesInitial == Init => RolesInv
BY DEF Init, RolesInv, TypeOK, LoadsRead, NoLostResume, Load, Reload,
       FreeReload, Seqs, Absent

\* The callback for a roles event, up to its await, keeps the invariant.
LEMMA WatchRolesStep ==
    ASSUME RolesInv, NEW seq \in Seqs, WatchRoles(seq)
    PROVE  /\ loads' \in [LoadIds -> Load]
           /\ curLoad' \in LoadIds \cup {NoLoad}
           /\ reloads' \in [ReloadSlots -> Reload]
           /\ loadedRoles' \in Seqs \ {Absent}
           /\ fullReloads' \in Nat
           /\ LoadsRead'
           /\ NoLostResume'
<1>1. CASE /\ curLoad = NoLoad
           /\ \E r \in ReloadSlots, l \in LoadIds :
                 /\ reloads[r].pc = "free"
                 /\ Unused(l)
                 /\ loads' = [loads EXCEPT ![l] = [st |-> "loading", val |-> 0]]
                 /\ curLoad' = l
                 /\ reloads' = [reloads EXCEPT ![r] =
                                  [pc |-> "import", load |-> l, seq |-> seq]]
           /\ UNCHANGED <<loadedRoles, fullReloads>>
  <2>1. PICK r \in ReloadSlots, l \in LoadIds :
              /\ reloads[r].pc = "free"
              /\ Unused(l)
              /\ loads' = [loads EXCEPT ![l] = [st |-> "loading", val |-> 0]]
              /\ curLoad' = l
              /\ reloads' = [reloads EXCEPT ![r] =
                               [pc |-> "import", load |-> l, seq |-> seq]]
    BY <1>1
  <2>2. \A r2 \in ReloadSlots : reloads[r2].pc = "import" => reloads[r2].load # l
    BY <2>1 DEF Unused
  <2>3. NoLostResume'
    BY <2>1, <2>2 DEF RolesInv, TypeOK, NoLostResume
  <2>4. QED
    BY <1>1, <2>1, <2>3 DEF RolesInv, TypeOK, LoadsRead, Load, Reload, Seqs
<1>2. CASE /\ curLoad # NoLoad
           /\ loads[curLoad].st \in {"loading", "read"}
           /\ \E r \in ReloadSlots :
                 /\ reloads[r].pc = "free"
                 /\ reloads' = [reloads EXCEPT ![r] =
                                  [pc |-> "import", load |-> curLoad, seq |-> seq]]
           /\ UNCHANGED <<loadedRoles, fullReloads, loads, curLoad>>
  BY <1>2 DEF RolesInv, TypeOK, LoadsRead, NoLostResume, Reload
<1>3. CASE /\ curLoad # NoLoad
           /\ loads[curLoad].st = "done"
           /\ loadedRoles' = loads[curLoad].val
           /\ fullReloads' = fullReloads + 1
           /\ UNCHANGED <<reloads, loads, curLoad>>
  BY <1>3 DEF RolesInv, TypeOK, LoadsRead, NoLostResume, Load
<1>4. CASE /\ curLoad # NoLoad
           /\ loads[curLoad].st = "failed"
           /\ UNCHANGED <<reloads, loadedRoles, fullReloads, loads, curLoad>>
  BY <1>4 DEF RolesInv, TypeOK, LoadsRead, NoLostResume
<1>5. QED
  BY <1>1, <1>2, <1>3, <1>4 DEF WatchRoles

\* Every step keeps the invariant.
LEMMA RolesStep == RolesInv /\ [Next]_vars => RolesInv'
<1> SUFFICES ASSUME RolesInv, [Next]_vars PROVE RolesInv'
  OBVIOUS
<1>1. CASE WriteRoles
  <2>1. evSeq' \in Seqs /\ rolesFile' \in Seqs
    BY <1>1 DEF WriteRoles, RolesInv, TypeOK, Seqs
  <2>2. QED
    BY <1>1, <2>1, WatchRolesStep DEF WriteRoles, RolesInv, TypeOK
<1>2. CASE DeleteRoles
  <2>1. evSeq' \in Seqs /\ rolesFile' \in Seqs
    BY <1>2 DEF DeleteRoles, RolesInv, TypeOK, Seqs, Absent
  <2>2. QED
    BY <1>2, <2>1, WatchRolesStep DEF DeleteRoles, RolesInv, TypeOK
<1>3. CASE Tick
  BY <1>3 DEF Tick, RolesInv, TypeOK, LoadsRead, NoLostResume
<1>4. ASSUME NEW l \in LoadIds, LoadRead(l) PROVE RolesInv'
  <2>1. CASE /\ rolesFile # Absent
             /\ loads' = [loads EXCEPT ![l] = [st |-> "read", val |-> rolesFile]]
             /\ UNCHANGED <<reloads, loadedRoles, fullReloads>>
    BY <1>4, <2>1 DEF LoadRead, RolesInv, TypeOK, LoadsRead, NoLostResume, Load
  <2>2. CASE /\ rolesFile = Absent \/ ImportMayFail
             /\ loads' = [loads EXCEPT ![l] = [st |-> "failed", val |-> 0]]
             /\ reloads' = [r \in ReloadSlots |-> IF r \in Waiting(l) THEN FreeReload
                                                                      ELSE reloads[r]]
             /\ UNCHANGED <<loadedRoles, fullReloads>>
    <3>1. FreeReload \in Reload
      BY DEF FreeReload, Reload, Seqs
    <3>2. \A r \in ReloadSlots :
             reloads'[r].pc = "import" => reloads'[r] = reloads[r] /\ reloads[r].load # l
      BY <2>2 DEF Waiting, FreeReload
    <3>3. QED
      BY <1>4, <2>2, <3>1, <3>2
         DEF LoadRead, RolesInv, TypeOK, LoadsRead, NoLostResume, Load, Seqs
  <2>3. QED
    BY <1>4, <2>1, <2>2 DEF LoadRead
<1>5. ASSUME NEW l \in LoadIds, LoadDone(l) PROVE RolesInv'
  <2>1. loads[l].st = "read" /\ loads[l].val \in Seqs \ {Absent}
    BY <1>5 DEF LoadDone, RolesInv, TypeOK, LoadsRead, Load
  <2>2. /\ reloads' \in [ReloadSlots -> Reload]
        /\ loadedRoles' \in Seqs \ {Absent}
        /\ fullReloads' \in Nat
        /\ \A r \in ReloadSlots :
              reloads'[r].pc = "import" =>
                 reloads'[r] = reloads[r] /\ reloads[r].load # l
    BY <1>5, <2>1, ResumeAllEffect DEF LoadDone, RolesInv
  <2>3. QED
    BY <1>5, <2>1, <2>2 DEF LoadDone, RolesInv, TypeOK, LoadsRead, NoLostResume, Load
<1>6. CASE UNCHANGED vars
  BY <1>6 DEF vars, RolesInv, TypeOK, LoadsRead, NoLostResume
<1>7. QED
  BY <1>1, <1>2, <1>3, <1>4, <1>5, <1>6 DEF Next

(* The type invariant of the roles reload: in particular setLoadedRoles   *)
(* is only ever called with the roles of a module that read an existing   *)
(* roles.ts, never with the export of a missing file.                    *)
THEOREM RolesTypeCorrect == Spec => []TypeOK
<1>1. RolesInv => TypeOK
  BY DEF RolesInv
<1>2. QED
  BY RolesInitial, RolesStep, <1>1, PTL DEF Spec

=============================================================================
