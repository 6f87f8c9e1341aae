----------------------- MODULE MC_CollectionWatcher -----------------------
(* Model-checking instance of CollectionWatcher: the debounce delay is    *)
(* one tick of 50 ms, so the rename threshold of 100 ms is two ticks.     *)
EXTENDS CollectionWatcher, TLC

MC_Debounce == 1
MC_RenameWindow == 2
AllOps == Ops
NoOps == {}
ClearCacheFails == {"clearCache"}
CompileFails == {"compile"}

\* Files and callback slots are only compared for equality.
Symmetry == Permutations(Files) \cup Permutations(JobSlots)
=============================================================================
