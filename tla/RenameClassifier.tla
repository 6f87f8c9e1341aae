-------------------------- MODULE RenameClassifier --------------------------
(***************************************************************************)
(* What the rename classifier of the collection watcher promises (spec     *)
(* 4.3), stated over settled events rather than over the code's timer and  *)
(* callbacks.  Settled events are classified one at a time in the order    *)
(* they happened.  A delete becomes the sole rename candidate, replacing   *)
(* any older one ("last delete wins").  An add or change that finds a live *)
(* candidate is classified Renamed(candidate, event) and consumes it;      *)
(* otherwise it is a plain Added/Changed.  A candidate may expire at any   *)
(* time (the threshold is measured by the implementation).  Events are     *)
(* named by their sequence numbers.                                       *)
(***************************************************************************)
EXTENDS Naturals

CONSTANT MaxSeq     \* bound on events (the last sequence number)

VARIABLES
    candidate,      \* the live rename candidate's event, or None
    last,           \* the last event classified
    renames         \* the Renamed(from, to) classifications made

None == 0
Seqs == 0..MaxSeq

TypeOK ==
    /\ candidate \in Seqs
    /\ last \in Seqs
    /\ renames \subseteq [from : Seqs, to : Seqs]

(* Event 1 is the initial tree, compiled before watching starts.          *)
Init ==
    /\ candidate = None
    /\ last = 1
    /\ renames = {}

(* Event s settles after the last one classified.                        *)
Settle(s) == last < s /\ last' = s

Deleted(s) ==
    /\ Settle(s)
    /\ candidate' = s
    /\ UNCHANGED renames

Renamed(s) ==
    /\ Settle(s)
    /\ candidate # None
    /\ renames' = renames \cup {[from |-> candidate, to |-> s]}
    /\ candidate' = None

Written(s) ==
    /\ Settle(s)
    /\ candidate = None
    /\ UNCHANGED <<candidate, renames>>

Expire ==
    /\ candidate # None
    /\ candidate' = None
    /\ UNCHANGED <<last, renames>>

Next == Expire \/ \E s \in 1..MaxSeq : Deleted(s) \/ Renamed(s) \/ Written(s)

Spec == Init /\ [][Next]_<<candidate, last, renames>>
=============================================================================
