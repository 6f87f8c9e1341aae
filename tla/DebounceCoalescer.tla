------------------------- MODULE DebounceCoalescer -------------------------
(***************************************************************************)
(* The Debounce Coalescer of spec 4.2: register(event) resets a single    *)
(* shared timer and stores the event as the window's pending change; the  *)
(* window settles only after Window time units with no registration, and  *)
(* then emits exactly one batch, the final event of the window.  Events   *)
(* are numbered in the order they are registered, up to MaxSeq; time     *)
(* since the last registration is counted up to Cap.                       *)
(***************************************************************************)
EXTENDS Naturals

CONSTANTS
    MaxSeq,         \* bound on events
    Window,         \* the settle window (50 ms)
    Cap             \* quiet time is told apart up to Cap (at least Window)

VARIABLES
    latest,         \* the number of the last event registered
    pending,        \* the final event of the open window, or None
    quiet,          \* time since the last registration, capped at Cap
    emitted         \* the last batch emitted

None == 0

Init ==
    /\ latest = 1       \* the initial tree is event 1
    /\ pending = None
    /\ quiet = Cap
    /\ emitted = 1      \* the initial tree, settled before watching starts

(* register(event): the next event opens or extends the window and      *)
(* becomes its pending change.                                             *)
Register ==
    /\ latest < MaxSeq
    /\ latest' = latest + 1
    /\ pending' = latest'
    /\ quiet' = 0
    /\ UNCHANGED emitted

Elapse ==
    /\ quiet' = IF quiet < Cap THEN quiet + 1 ELSE Cap
    /\ UNCHANGED <<latest, pending, emitted>>

(* The window settles after Window units of quiet: one batch, the final  *)
(* event, and the window closes.                                          *)
Emit ==
    /\ pending # None
    /\ quiet >= Window
    /\ emitted' = pending
    /\ pending' = None
    /\ UNCHANGED <<latest, quiet>>

Next == Register \/ Elapse \/ Emit

Spec == Init /\ [][Next]_<<latest, pending, quiet, emitted>>
=============================================================================
