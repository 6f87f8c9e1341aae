---------------------------- MODULE PortCommand -----------------------------
(***************************************************************************)
(* What one run of the port manager CLI promises, as its header and usage *)
(* text state it ("find [port] - Find next available port and update      *)
(* .env.local", "set [port] - Set specific port in .env.local", "auto     *)
(* [port] - Kill process on port and set it"), without ports, processes  *)
(* or probes: a run of command cmd with argument arg ends once, and as it *)
(* ends it writes .env.local at most once, with a port the command may   *)
(* choose:                                                                 *)
(*   set   its argument, unless it is 0 or not a number;                   *)
(*   find  its start port, one of the common development ports, or one of  *)
(*         the SeqSpan ports from the start port on, if listen() takes it; *)
(*   auto  its argument, or a port find would choose from argument + 1;    *)
(*   check, kill and help never write.                                     *)
(***************************************************************************)
EXTENDS Integers

CONSTANTS
    Commands,       \* the commands of the CLI
    Args,           \* port arguments it may be run with
    NaN,            \* parseInt of a non-numeric argument
    MaxPort,        \* the largest port listen() accepts
    SeqSpan,        \* ports the sequential fallback tries
    Unwritten,      \* the record of .env.local's writes before any
    Tried(_)        \* the common ports a search from s tries after s

VARIABLES
    cmd,            \* the command
    arg,            \* its port argument
    out,            \* the last write of .env.local: file before it and port
    finished        \* the run has ended

absVars == <<cmd, arg, out, finished>>

\* Ports listen() accepts.
Listenable == 0..MaxPort

\* The ports a search from s may settle on.
Search(s) == IF s \in Int THEN {s} \cup Tried(s) \cup s..(s + SeqSpan - 1) ELSE {}

\* The ports command c run with argument a may write to .env.local.
Allowed(c, a) ==
    (IF c = "set" /\ a \notin {0, NaN} THEN {a} ELSE {})
    \cup (IF c = "find" THEN Search(a) \cap Listenable ELSE {})
    \cup (IF c = "auto" /\ a \in Listenable
             THEN ({a} \cup Search(a + 1)) \cap Listenable ELSE {})

Init ==
    /\ cmd \in Commands
    /\ arg \in Args
    /\ out = Unwritten
    /\ finished = FALSE

(* The run ends, writing .env.local with an allowed port or not at all.   *)
Run ==
    /\ ~finished
    /\ finished' = TRUE
    /\ \/ UNCHANGED out
       \/ out'.port \in Allowed(cmd, arg)
    /\ UNCHANGED <<cmd, arg>>

Spec == Init /\ [][Run]_absVars
=============================================================================
