---------------------------- MODULE PortManager ----------------------------
(***************************************************************************)
(* src/scripts/dev-port.js: one run of the port manager CLI               *)
(* (check | find | kill | set | auto [port]) against the other processes *)
(* of the machine, which listen on ports, connect to them and exit.       *)
(*                                                                         *)
(* A port is a number; other processes use the ports in EnvPorts.  For    *)
(* each of them `listening` says whether some process accepts on it,      *)
(* `procs` how many processes `lsof -ti:<port>` lists for it (the         *)
(* listener and the clients connected to it) and `dying` whether a killed *)
(* listener still holds it.  .env.local is a sequence of lines            *)
(* KEY=value; a line's text is abstracted to its key, and to a host and a *)
(* port for its value.  isPortAvailable (listen, then close) is one step: *)
(* the other processes' steps interleave between two probes.              *)
(***************************************************************************)
EXTENDS Integers, Sequences

CONSTANTS
    EnvPorts,       \* ports other processes listen on or connect to
    DefaultPorts,   \* DEFAULT_PORTS
    SeqSpan,        \* ports the sequential fallback tries (100)
    MaxPort,        \* the largest port listen() accepts (65535)
    NaN,            \* parseInt of a non-numeric argument
    Args,           \* port arguments the CLI is run with
    InitEnvFiles,   \* contents .env.local may have when the CLI starts
    NoEnvFile,      \* .env.local does not exist
    MaxProcs,       \* bound on processes using one port
    KillMayFail     \* kill -9 may be refused (process of another user)

Commands == {"check", "find", "kill", "set", "auto", "help"}
Keys == {"PORT", "DB_PORT", "HOST", "HOST_DEV", "OTHER"}
Hosts == {"localhost", "other"}
\* The contents of an existing .env.local.
EnvContents == Seq([key : Keys, host : Hosts, port : Int])

ASSUME PortAssumption ==
    /\ EnvPorts \subseteq 1..MaxPort
    /\ DefaultPorts \in Seq(1..MaxPort)
    /\ SeqSpan \in Nat \ {0} /\ MaxPort \in Nat \ {0}
    /\ MaxProcs \in Nat \ {0}
    /\ KillMayFail \in BOOLEAN
    /\ NaN \notin Int /\ Args \subseteq Int \cup {NaN}
    /\ InitEnvFiles \subseteq EnvContents \cup {NoEnvFile}

Line(k, h, p) == [key |-> k, host |-> h, port |-> p]
\* Keys whose line contains the text "PORT=".
PortKeys == {"PORT", "DB_PORT"}

VARIABLES
    listening,      \* port -> some process accepts connections on it
    procs,          \* port -> processes lsof lists for it
    dying,          \* port -> a killed listener has not released it yet
    envFile,        \* contents of .env.local, or NoEnvFile
    cli,            \* the CLI: its pc, command, argument and loop state
    written         \* the last updateEnvPort: file before it and port

vars == <<listening, procs, dying, envFile, cli, written>>

NoWrite == [before |-> NoEnvFile, port |-> 0]
Pcs == {"start", "wait", "find", "done"}

TypeOK ==
    /\ listening \in [EnvPorts -> BOOLEAN]
    /\ procs \in [EnvPorts -> 0..MaxProcs]
    /\ dying \in [EnvPorts -> BOOLEAN]
    /\ envFile \in EnvContents \cup {NoEnvFile}
    /\ cli \in [pc : Pcs, cmd : Commands, arg : Args, start : Int \cup {NaN},
               idx : Nat \ {0}]
    /\ written \in [before : EnvContents \cup {NoEnvFile}, port : Int]

-----------------------------------------------------------------------------
(* Operations on data.                                                     *)

\* A port some process listens on, or a killed listener still holds.
InUse(p) == p \in EnvPorts /\ (listening[p] \/ dying[p])

\* server.listen(p) throws (ERR_SOCKET_BAD_PORT) outside 0..65535.
ListenOk(p) == p \in 0..MaxPort

\* isPortAvailable(p): listen(0) binds some free port and always succeeds.
IsPortAvailable(p) == p = 0 \/ ~InUse(p)

\* The start port, then DEFAULT_PORTS without it, then start .. start+99.
Defaults(start) == SelectSeq(DefaultPorts, LAMBDA q : q # start)
\* Seeded bug: the sequential loop runs one port too far (<= for <).
NumCandidatesPastEnd(start) == 2 + Len(Defaults(start)) + SeqSpan
NumCandidates(start) == 1 + Len(Defaults(start)) + SeqSpan
Candidate(start, i) ==
    IF i = 1 THEN start
    ELSE IF i <= 1 + Len(Defaults(start)) THEN Defaults(start)[i - 1]
    ELSE start + (i - 2 - Len(Defaults(start)))

\* The text of a line matches /PORT=\d+/ or /HOST_DEV=http:\/\/localhost:\d+/.
PortRe(l) == l.key \in PortKeys /\ l.port >= 0
HostDevRe(l) == l.key = "HOST_DEV" /\ l.host = "localhost" /\ l.port >= 0
HasKey(c, ks) == \E i \in DOMAIN c : c[i].key \in ks
SetPort(l, p) == [key |-> l.key, host |-> l.host, port |-> p]

\* updateEnvPort(port): the new contents of .env.local.
UpdateEnvPort(c, p) ==
    IF c = NoEnvFile
    THEN <<Line("PORT", "localhost", p), Line("HOST", "localhost", 0)>>
    ELSE LET c1 == IF HasKey(c, PortKeys)
                   THEN [i \in DOMAIN c |-> IF PortRe(c[i]) THEN SetPort(c[i], p) ELSE c[i]]
                   ELSE <<Line("PORT", "localhost", p)>> \o c
         IN  IF HasKey(c1, {"HOST_DEV"})
             THEN [i \in DOMAIN c1 |-> IF HostDevRe(c1[i]) THEN SetPort(c1[i], p) ELSE c1[i]]
             ELSE Append(c1, Line("HOST_DEV", "localhost", p))

WriteEnv(p) ==
    /\ envFile' = UpdateEnvPort(envFile, p)
    /\ written' = [before |-> envFile, port |-> p]

(* killPort(p) on Unix: `kill -9 $(lsof -ti:p)` as one shell string: the  *)
(* PIDs come one per line, so the shell kills the first and runs the next *)
(* ones as commands, which fail; every error is swallowed.  lsof lists    *)
(* the listener and its clients alike, so the first may be a client.      *)
KillPort(p) ==
    \/ /\ p \notin EnvPorts
       /\ UNCHANGED <<listening, procs, dying>>
    \/ /\ p \in EnvPorts
       /\ procs[p] = 0 \/ KillMayFail
       /\ UNCHANGED <<listening, procs, dying>>
    \/ /\ p \in EnvPorts
       /\ procs[p] > 0
       /\ \/ /\ listening[p]
             /\ listening' = [listening EXCEPT ![p] = FALSE]
             /\ dying' = [dying EXCEPT ![p] = TRUE]
          \/ /\ procs[p] > IF listening[p] THEN 1 ELSE 0
             /\ UNCHANGED <<listening, dying>>
       /\ procs' = [procs EXCEPT ![p] = @ - 1]

\* The CLI moves to pc with its search at candidate idx from port start.
CliAt(pc, start, idx) ==
    [pc |-> pc, cmd |-> cli.cmd, arg |-> cli.arg, start |-> start, idx |-> idx]

-----------------------------------------------------------------------------
(* The CLI, started with a command and a port argument.                    *)
Init ==
    /\ listening \in [EnvPorts -> BOOLEAN]
    /\ procs = [p \in EnvPorts |-> IF listening[p] THEN 1 ELSE 0]
    /\ dying = [p \in EnvPorts |-> FALSE]
    /\ envFile \in InitEnvFiles
    /\ \E c \in Commands, a \in Args :
          cli = [pc |-> "start", cmd |-> c, arg |-> a, start |-> a, idx |-> 1]
    /\ written = NoWrite

\* Seeded bug: set writes its argument without checking it.
SetCmdUnchecked ==
    /\ cli.cmd = "set"
    /\ WriteEnv(cli.arg)
    /\ cli' = CliAt("done", cli.start, cli.idx)
    /\ UNCHANGED <<listening, procs, dying>>

(* set: `!portArg || isNaN(portArg)` (0 or not a number) exits with an    *)
(* error; any other argument is written to .env.local.                    *)
SetCmd ==
    \/ /\ cli.cmd = "set"
       /\ cli.arg \in {0, NaN}
       /\ cli' = CliAt("done", cli.start, cli.idx)
       /\ UNCHANGED <<listening, procs, dying, envFile, written>>
    \/ /\ cli.cmd = "set"
       /\ cli.arg \notin {0, NaN}
       /\ WriteEnv(cli.arg)
       /\ cli' = CliAt("done", cli.start, cli.idx)
       /\ UNCHANGED <<listening, procs, dying>>

(* main(): the switch on the command.                                     *)
Main ==
    /\ cli.pc = "start"
    /\ \/ /\ cli.cmd \in {"check", "help"}
          /\ cli' = CliAt("done", cli.start, cli.idx)
          /\ UNCHANGED <<listening, procs, dying, envFile, written>>
       \/ /\ cli.cmd = "find"
          /\ cli' = CliAt("find", cli.arg, 1)
          /\ UNCHANGED <<listening, procs, dying, envFile, written>>
       \/ /\ cli.cmd = "kill"
          /\ KillPort(cli.arg)
          /\ cli' = CliAt("done", cli.start, cli.idx)
          /\ UNCHANGED <<envFile, written>>
       \/ SetCmd
       \/ /\ cli.cmd = "auto"
          /\ KillPort(cli.arg)
          /\ cli' = CliAt("wait", cli.start, cli.idx)
          /\ UNCHANGED <<envFile, written>>

(* auto, after its 1000 ms wait: isPortAvailable(port).  A bad port        *)
(* rejects into main().catch; a port still in use falls back to           *)
(* findAvailablePort(port + 1).                                           *)
AutoCheck ==
    /\ cli.pc = "wait"
    /\ \/ /\ ~ListenOk(cli.arg)
          /\ cli' = CliAt("done", cli.start, cli.idx)
          /\ UNCHANGED <<envFile, written>>
       \/ /\ ListenOk(cli.arg) /\ IsPortAvailable(cli.arg)
          /\ WriteEnv(cli.arg)
          /\ cli' = CliAt("done", cli.start, cli.idx)
       \/ /\ ListenOk(cli.arg) /\ ~IsPortAvailable(cli.arg)
          /\ cli' = CliAt("find", cli.arg + 1, 1)
          /\ UNCHANGED <<envFile, written>>
    /\ UNCHANGED <<listening, procs, dying>>

\* Seeded bug: a port found in use is probed again instead of the next one.
FindStepNoAdvance ==
    /\ cli.pc = "find"
    /\ LET p == Candidate(cli.start, cli.idx) IN
       \/ /\ cli.idx > NumCandidates(cli.start) \/ ~ListenOk(p)
          /\ cli' = CliAt("done", cli.start, cli.idx)
          /\ UNCHANGED <<envFile, written>>
       \/ /\ cli.idx <= NumCandidates(cli.start) /\ ListenOk(p)
          /\ IsPortAvailable(p)
          /\ WriteEnv(p)
          /\ cli' = CliAt("done", cli.start, cli.idx)
       \/ /\ cli.idx <= NumCandidates(cli.start) /\ ListenOk(p)
          /\ ~IsPortAvailable(p)
          /\ UNCHANGED <<cli, envFile, written>>
    /\ UNCHANGED <<listening, procs, dying>>

(* One iteration of findAvailablePort's loops, then updateEnvPort of the  *)
(* port found.  A bad port rejects, and so does running out of candidates *)
(* ('No available ports found'); both end the command without a write.    *)
FindStep ==
    /\ cli.pc = "find"
    /\ LET p == Candidate(cli.start, cli.idx) IN
       \/ /\ cli.idx > NumCandidates(cli.start) \/ ~ListenOk(p)
          /\ cli' = CliAt("done", cli.start, cli.idx)
          /\ UNCHANGED <<envFile, written>>
       \/ /\ cli.idx <= NumCandidates(cli.start) /\ ListenOk(p)
          /\ IsPortAvailable(p)
          /\ WriteEnv(p)
          /\ cli' = CliAt("done", cli.start, cli.idx)
       \/ /\ cli.idx <= NumCandidates(cli.start) /\ ListenOk(p)
          /\ ~IsPortAvailable(p)
          /\ cli' = CliAt("find", cli.start, cli.idx + 1)
          /\ UNCHANGED <<envFile, written>>
    /\ UNCHANGED <<listening, procs, dying>>

-----------------------------------------------------------------------------
(* The other processes of the machine.                                     *)
Listen(p) ==
    /\ ~InUse(p) /\ procs[p] < MaxProcs
    /\ listening' = [listening EXCEPT ![p] = TRUE]
    /\ procs' = [procs EXCEPT ![p] = @ + 1]
    /\ UNCHANGED <<dying, envFile, cli, written>>

Connect(p) ==
    /\ listening[p] /\ procs[p] < MaxProcs
    /\ procs' = [procs EXCEPT ![p] = @ + 1]
    /\ UNCHANGED <<listening, dying, envFile, cli, written>>

Exit(p) ==
    /\ procs[p] > 0
    /\ \/ /\ listening[p]
          /\ listening' = [listening EXCEPT ![p] = FALSE]
       \/ /\ procs[p] > IF listening[p] THEN 1 ELSE 0
          /\ UNCHANGED listening
    /\ procs' = [procs EXCEPT ![p] = @ - 1]
    /\ UNCHANGED <<dying, envFile, cli, written>>

Release(p) ==
    /\ dying[p]
    /\ dying' = [dying EXCEPT ![p] = FALSE]
    /\ UNCHANGED <<listening, procs, envFile, cli, written>>

Environment == \E p \in EnvPorts : Listen(p) \/ Connect(p) \/ Exit(p) \/ Release(p)

Next == Main \/ AutoCheck \/ FindStep \/ Environment

(* The CLI runs to its end; other processes need not do anything.          *)
Spec == Init /\ [][Next]_vars /\ WF_vars(Main \/ AutoCheck \/ FindStep)

-----------------------------------------------------------------------------
(* Every run of the CLI ends, whatever the other processes do: the search *)
(* of findAvailablePort is bounded.                                        *)
CliTerminates == <>(cli.pc = "done")

(* The CLI keeps the promise of its usage text (PortCommand): a run ends *)
(* once, writing .env.local at most once and as it ends; set writes its  *)
(* argument, find a port of its candidate list that listen() takes, auto *)
(* its argument or a port of the search from argument + 1; check, kill    *)
(* and help never write.                                                  *)
PC == INSTANCE PortCommand
         WITH out <- written, finished <- (cli.pc = "done"),
              cmd <- cli.cmd, arg <- cli.arg, Unwritten <- NoWrite,
              Tried <- LAMBDA s : {Defaults(s)[j] : j \in 1..Len(Defaults(s))}
PortRefinement == PC!Spec

(* updateEnvPort only changes PORT and HOST_DEV: every other line of an   *)
(* existing .env.local is kept as it was.                                  *)
OtherLines(c) == SelectSeq(c, LAMBDA l : l.key \notin {"PORT", "HOST_DEV"})
EnvKeepsOtherKeys ==
    written.before # NoEnvFile => OtherLines(envFile) = OtherLines(written.before)

(* 'kill' and 'auto' kill the process on the port: right after killPort   *)
(* the port has no listener (when the kill is permitted).                  *)
KillStopsListener ==
    [][cli.pc = "start" /\ cli.pc' # "start"
       /\ cli.cmd \in {"kill", "auto"} /\ cli.arg \in EnvPorts
       => ~listening'[cli.arg]]_vars
=============================================================================
