------------------------- MODULE PortManagerProofs -------------------------
(***************************************************************************)
(* The type invariant of the port manager CLI for every set of ports,     *)
(* port arguments and .env.local contents: in particular updateEnvPort    *)
(* always writes a well-formed list of KEY=value lines, and every port    *)
(* written is a number (never NaN).                                       *)
(***************************************************************************)
EXTENDS PortManager, SequenceTheorems, TLAPS

USE PortAssumption

EnvLine == [key : Keys, host : Hosts, port : Int]
CliT == [pc : Pcs, cmd : Commands, arg : Args, start : Int \cup {NaN},
         idx : Nat \ {0}]
WrittenT == [before : EnvContents \cup {NoEnvFile}, port : Int]

\* A function on 1..n is a sequence.
LEMMA FunIsSeq ==
    ASSUME NEW S, NEW n \in Nat, NEW f \in [1..n -> S]
    PROVE  f \in Seq(S)
BY SeqDef

\* Rewriting the port of the lines a regular expression matches keeps a
\* list of lines.
LEMMA SetPortLines ==
    \A c \in EnvContents, p \in Int :
       /\ [i \in DOMAIN c |-> IF PortRe(c[i]) THEN SetPort(c[i], p) ELSE c[i]]
             \in EnvContents
       /\ [i \in DOMAIN c |-> IF HostDevRe(c[i]) THEN SetPort(c[i], p) ELSE c[i]]
             \in EnvContents
<1> TAKE c \in EnvContents, p \in Int
<1>1. Len(c) \in Nat /\ DOMAIN c = 1..Len(c)
  BY LenProperties DEF EnvContents
<1>2. \A i \in 1..Len(c) : c[i] \in EnvLine /\ SetPort(c[i], p) \in EnvLine
  BY ElementOfSeq DEF EnvContents, EnvLine, SetPort
<1>3. [i \in DOMAIN c |-> IF PortRe(c[i]) THEN SetPort(c[i], p) ELSE c[i]]
         \in [1..Len(c) -> EnvLine]
  BY <1>1, <1>2
<1>4. [i \in DOMAIN c |-> IF HostDevRe(c[i]) THEN SetPort(c[i], p) ELSE c[i]]
         \in [1..Len(c) -> EnvLine]
  BY <1>1, <1>2
<1>5. QED
  BY <1>1, <1>3, <1>4, FunIsSeq DEF EnvContents, EnvLine

\* updateEnvPort(port) leaves a well-formed .env.local.
LEMMA UpdateEnvPortType ==
    \A c \in EnvContents \cup {NoEnvFile}, p \in Int :
       UpdateEnvPort(c, p) \in EnvContents
<1> TAKE c \in EnvContents \cup {NoEnvFile}, p \in Int
<1>1. \A k \in Keys : Line(k, "localhost", p) \in EnvLine
  BY DEF Line, EnvLine, Keys, Hosts
<1>2. CASE c = NoEnvFile
  <2> DEFINE new == <<Line("PORT", "localhost", p), Line("HOST", "localhost", 0)>>
  <2>1. new \in [1..2 -> EnvLine] /\ 2 \in Nat
    BY <1>1 DEF Keys, Line, EnvLine, Hosts
  <2>2. new \in Seq(EnvLine)
    BY <2>1, FunIsSeq
  <2>3. UpdateEnvPort(c, p) = new
    BY <1>2 DEF UpdateEnvPort
  <2>4. QED
    BY <2>2, <2>3 DEF EnvContents, EnvLine
<1>3. CASE c # NoEnvFile
  <2> DEFINE c1 == IF HasKey(c, PortKeys)
                   THEN [i \in DOMAIN c |-> IF PortRe(c[i]) THEN SetPort(c[i], p) ELSE c[i]]
                   ELSE <<Line("PORT", "localhost", p)>> \o c
  <2>1. c \in Seq(EnvLine)
    BY <1>3 DEF EnvContents, EnvLine
  <2>2. <<Line("PORT", "localhost", p)>> \in Seq(EnvLine)
    <3>1. <<Line("PORT", "localhost", p)>> \in [1..1 -> EnvLine] /\ 1 \in Nat
      BY <1>1 DEF Keys
    <3>2. QED
      BY <3>1, FunIsSeq
  <2>3. <<Line("PORT", "localhost", p)>> \o c \in Seq(EnvLine)
    BY <2>1, <2>2, ConcatProperties
  <2>4. c1 \in EnvContents
    BY <1>3, <2>3, SetPortLines DEF EnvContents, EnvLine
  <2>5. Append(c1, Line("HOST_DEV", "localhost", p)) \in Seq(EnvLine)
    BY <2>4, <1>1, AppendProperties DEF EnvContents, EnvLine, Keys
  <2>6. [i \in DOMAIN c1 |-> IF HostDevRe(c1[i]) THEN SetPort(c1[i], p) ELSE c1[i]]
           \in EnvContents
    <3>1. c1 \in Seq(EnvLine)
      BY <2>4 DEF EnvContents, EnvLine
    <3>2. Len(c1) \in Nat /\ DOMAIN c1 = 1..Len(c1)
      BY <3>1, LenProperties
    <3>3. \A i \in 1..Len(c1) : c1[i] \in EnvLine /\ SetPort(c1[i], p) \in EnvLine
      BY <3>1, ElementOfSeq DEF EnvLine, SetPort
    <3>4. [i \in DOMAIN c1 |-> IF HostDevRe(c1[i]) THEN SetPort(c1[i], p) ELSE c1[i]]
             \in [1..Len(c1) -> EnvLine]
      BY <3>2, <3>3
    <3>5. QED
      BY <3>2, <3>4, FunIsSeq DEF EnvContents, EnvLine
  <2>7. QED
    BY <1>3, <2>5, <2>6 DEF UpdateEnvPort, EnvContents, EnvLine
<1>4. QED
  BY <1>2, <1>3

\* Writing a numeric port keeps .env.local and the write record typed.
LEMMA WriteEnvType ==
    ASSUME TypeOK, NEW p \in Int, WriteEnv(p)
    PROVE  envFile' \in EnvContents \cup {NoEnvFile} /\ written' \in WrittenT
<1>1. envFile' = UpdateEnvPort(envFile, p) /\ envFile \in EnvContents \cup {NoEnvFile}
  BY DEF WriteEnv, TypeOK
<1>2. QED
  BY <1>1, UpdateEnvPortType DEF WriteEnv, WrittenT

\* A process of port p exits or is killed: the count stays in range.
LEMMA ProcExitType ==
    ASSUME TypeOK, NEW p \in EnvPorts, procs[p] > 0
    PROVE  /\ [procs EXCEPT ![p] = @ - 1] \in [EnvPorts -> 0..MaxProcs]
           /\ [listening EXCEPT ![p] = FALSE] \in [EnvPorts -> BOOLEAN]
           /\ [dying EXCEPT ![p] = TRUE] \in [EnvPorts -> BOOLEAN]
<1>1. procs[p] - 1 \in 0..MaxProcs
  BY DEF TypeOK
<1>2. QED
  BY <1>1 DEF TypeOK

\* killPort keeps the process table typed.
LEMMA KillPortType ==
    ASSUME TypeOK, NEW p, KillPort(p)
    PROVE  /\ listening' \in [EnvPorts -> BOOLEAN]
           /\ procs' \in [EnvPorts -> 0..MaxProcs]
           /\ dying' \in [EnvPorts -> BOOLEAN]
<1>1. CASE UNCHANGED <<listening, procs, dying>>
  BY <1>1 DEF TypeOK
<1>2. CASE /\ p \in EnvPorts /\ procs[p] > 0
           /\ procs' = [procs EXCEPT ![p] = @ - 1]
           /\ \/ /\ listening' = [listening EXCEPT ![p] = FALSE]
                 /\ dying' = [dying EXCEPT ![p] = TRUE]
              \/ UNCHANGED <<listening, dying>>
  <2>1. /\ procs' \in [EnvPorts -> 0..MaxProcs]
        /\ [listening EXCEPT ![p] = FALSE] \in [EnvPorts -> BOOLEAN]
        /\ [dying EXCEPT ![p] = TRUE] \in [EnvPorts -> BOOLEAN]
    BY <1>2, ProcExitType
  <2>2. QED
    BY <1>2, <2>1 DEF TypeOK
<1>3. QED
  BY <1>1, <1>2, Zenon DEF KillPort

LEMMA PortInitType == Init => TypeOK
BY DEF Init, TypeOK, NoWrite, Pcs

\* The moves of the CLI keep its record typed.
LEMMA CliAtType ==
    ASSUME TypeOK
    PROVE  \A pc \in Pcs, start \in Int \cup {NaN}, idx \in Nat \ {0} :
              CliAt(pc, start, idx) \in CliT
BY DEF CliAt, TypeOK, CliT

\* The parts of TypeOK that the CLI's own steps change.
LEMMA CliStepType ==
    ASSUME TypeOK, cli' \in CliT,
           envFile' \in EnvContents \cup {NoEnvFile}, written' \in WrittenT,
           listening' \in [EnvPorts -> BOOLEAN],
           procs' \in [EnvPorts -> 0..MaxProcs],
           dying' \in [EnvPorts -> BOOLEAN]
    PROVE  TypeOK'
BY DEF TypeOK, CliT, WrittenT

LEMMA PortTypeStep == TypeOK /\ [Next]_vars => TypeOK'
<1> SUFFICES ASSUME TypeOK, [Next]_vars PROVE TypeOK'
  OBVIOUS
<1>0. /\ cli.start \in Int \cup {NaN} /\ cli.arg \in Args
      /\ cli.arg \in Int \cup {NaN}
      /\ cli.idx \in Nat \ {0} /\ cli.idx + 1 \in Nat \ {0}
      /\ cli.cmd \in Commands
      /\ written \in WrittenT
  <2>1. cli.start \in Int \cup {NaN} /\ cli.arg \in Args /\ cli.cmd \in Commands
    BY DEF TypeOK
  <2>2. cli.arg \in Int \cup {NaN}
    BY <2>1
  <2>3. cli.idx \in Nat \ {0} /\ cli.idx + 1 \in Nat \ {0}
    BY DEF TypeOK
  <2>4. written \in WrittenT
    BY DEF TypeOK, WrittenT
  <2>5. QED
    BY <2>1, <2>2, <2>3, <2>4
<1>1. CASE Main
  <2>1. CASE /\ cli.cmd = "set" /\ cli.arg \notin {0, NaN} /\ WriteEnv(cli.arg)
             /\ cli' = CliAt("done", cli.start, cli.idx)
             /\ UNCHANGED <<listening, procs, dying>>
    <3>1. cli.arg \in Int
      BY <2>1, <1>0
    <3>2. envFile' \in EnvContents \cup {NoEnvFile} /\ written' \in WrittenT
      BY <2>1, <3>1, WriteEnvType
    <3>3. QED
      BY <2>1, <3>2, <1>0, CliStepType DEF TypeOK, Pcs, CliAt, CliT
  <2>2. CASE /\ KillPort(cli.arg)
             /\ cli' \in {CliAt("done", cli.start, cli.idx),
                          CliAt("wait", cli.start, cli.idx)}
             /\ UNCHANGED <<envFile, written>>
    <3>1. /\ listening' \in [EnvPorts -> BOOLEAN]
          /\ procs' \in [EnvPorts -> 0..MaxProcs]
          /\ dying' \in [EnvPorts -> BOOLEAN]
      BY <2>2, KillPortType
    <3>2. cli' \in CliT
      BY <2>2, <1>0 DEF Pcs, CliAt, CliT
    <3>3. QED
      BY <2>2, <3>1, <3>2, <1>0, CliStepType DEF TypeOK
  <2>3. CASE /\ cli' \in {CliAt("done", cli.start, cli.idx), CliAt("find", cli.arg, 1)}
             /\ UNCHANGED <<listening, procs, dying, envFile, written>>
    <3>1. cli' \in CliT
      BY <2>3, <1>0 DEF Pcs, CliAt, CliT
    <3>2. QED
      BY <2>3, <3>1, <1>0, CliStepType DEF TypeOK
  <2>4. QED
    BY <1>1, <2>1, <2>2, <2>3 DEF Main, SetCmd
<1>2. CASE AutoCheck
  <2>1. CASE /\ ListenOk(cli.arg) /\ WriteEnv(cli.arg)
             /\ cli' = CliAt("done", cli.start, cli.idx)
             /\ UNCHANGED <<listening, procs, dying>>
    <3>1. envFile' \in EnvContents \cup {NoEnvFile} /\ written' \in WrittenT
      BY <2>1, WriteEnvType DEF ListenOk
    <3>2. QED
      BY <2>1, <3>1, <1>0, CliStepType DEF TypeOK, Pcs, CliAt, CliT
  <2>2. CASE /\ ListenOk(cli.arg) /\ cli' = CliAt("find", cli.arg + 1, 1)
             /\ UNCHANGED <<listening, procs, dying, envFile, written>>
    <3>1. cli.arg + 1 \in Int
      BY <2>2 DEF ListenOk
    <3>2. cli' \in CliT
      BY <2>2, <3>1, <1>0 DEF Pcs, CliAt, CliT
    <3>3. QED
      BY <2>2, <3>2, <1>0, CliStepType DEF TypeOK
  <2>3. CASE /\ cli' = CliAt("done", cli.start, cli.idx)
             /\ UNCHANGED <<listening, procs, dying, envFile, written>>
    BY <2>3, <1>0, CliStepType DEF TypeOK, Pcs, CliAt, CliT
  <2>4. QED
    BY <1>2, <2>1, <2>2, <2>3 DEF AutoCheck
<1>3. CASE FindStep
  <2> DEFINE p == Candidate(cli.start, cli.idx)
  <2>1. CASE /\ ListenOk(p) /\ WriteEnv(p)
             /\ cli' = CliAt("done", cli.start, cli.idx)
             /\ UNCHANGED <<listening, procs, dying>>
    <3>1. envFile' \in EnvContents \cup {NoEnvFile} /\ written' \in WrittenT
      BY <2>1, WriteEnvType DEF ListenOk
    <3>2. QED
      BY <2>1, <3>1, <1>0, CliStepType DEF TypeOK, Pcs, CliAt, CliT
  <2>2. CASE /\ cli' \in {CliAt("done", cli.start, cli.idx),
                          CliAt("find", cli.start, cli.idx + 1)}
             /\ UNCHANGED <<listening, procs, dying, envFile, written>>
    <3>1. cli' \in CliT
      BY <2>2, <1>0 DEF Pcs, CliAt, CliT
    <3>2. QED
      BY <2>2, <3>1, <1>0, CliStepType DEF TypeOK
  <2>3. QED
    BY <1>3, <2>1, <2>2 DEF FindStep
<1>4. ASSUME NEW p \in EnvPorts, Listen(p) \/ Connect(p) \/ Exit(p) \/ Release(p)
      PROVE  TypeOK'
  <2>1. CASE Listen(p)
    BY <2>1 DEF Listen, TypeOK
  <2>2. CASE Connect(p)
    BY <2>2 DEF Connect, TypeOK
  <2>3. CASE Exit(p)
    <3>1. procs[p] > 0 /\ procs' = [procs EXCEPT ![p] = @ - 1]
      BY <2>3 DEF Exit
    <3>2. procs' \in [EnvPorts -> 0..MaxProcs]
          /\ [listening EXCEPT ![p] = FALSE] \in [EnvPorts -> BOOLEAN]
      BY <3>1, ProcExitType
    <3>3. listening' \in [EnvPorts -> BOOLEAN]
      BY <2>3, <3>2 DEF Exit, TypeOK
    <3>4. QED
      BY <2>3, <3>2, <3>3 DEF Exit, TypeOK
  <2>4. CASE Release(p)
    BY <2>4 DEF Release, TypeOK
  <2>5. QED
    BY <1>4, <2>1, <2>2, <2>3, <2>4
<1>5. CASE UNCHANGED vars
  BY <1>5 DEF vars, TypeOK
<1>6. QED
  BY <1>1, <1>2, <1>3, <1>4, <1>5 DEF Next, Environment

(* The type invariant of dev-port.js: for every machine state, argument  *)
(* and .env.local, every run of the CLI keeps .env.local a list of        *)
(* KEY=value lines and writes only numeric ports.                         *)
THEOREM PortTypeCorrect == Spec => []TypeOK
BY PortInitType, PortTypeStep, PTL DEF Spec
-----------------------------------------------------------------------------
(* The candidate list of findAvailablePort.                                *)

\* The list [start, ...DEFAULT_PORTS.filter(p => p !== start)] and the
\* sequential fallback have at least two entries.
LEMMA NumCandidatesType ==
    ASSUME NEW s
    PROVE  /\ Len(Defaults(s)) \in Nat
           /\ NumCandidates(s) \in Nat
           /\ NumCandidates(s) >= 2
<1>1. Len(Defaults(s)) \in Nat
  OBVIOUS
<1>2. QED
  BY <1>1 DEF NumCandidates

-----------------------------------------------------------------------------
(* The refinement of PortCommand.                                          *)

(* The search loop belongs to the command that runs it: only auto waits,  *)
(* find searches from its argument and auto from the port after its own,  *)
(* a search past its first candidate started from a port listen() takes, *)
(* and it never goes more than one step past its candidate list.          *)
CliInv ==
    /\ cli.pc = "start" => cli.start = cli.arg
    /\ cli.pc = "wait" => cli.cmd = "auto" /\ cli.start = cli.arg
    /\ cli.pc = "find" =>
          \/ cli.cmd = "find" /\ cli.start = cli.arg
          \/ cli.cmd = "auto" /\ ListenOk(cli.arg) /\ cli.start = cli.arg + 1
    /\ cli.pc = "find" /\ cli.idx > 1 => ListenOk(cli.start)
    /\ cli.pc = "find" => cli.idx <= NumCandidates(cli.start) + 1
LEMMA CliInvInitial == Init => CliInv
BY DEF Init, CliInv

\* The moves of the CLI record keep its command and argument.
LEMMA CliAtFields ==
    ASSUME NEW pc, NEW st, NEW ix
    PROVE  /\ CliAt(pc, st, ix).pc = pc /\ CliAt(pc, st, ix).cmd = cli.cmd
           /\ CliAt(pc, st, ix).arg = cli.arg /\ CliAt(pc, st, ix).start = st
           /\ CliAt(pc, st, ix).idx = ix
BY DEF CliAt

LEMMA CliInvStep == TypeOK /\ CliInv /\ [Next]_vars => CliInv'
<1> SUFFICES ASSUME TypeOK, CliInv, [Next]_vars PROVE CliInv'
  OBVIOUS
<1>0. cli.idx \in Nat \ {0} /\ NumCandidates(cli.start) \in Nat
  BY NumCandidatesType DEF TypeOK
<1>1. CASE Main
  <2>1. CASE cli' = CliAt("done", cli.start, cli.idx)
    BY <2>1, CliAtFields DEF CliInv
  <2>2. CASE cli.cmd = "find" /\ cli' = CliAt("find", cli.arg, 1)
    <3>1. NumCandidates(cli.arg) \in Nat
      BY NumCandidatesType
    <3>2. QED
      BY <2>2, <3>1, CliAtFields DEF CliInv
  <2>3. CASE cli.cmd = "auto" /\ cli' = CliAt("wait", cli.start, cli.idx)
    BY <1>1, <2>3, CliAtFields DEF CliInv, Main, SetCmd
  <2>4. QED
    BY <1>1, <2>1, <2>2, <2>3 DEF Main, SetCmd
<1>2. CASE AutoCheck
  <2>1. CASE cli' = CliAt("done", cli.start, cli.idx)
    BY <2>1, CliAtFields DEF CliInv
  <2>2. CASE ListenOk(cli.arg) /\ cli' = CliAt("find", cli.arg + 1, 1)
    <3>1. NumCandidates(cli.arg + 1) \in Nat
      BY NumCandidatesType
    <3>2. cli.pc = "wait"
      BY <1>2 DEF AutoCheck
    <3>3. QED
      BY <2>2, <3>1, <3>2, CliAtFields DEF CliInv
  <2>3. QED
    BY <1>2, <2>1, <2>2 DEF AutoCheck
<1>3. CASE FindStep
  <2> DEFINE p == Candidate(cli.start, cli.idx)
  <2>1. CASE cli' = CliAt("done", cli.start, cli.idx)
    BY <2>1, CliAtFields DEF CliInv
  <2>2. CASE /\ cli.idx <= NumCandidates(cli.start) /\ ListenOk(p)
             /\ cli' = CliAt("find", cli.start, cli.idx + 1)
    <3>1. ListenOk(cli.start)
      <4>1. CASE cli.idx = 1
        BY <2>2, <4>1 DEF Candidate
      <4>2. CASE cli.idx > 1
        BY <1>3, <4>2 DEF CliInv, FindStep
      <4>3. QED
        BY <1>0, <4>1, <4>2
    <3>2. QED
      BY <1>3, <2>2, <3>1, <1>0, CliAtFields DEF CliInv, FindStep
  <2>3. QED
    BY <1>3, <2>1, <2>2 DEF FindStep
<1>4. CASE Environment \/ UNCHANGED vars
  BY <1>4 DEF Environment, Listen, Connect, Exit, Release, vars, CliInv
<1>5. QED
  BY <1>1, <1>2, <1>3, <1>4 DEF Next

LEMMA CliInvHolds == Spec => []CliInv
BY CliInvInitial, CliInvStep, PortTypeCorrect, PTL DEF Spec
\* Every port the search from s may write is one PortCommand allows a
\* search from s: the start port, an entry of the filtered DEFAULT_PORTS,
\* or one of the SeqSpan ports from s on.
LEMMA CandidateInSearch ==
    ASSUME NEW s, NEW i \in Nat \ {0}, i <= NumCandidates(s),
           ListenOk(Candidate(s, i)), i > 1 => ListenOk(s)
    PROVE  Candidate(s, i) \in PC!Search(s) \cap PC!Listenable
<1>1. Len(Defaults(s)) \in Nat
  BY NumCandidatesType
<1>2. CASE i = 1
  BY <1>2 DEF Candidate, ListenOk, PC!Search, PC!Listenable
<1>3. CASE i > 1
  <2>1. s \in Int
    BY <1>3 DEF ListenOk
  <2>2. CASE i <= 1 + Len(Defaults(s))
    <3>1. Candidate(s, i) = Defaults(s)[i - 1] /\ i - 1 \in 1..Len(Defaults(s))
      BY <1>1, <1>3, <2>2 DEF Candidate
    <3>2. QED
      BY <2>1, <3>1 DEF PC!Search, PC!Listenable, ListenOk
  <2>3. CASE i > 1 + Len(Defaults(s))
    <3>1. Candidate(s, i) = s + (i - 2 - Len(Defaults(s)))
      BY <1>1, <1>3, <2>3 DEF Candidate
    <3>2. i - 2 - Len(Defaults(s)) \in 0..(SeqSpan - 1)
      BY <1>1, <2>3 DEF NumCandidates
    <3>3. QED
      BY <2>1, <3>1, <3>2 DEF PC!Search, PC!Listenable, ListenOk
  <2>4. QED
    BY <1>1, <2>2, <2>3
<1>4. QED
  BY <1>2, <1>3

\* Every step of the CLI, and of the other processes, is a step of
\* PortCommand or leaves its state alone.
LEMMA PortRefineStep ==
    TypeOK /\ CliInv /\ [Next]_vars => [PC!Run]_PC!absVars
<1> SUFFICES ASSUME TypeOK, CliInv, [Next]_vars PROVE [PC!Run]_PC!absVars
  OBVIOUS
<1> DEFINE Ends == /\ cli.pc # "done" /\ cli'.pc = "done"
                   /\ cli'.cmd = cli.cmd /\ cli'.arg = cli.arg
<1>1. ASSUME Ends, UNCHANGED written PROVE PC!Run
  BY <1>1 DEF PC!Run
<1>2. ASSUME Ends, written'.port \in PC!Allowed(cli.cmd, cli.arg) PROVE PC!Run
  BY <1>2 DEF PC!Run
<1>3. ASSUME cli'.pc # "done", cli.pc # "done", cli'.cmd = cli.cmd,
             cli'.arg = cli.arg, UNCHANGED written
      PROVE  UNCHANGED PC!absVars
  BY <1>3 DEF PC!absVars
<1>4. CASE Main
  <2>1. cli.pc = "start"
    BY <1>4 DEF Main, SetCmd
  <2>2. CASE cli' = CliAt("done", cli.start, cli.idx) /\ UNCHANGED written
    BY <2>1, <2>2, <1>1, CliAtFields
  <2>3. CASE /\ cli.cmd = "set" /\ cli.arg \notin {0, NaN} /\ WriteEnv(cli.arg)
             /\ cli' = CliAt("done", cli.start, cli.idx)
    <3>1. written'.port \in PC!Allowed(cli.cmd, cli.arg)
      BY <2>3 DEF WriteEnv, PC!Allowed
    <3>2. QED
      BY <2>1, <2>3, <3>1, <1>2, CliAtFields
  <2>4. CASE /\ cli' \in {CliAt("find", cli.arg, 1), CliAt("wait", cli.start, cli.idx)}
             /\ UNCHANGED written
    BY <2>1, <2>4, <1>3, CliAtFields
  <2>5. QED
    BY <1>4, <2>2, <2>3, <2>4 DEF Main, SetCmd
<1>5. CASE AutoCheck
  <2>1. cli.pc = "wait" /\ cli.cmd = "auto"
    BY <1>5 DEF AutoCheck, CliInv
  <2>2. CASE cli' = CliAt("done", cli.start, cli.idx) /\ UNCHANGED written
    BY <2>1, <2>2, <1>1, CliAtFields
  <2>3. CASE /\ ListenOk(cli.arg) /\ WriteEnv(cli.arg)
             /\ cli' = CliAt("done", cli.start, cli.idx)
    <3>1. written'.port \in PC!Allowed(cli.cmd, cli.arg)
      BY <2>1, <2>3 DEF WriteEnv, PC!Allowed, PC!Listenable, ListenOk
    <3>2. QED
      BY <2>1, <2>3, <3>1, <1>2, CliAtFields
  <2>4. CASE cli' = CliAt("find", cli.arg + 1, 1) /\ UNCHANGED written
    BY <2>1, <2>4, <1>3, CliAtFields
  <2>5. QED
    BY <1>5, <2>2, <2>3, <2>4 DEF AutoCheck
<1>6. CASE FindStep
  <2> DEFINE p == Candidate(cli.start, cli.idx)
  <2>1. cli.pc = "find"
    BY <1>6 DEF FindStep
  <2>2. CASE cli' = CliAt("done", cli.start, cli.idx) /\ UNCHANGED written
    BY <2>1, <2>2, <1>1, CliAtFields
  <2>3. CASE /\ cli.idx <= NumCandidates(cli.start) /\ ListenOk(p)
             /\ WriteEnv(p) /\ cli' = CliAt("done", cli.start, cli.idx)
    <3>1. p \in PC!Search(cli.start) \cap PC!Listenable
      <4>1. cli.idx \in Nat \ {0}
        BY DEF TypeOK
      <4>2. cli.idx > 1 => ListenOk(cli.start)
        BY <2>1 DEF CliInv
      <4>3. QED
        BY <2>3, <4>1, <4>2, CandidateInSearch
    <3>2. \/ cli.cmd = "find" /\ cli.start = cli.arg
          \/ cli.cmd = "auto" /\ ListenOk(cli.arg) /\ cli.start = cli.arg + 1
      BY <2>1 DEF CliInv
    <3>3. p \in PC!Allowed(cli.cmd, cli.arg)
      BY <3>1, <3>2 DEF PC!Allowed, PC!Listenable, ListenOk
    <3>4. written'.port = p
      BY <2>3 DEF WriteEnv
    <3>5. QED
      BY <2>1, <2>3, <3>3, <3>4, <1>2, CliAtFields
  <2>4. CASE cli' = CliAt("find", cli.start, cli.idx + 1) /\ UNCHANGED written
    BY <2>1, <2>4, <1>3, CliAtFields
  <2>5. QED
    BY <1>6, <2>2, <2>3, <2>4 DEF FindStep
<1>7. CASE Environment \/ UNCHANGED vars
  BY <1>7 DEF Environment, Listen, Connect, Exit, Release, vars, PC!absVars
<1>8. QED
  BY <1>4, <1>5, <1>6, <1>7 DEF Next

(* dev-port.js keeps the promise of its usage text, for every set of      *)
(* ports, DEFAULT_PORTS, arguments and .env.local: a run writes           *)
(* .env.local at most once, as it ends, and only with a port its command  *)
(* may choose.                                                             *)
THEOREM PortRefines == Spec => PortRefinement
<1>1. Init => PC!Init
  BY DEF Init, PC!Init, NoWrite
<1>2. TypeOK /\ CliInv /\ [Next]_vars => [PC!Run]_PC!absVars
  BY PortRefineStep
<1>3. QED
  BY <1>1, <1>2, PortTypeCorrect, CliInvHolds, PTL
     DEF Spec, PortRefinement, PC!Spec

=============================================================================
