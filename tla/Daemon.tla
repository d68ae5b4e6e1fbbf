------------------------------- MODULE Daemon -------------------------------
(***************************************************************************)
(* One daemon per machine, found through a pid file: daemon/proc.rs,        *)
(* daemon/meta.rs, commands/daemon_cmds.rs and commands/daemon_run.rs.      *)
(*                                                                          *)
(* `nuage start`, `stop` and `restart` are processes of their own.  What    *)
(* they know of the daemon is the pid file, what a signal to that pid       *)
(* says, and the command line `ps` shows for it.  Pids are used again.      *)
(* `nuage upgrade` is a restart with an installation between its halves.    *)
(* The meta file is written and removed beside the pid file and decides     *)
(* nothing here.                                                            *)
(***************************************************************************)
EXTENDS Naturals, FiniteSets

CONSTANTS
  Pid,         \* process ids
  Commands,    \* bound: commands the user runs
  Crashes,     \* bound: daemons that die or are told to end from outside
  None

ASSUME DaemonAssumption ==
  /\ IsFiniteSet(Pid) /\ None \notin Pid
  /\ Commands \in Nat /\ Crashes \in Nat

VARIABLES
  proc,        \* what runs under each pid
  file,        \* the pid file: who holds its lock, and the pid it names
  overlap,     \* history: a command began, or another program took a pid,
               \* while a command or a daemon was on its way
  spent        \* what the bounds count

vars == <<proc, file, overlap, spent>>

Nobody == [is |-> "none", cmd |-> "", job |-> "", step |-> "", seen |-> None]
Stranger == [Nobody EXCEPT !.is = "other"]
Cli(c, j) == [is |-> "cli", cmd |-> c, job |-> j, step |-> "look", seen |-> None]
Forked(c) == [Nobody EXCEPT !.is = "daemon", !.cmd = c, !.step = "forked"]

NoFile == [holder |-> None, pid |-> "no file"]
Empty == "empty"
ASSUME FileAssumption == (Pid \cup {None}) \cap {Empty, "no file"} = {}

Alive(p) == proc[p].is # "none"
Free == {p \in Pid : ~Alive(p)}
Daemons == {p \in Pid : proc[p].is = "daemon"}
Syncing == {p \in Daemons : proc[p].step \in {"running", "stopping"}}

(* No command is under way and no daemon on its way up or out.              *)
Settled == \A p \in Pid :
  proc[p].is \in {"none", "other"} \/ p \in Syncing

(* is_daemon_args: a command that forks a daemon reads like one.            *)
DaemonArgsOfAny(p) == proc[p].is \in {"cli", "daemon", "other"}
DaemonArgsOfStart(p) == proc[p].is \in {"cli", "daemon"} /\ proc[p].cmd = "start"
DaemonArgs(p) ==
  proc[p].is \in {"cli", "daemon"} /\ proc[p].cmd \in {"start", "restart"}

Init ==
  /\ proc = [p \in Pid |-> Nobody]
  /\ file = NoFile
  /\ overlap = FALSE
  /\ spent = [commands |-> 0, crashes |-> 0]

(* The lock goes with the process.                                          *)
KeptLock(f, p) == f
Released(f, p) == IF f.holder = p THEN [f EXCEPT !.holder = None] ELSE f

At(p, is, step) == proc[p].is = is /\ proc[p].step = step
Step(p, step) == [proc[p] EXCEPT !.step = step]

-----------------------------------------------------------------------------
(* Commands.                                                                *)

Run(p, c) ==
  /\ p \in Free
  /\ spent.commands < Commands
  /\ overlap' = (overlap \/ ~Settled)
  /\ spent' = [spent EXCEPT !.commands = @ + 1]
  /\ proc' = [proc EXCEPT ![p] = Cli(c, IF c = "start" THEN "start" ELSE "stop")]
  /\ UNCHANGED file

(* cmd_restart stops, then starts.                                          *)
Stopping(p) == proc[p].job = "stop"
AfterStop(p) == IF proc[p].cmd = "restart" THEN Cli("restart", "start") ELSE Nobody

(* What is_running's answer leads to.                                       *)
Absent(p) == IF Stopping(p) THEN AfterStop(p) ELSE Step(p, "fork")
Present(p) == Step(p, IF Stopping(p) THEN "term" ELSE "refused")

(* is_running reads the file ...                                            *)
Look(p) ==
  /\ At(p, "cli", "look")
  /\ proc' = [proc EXCEPT ![p] =
       IF file = NoFile THEN Absent(p)
       ELSE [Step(p, "judge") EXCEPT !.seen = file.pid]]
  /\ UNCHANGED <<file, overlap, spent>>

(* ... and then looks at the process it names.                              *)
Judge(p) ==
  /\ At(p, "cli", "judge")
  /\ LET q == proc[p].seen
         found == q # Empty /\ Alive(q) /\ DaemonArgs(q)
     IN /\ proc' = [proc EXCEPT ![p] = IF found THEN Present(p) ELSE Absent(p)]
        /\ file' = IF found THEN file ELSE NoFile
  /\ UNCHANGED <<overlap, spent>>

(* "Already running".                                                       *)
GiveUp(p) ==
  /\ At(p, "cli", "refused")
  /\ proc' = [proc EXCEPT ![p] = Nobody]
  /\ UNCHANGED <<file, overlap, spent>>

(* cmd_start leaves a daemon behind, or fails on its configuration.         *)
Fork(p) ==
  /\ At(p, "cli", "fork")
  /\ \/ \E d \in Free : proc' = [proc EXCEPT ![p] = Nobody, ![d] = Forked(proc[p].cmd)]
     \/ proc' = [proc EXCEPT ![p] = Nobody]
  /\ UNCHANGED <<file, overlap, spent>>

(* SIGTERM is taken up by wait_for_signal once the engines run, and ends    *)
(* any other process.                                                       *)
Terminated(q) ==
  IF proc[q].is = "daemon" /\ proc[q].step \in {"running", "stopping", "leaving"}
  THEN IF proc[q].step = "running" THEN Step(q, "stopping") ELSE proc[q]
  ELSE Nobody

Term(p) ==
  /\ At(p, "cli", "term")
  /\ LET q == proc[p].seen IN
     IF Alive(q)
     THEN /\ proc' = [proc EXCEPT ![p] = Step(p, "wait"), ![q] = Terminated(q)]
          /\ file' = IF Terminated(q) = Nobody THEN Released(file, q) ELSE file
     ELSE /\ proc' = [proc EXCEPT ![p] = AfterStop(p)]
          /\ file' = NoFile
  /\ UNCHANGED <<overlap, spent>>

(* wait_for_exit: the process is gone, or five seconds are over.            *)
Gone(p) ==
  /\ At(p, "cli", "wait")
  /\ ~Alive(proc[p].seen)
  /\ proc' = [proc EXCEPT ![p] = Step(p, "sweep")]
  /\ UNCHANGED <<file, overlap, spent>>

NoTimeout(p) == FALSE
Timeout(p) == At(p, "cli", "wait") /\ Alive(proc[p].seen)

Kill(p) ==
  /\ Timeout(p)
  /\ proc' = [proc EXCEPT ![proc[p].seen] = Nobody, ![p] = Step(p, "sweep")]
  /\ file' = Released(file, proc[p].seen)
  /\ UNCHANGED <<overlap, spent>>

Sweep(p) ==
  /\ At(p, "cli", "sweep")
  /\ proc' = [proc EXCEPT ![p] = AfterStop(p)]
  /\ file' = NoFile
  /\ UNCHANGED <<overlap, spent>>

-----------------------------------------------------------------------------
(* The daemon.                                                              *)

Die(d) ==
  /\ proc' = [proc EXCEPT ![d] = Nobody]
  /\ file' = Released(file, d)

(* daemonize opens and locks the file, or gives up ...                      *)
Lock(d) ==
  /\ At(d, "daemon", "forked")
  /\ IF file.holder # None THEN Die(d)
     ELSE /\ proc' = [proc EXCEPT ![d] = Step(d, "locked")]
          /\ file' = [holder |-> d, pid |-> IF file = NoFile THEN Empty ELSE file.pid]
  /\ UNCHANGED <<overlap, spent>>

(* ... and then writes to what it opened, removed since or not.             *)
WritePid(d) ==
  /\ At(d, "daemon", "locked")
  /\ proc' = [proc EXCEPT ![d] = Step(d, "config")]
  /\ file' = IF file.holder = d THEN [file EXCEPT !.pid = d] ELSE file
  /\ UNCHANGED <<overlap, spent>>

(* run_daemon resolves its targets before any engine starts; an error       *)
(* leaves the files behind.                                                 *)
StartEngines(d) ==
  /\ At(d, "daemon", "config")
  /\ \/ proc' = [proc EXCEPT ![d] = Step(d, "running")] /\ UNCHANGED file
     \/ Die(d)
  /\ UNCHANGED <<overlap, spent>>

(* The threads end at the end of their pass, then the files are removed.    *)
ClearFiles == NoFile
EnginesEnd(d) ==
  /\ At(d, "daemon", "stopping")
  /\ proc' = [proc EXCEPT ![d] = Step(d, "leaving")]
  /\ file' = ClearFiles
  /\ UNCHANGED <<overlap, spent>>

Leave(d) ==
  /\ At(d, "daemon", "leaving")
  /\ Die(d)
  /\ UNCHANGED <<overlap, spent>>

-----------------------------------------------------------------------------
(* The machine.                                                             *)

Harm == spent.crashes < Crashes /\ spent' = [spent EXCEPT !.crashes = @ + 1]

Crash(d) == d \in Daemons /\ Harm /\ Die(d) /\ UNCHANGED overlap

Interrupt(d) ==
  /\ At(d, "daemon", "running")
  /\ Harm
  /\ proc' = [proc EXCEPT ![d] = Step(d, "stopping")]
  /\ UNCHANGED <<file, overlap>>

(* Some other program gets a pid.                                           *)
StrangerStarts(p) ==
  /\ p \in Free
  /\ overlap' = (overlap \/ ~Settled)
  /\ proc' = [proc EXCEPT ![p] = Stranger]
  /\ UNCHANGED <<file, spent>>

StrangerEnds(p) ==
  /\ proc[p] = Stranger
  /\ proc' = [proc EXCEPT ![p] = Nobody]
  /\ UNCHANGED <<file, overlap, spent>>

Command(p) ==
  \/ Look(p) \/ Judge(p) \/ GiveUp(p) \/ Fork(p)
  \/ Term(p) \/ Gone(p) \/ Kill(p) \/ Sweep(p)

Next == \E p \in Pid :
  \/ \E c \in {"start", "stop", "restart"} : Run(p, c)
  \/ Command(p)
  \/ Lock(p) \/ WritePid(p) \/ StartEngines(p) \/ EnginesEnd(p) \/ Leave(p)
  \/ Crash(p) \/ Interrupt(p) \/ StrangerStarts(p) \/ StrangerEnds(p)

Spec == Init /\ [][Next]_vars

(* A command runs to its end.  A pass may hang, so nothing is assumed of    *)
(* the daemon.                                                              *)
LiveSpec == Spec /\ \A p \in Pid : WF_vars(Command(p))

-----------------------------------------------------------------------------
(* Properties.                                                              *)

CliSteps == {"look", "judge", "refused", "fork", "term", "wait", "sweep"}
DaemonSteps == {"forked", "locked", "config", "running", "stopping", "leaving"}

(* Every process is one of the kinds below, and the lock of the pid file is *)
(* held by a process that runs.                                             *)
TypeOK ==
  /\ \A p \in Pid :
       \/ proc[p] \in {Nobody, Stranger}
       \/ proc[p].is = "cli" /\ proc[p].step \in CliSteps
       \/ proc[p].is = "daemon" /\ proc[p].step \in DaemonSteps
  /\ file.holder \in Pid \cup {None}
  /\ file.pid \in Pid \cup {Empty, "no file"}
  /\ file.holder # None => Alive(file.holder)
  /\ overlap \in BOOLEAN

(* At most one daemon syncs, if each command waits for the one before: two  *)
(* would work on the same directories and the same database (is_running,    *)
(* is_daemon_process).                                                      *)
OneDaemon == overlap \/ Cardinality(Syncing) <= 1

(* A daemon that runs can be found, by `stop` and by the next `start`.      *)
DaemonIsFound ==
  overlap \/ ~Settled \/ \A d \in Daemons : proc[d].step = "running" => file.pid = d

(* `stop` signals no process that another program runs under that pid.      *)
SparesStrangers ==
  overlap \/ \A p \in Pid : At(p, "cli", "term") => proc[proc[p].seen].is # "other"

(* A daemon `stop` has found does not outlive it, whatever its pass waits   *)
(* for (wait_for_exit).                                                     *)
StopEnds ==
  \A p, d \in Pid :
    (At(p, "cli", "term") /\ proc[p].seen = d /\ d \in Daemons) ~> d \notin Daemons
=============================================================================
