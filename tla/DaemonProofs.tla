---------------------------- MODULE DaemonProofs ----------------------------
(***************************************************************************)
(* What TLAPS proves of Daemon for every set of pids, any number of         *)
(* commands and of daemons that die: the types, and, for commands that wait *)
(* for each other, that one daemon syncs at most, that it can be found, and *)
(* that no stranger is signalled.                                           *)
(***************************************************************************)
EXTENDS Daemon, FiniteSetTheorems, TLAPS

-----------------------------------------------------------------------------
(* The inductive invariant.                                                 *)

(* What a process record holds; a daemon was forked by `start` or           *)
(* `restart`, and so was every command that gets as far as forking.         *)
Record == [is : {"none", "other", "cli", "daemon"},
           cmd : {"", "start", "stop", "restart"}, job : {"", "start", "stop"},
           step : {""} \cup CliSteps \cup DaemonSteps,
           seen : Pid \cup {Empty, None}]
Starts(c) == c \in {"start", "restart"}
Sane(r) ==
  /\ r \in Record
  /\ \/ r \in {Nobody, Stranger}
     \/ r.is = "cli" /\ r.step \in CliSteps
     \/ r.is = "daemon" /\ r.step \in DaemonSteps
  /\ r.is = "daemon" => Starts(r.cmd)
  /\ r.is = "cli" =>
       /\ r.job \in {"start", "stop"} /\ r.cmd # ""
       /\ r.job = "start" => Starts(r.cmd)
       /\ r.step = "fork" => r.job = "start"
       /\ r.step = "judge" => r.seen # None
       /\ r.step \in {"term", "wait"} => r.seen \in Pid
ProcOK == proc \in [Pid -> Record] /\ \A p \in Pid : Sane(proc[p])

(* The lock belongs to a daemon, and whoever holds it has a file to lock.   *)
FileOK ==
  /\ file \in [holder : Pid \cup {None}, pid : Pid \cup {Empty, "no file"}]
  /\ file.holder # None => proc[file.holder].is = "daemon" /\ file.pid # "no file"

(* A daemon that works on the directories, and one that is yet to.          *)
Syncs(d) == proc[d].is = "daemon" /\ proc[d].step \in {"running", "stopping"}
Starting(d) == proc[d].is = "daemon" /\ proc[d].step \in {"forked", "locked", "config"}

(* One command or starting daemon at a time.                                *)
Mover(p) == proc[p].is = "cli" \/ Starting(p)
OneMover == \A p, q \in Pid : Mover(p) /\ Mover(q) => p = q

(* The file names the daemon that syncs, from before it syncs.              *)
SyncingNamed == \A d \in Pid : Syncs(d) => file.pid = d
StartingNamed == \A d \in Pid :
  /\ At(d, "daemon", "locked") => file.holder = d
  /\ At(d, "daemon", "config") => file.pid = d

(* What a command has seen is the daemon that syncs, if one does; none does *)
(* when one is about to be forked, or starts.                               *)
Seeing(p) == proc[p].is = "cli" /\ proc[p].step \in {"judge", "term", "wait"}
SeenIsSyncing == \A p, d \in Pid : Seeing(p) /\ Syncs(d) => proc[p].seen = d
Clear(p) ==
  \/ Starting(p)
  \/ proc[p].is = "cli" /\ proc[p].step \in {"fork", "sweep"}
NoneSyncing == \A p, d \in Pid : Clear(p) => ~Syncs(d)

Alone == OneMover /\ SyncingNamed /\ StartingNamed /\ SeenIsSyncing /\ NoneSyncing
IInv == overlap \/ Alone
-----------------------------------------------------------------------------
(* The records the actions write.                                           *)
LEMMA Kinds ==
  /\ Sane(Nobody) /\ Sane(Stranger)
  /\ \A c \in {"start", "stop", "restart"}, j \in {"start", "stop"} :
       (j = "start" => Starts(c)) => Sane(Cli(c, j))
  /\ \A c \in {"start", "restart"} : Sane(Forked(c))
<1>1. Nobody \in Record
  BY DEF Record, Nobody
<1>2. Stranger.is = "other"
  BY DEF Stranger, Nobody
<1>3. Stranger \in Record
  BY DEF Record, Stranger, Nobody
<1>4. Sane(Nobody) /\ Sane(Stranger)
  BY <1>1, <1>2, <1>3 DEF Sane, Nobody
<1>5. ASSUME NEW c \in {"start", "stop", "restart"}, NEW j \in {"start", "stop"},
             j = "start" => Starts(c)
      PROVE  Sane(Cli(c, j))
  <2>1. Cli(c, j) \in Record
    BY DEF Cli, Record, CliSteps
  <2>2. QED
    BY <1>5, <2>1 DEF Sane, Cli, CliSteps
<1>6. ASSUME NEW c \in {"start", "restart"}
      PROVE  Sane(Forked(c))
  <2>1. Forked(c).is = "daemon" /\ Forked(c).cmd = c /\ Forked(c).step = "forked"
    BY DEF Forked, Nobody
  <2>2. Forked(c) \in Record
    BY DEF Record, DaemonSteps, Forked, Nobody
  <2>3. QED
    BY <2>1, <2>2 DEF Sane, Starts, DaemonSteps
<1>7. QED
  BY <1>4, <1>5, <1>6

(* A command goes on to another step, with all that step takes for granted. *)
LEMMA CliStep ==
  ASSUME ProcOK, NEW p \in Pid, proc[p].is = "cli", NEW s \in CliSteps,
         s = "fork" => proc[p].job = "start",
         s = "judge" => proc[p].seen # None,
         s \in {"term", "wait"} => proc[p].seen \in Pid
  PROVE  /\ Sane(Step(p, s))
         /\ Step(p, s).is = "cli" /\ Step(p, s).step = s
         /\ Step(p, s).seen = proc[p].seen
<1>1. proc[p] \in Record /\ Sane(proc[p])
  BY DEF ProcOK
<1>2. /\ Step(p, s).is = proc[p].is /\ Step(p, s).cmd = proc[p].cmd
      /\ Step(p, s).job = proc[p].job /\ Step(p, s).seen = proc[p].seen
      /\ Step(p, s).step = s
  BY <1>1 DEF Step, Record
<1>3. Step(p, s) \in Record
  BY <1>1 DEF Step, Record
<1>4. QED
  BY <1>1, <1>2, <1>3 DEF Sane

(* A daemon goes on to another step.                                        *)
LEMMA DaemonStep ==
  ASSUME ProcOK, NEW d \in Pid, proc[d].is = "daemon", NEW s \in DaemonSteps
  PROVE  /\ Sane(Step(d, s))
         /\ Step(d, s).is = "daemon" /\ Step(d, s).step = s
         /\ Step(d, s).seen = proc[d].seen
<1>1. proc[d] \in Record /\ Sane(proc[d])
  BY DEF ProcOK
<1>2. /\ Step(d, s).is = proc[d].is /\ Step(d, s).cmd = proc[d].cmd
      /\ Step(d, s).job = proc[d].job /\ Step(d, s).seen = proc[d].seen
      /\ Step(d, s).step = s
  BY <1>1 DEF Step, Record
<1>3. Step(d, s) \in Record
  BY <1>1 DEF Step, Record
<1>4. QED
  BY <1>1, <1>2, <1>3 DEF Sane

(* What a `stop` leaves: nobody, or the second half of a restart.           *)
LEMMA AfterStopping ==
  ASSUME ProcOK, NEW p \in Pid, proc[p].is = "cli"
  PROVE  /\ Sane(AfterStop(p))
         /\ \/ AfterStop(p) = Nobody
            \/ AfterStop(p).is = "cli" /\ AfterStop(p).step = "look"
BY Kinds DEF AfterStop, Cli, Starts

(* What is_running's answer leads to.                                       *)
LEMMA Answers ==
  ASSUME ProcOK, NEW p \in Pid, proc[p].is = "cli"
  PROVE  /\ Sane(Absent(p))
         /\ \/ Absent(p) = Nobody
            \/ Absent(p).is = "cli" /\ Absent(p).step \in {"look", "fork"}
         /\ proc[p].seen \in Pid =>
              /\ Sane(Present(p)) /\ Present(p).is = "cli"
              /\ Present(p).step \in {"term", "refused"}
              /\ Present(p).seen = proc[p].seen
<1>1. proc[p].job \in {"start", "stop"}
  BY DEF ProcOK, Sane
<1>2. CASE Stopping(p)
  BY <1>2, AfterStopping, CliStep DEF Absent, Present, CliSteps
<1>3. CASE ~Stopping(p)
  BY <1>1, <1>3, CliStep DEF Absent, Present, Stopping, CliSteps
<1>4. QED
  BY <1>2, <1>3

(* What a SIGTERM makes of a process.                                       *)
LEMMA Terminating ==
  ASSUME ProcOK, NEW q \in Pid
  PROVE  /\ Sane(Terminated(q))
         /\ \/ /\ Terminated(q) = Nobody
               /\ ~At(q, "daemon", "running") /\ ~At(q, "daemon", "stopping")
            \/ /\ At(q, "daemon", "leaving") /\ Terminated(q) = proc[q]
            \/ /\ q \in Syncing
               /\ Terminated(q).is = "daemon" /\ Terminated(q).step = "stopping"
<1>1. CASE proc[q].is = "daemon" /\ proc[q].step = "running"
  <2>1. Terminated(q) = Step(q, "stopping")
    BY <1>1 DEF Terminated
  <2>2. "stopping" \in DaemonSteps
    BY DEF DaemonSteps
  <2>3. QED
    BY <1>1, <2>1, <2>2, DaemonStep DEF Syncing, Daemons
<1>2. CASE proc[q].is = "daemon" /\ proc[q].step \in {"stopping", "leaving"}
  <2>1. Terminated(q) = proc[q]
    BY <1>2 DEF Terminated
  <2>2. QED
    BY <1>2, <2>1 DEF Syncing, Daemons, At, ProcOK
<1>3. CASE ~(proc[q].is = "daemon" /\ proc[q].step \in {"running", "stopping", "leaving"})
  BY <1>3, Kinds DEF Terminated, At
<1>4. QED
  BY <1>1, <1>2, <1>3

(* The type invariant in the two shapes the steps of the model have.        *)
LEMMA OneChange ==
  ASSUME ProcOK, NEW p \in Pid, NEW r, Sane(r), proc' = [proc EXCEPT ![p] = r]
  PROVE  /\ ProcOK' /\ proc'[p] = r
         /\ \A q \in Pid \ {p} : proc'[q] = proc[q]
BY DEF ProcOK, Sane

(* What is left when two processes change in one step.                      *)
LEMMA TwoChanges ==
  ASSUME ProcOK, NEW p \in Pid, NEW q \in Pid, NEW r, NEW t, Sane(r), Sane(t),
         proc' = [proc EXCEPT ![p] = r, ![q] = t]
  PROVE  /\ ProcOK'
         /\ proc'[q] = t
         /\ p # q => proc'[p] = r
         /\ \A o \in Pid : o # p /\ o # q => proc'[o] = proc[o]
<1> DEFINE f == [proc EXCEPT ![p] = r]
<1>1. r \in Record /\ t \in Record /\ proc \in [Pid -> Record]
  BY DEF ProcOK, Sane
<1>2. /\ f \in [Pid -> Record] /\ f[p] = r
      /\ \A o \in Pid \ {p} : f[o] = proc[o]
  BY <1>1
<1>3. proc' = [f EXCEPT ![q] = t]
  OBVIOUS
<1> HIDE DEF f
<1>4. /\ proc' \in [Pid -> Record] /\ proc'[q] = t
      /\ \A o \in Pid \ {q} : proc'[o] = f[o]
  BY <1>1, <1>2, <1>3
<1>5. \A o \in Pid : Sane(proc'[o])
  BY <1>2, <1>4 DEF ProcOK
<1>6. QED
  BY <1>2, <1>4, <1>5 DEF ProcOK

(* A process that ends lets go of the lock.                                 *)
LEMMA Releasing ==
  ASSUME FileOK, NEW d \in Pid
  PROVE  /\ Released(file, d) \in [holder : Pid \cup {None},
                                   pid : Pid \cup {Empty, "no file"}]
         /\ Released(file, d).pid = file.pid
         /\ Released(file, d).holder # d
         /\ Released(file, d).holder \in {file.holder, None}
         /\ file.holder # d => Released(file, d) = file
BY DaemonAssumption DEF FileOK, Released

(* A command acts on another process, which is a daemon still or has let go *)
(* of the lock.                                                             *)
LEMMA StillLocked ==
  ASSUME FileOK, NEW p \in Pid, proc[p].is = "cli", NEW q \in Pid,
         \A o \in Pid : o # p /\ o # q => proc'[o] = proc[o],
         \/ file' = Released(file, q)
         \/ file' = file /\ proc'[q].is = "daemon"
  PROVE  FileOK'
<1> USE DaemonAssumption
<1>1. /\ file.holder \in Pid \cup {None}
      /\ file.holder # None => proc[file.holder].is = "daemon" /\ file.holder # p
  BY DEF FileOK
<1>2. CASE file' = file /\ proc'[q].is = "daemon"
  BY <1>1, <1>2 DEF FileOK
<1>3. CASE file' = Released(file, q)
  <2>1. /\ file' \in [holder : Pid \cup {None}, pid : Pid \cup {Empty, "no file"}]
        /\ file'.pid = file.pid /\ file'.holder # q
        /\ file'.holder \in {file.holder, None}
    BY <1>3, Releasing
  <2>2. ASSUME file'.holder # None
        PROVE  proc'[file'.holder].is = "daemon" /\ file'.pid # "no file"
    <3>1. file'.holder = file.holder /\ file.holder \in Pid
          /\ file.holder # p /\ file.holder # q
      BY <1>1, <2>1, <2>2
    <3>2. proc'[file.holder] = proc[file.holder]
      BY <3>1
    <3>3. QED
      BY <1>1, <2>1, <2>2, <3>1, <3>2 DEF FileOK
  <2>3. QED
    BY <2>1, <2>2 DEF FileOK
<1>4. QED
  BY <1>2, <1>3
-----------------------------------------------------------------------------
(* Nothing runs at first.                                                   *)
LEMMA InitOK == Init => ProcOK /\ FileOK /\ overlap \in BOOLEAN
<1> USE DaemonAssumption, FileAssumption
<1> SUFFICES ASSUME Init PROVE ProcOK /\ FileOK /\ overlap \in BOOLEAN
  OBVIOUS
<1>1. Nobody \in Record
  BY Kinds DEF Sane
<1>2. QED
  BY <1>1, Kinds DEF Init, ProcOK, FileOK, NoFile

(* Every process is one of the kinds the code has, and the lock of the pid  *)
(* file is held by a daemon that runs.                                      *)
THEOREM TypeCorrect == Spec => [](TypeOK /\ ProcOK /\ FileOK)
<1> USE DaemonAssumption, FileAssumption
<1>0. ProcOK /\ FileOK /\ overlap \in BOOLEAN => TypeOK
  BY DEF TypeOK, ProcOK, FileOK, Sane, Alive
<1>1. Init => TypeOK /\ ProcOK /\ FileOK
  BY <1>0, InitOK
<1>2. TypeOK /\ ProcOK /\ FileOK /\ [Next]_vars => (TypeOK /\ ProcOK /\ FileOK)'
  <2> SUFFICES ASSUME ProcOK, FileOK, overlap \in BOOLEAN, [Next]_vars
               PROVE  ProcOK' /\ FileOK' /\ overlap' \in BOOLEAN
    BY DEF TypeOK, ProcOK, FileOK, Sane, Alive
  <2> USE DEF CliSteps, DaemonSteps, At
  <2>a. NoFile \in [holder : Pid \cup {None}, pid : Pid \cup {Empty, "no file"}]
        /\ NoFile.holder = None
    BY DEF NoFile
  <2>b. ASSUME NEW p \in Pid, NEW r, Sane(r), proc' = [proc EXCEPT ![p] = r],
               \/ file' = NoFile
               \/ file' = file /\ (r.is = "daemon" \/ proc[p].is # "daemon")
               \/ file' = Released(file, p)
        PROVE  ProcOK' /\ FileOK'
    <3>1. /\ ProcOK' /\ proc'[p] = r
          /\ \A q \in Pid \ {p} : proc'[q] = proc[q]
      BY <2>b, OneChange
    <3>2. CASE file' = NoFile
      BY <2>a, <3>1, <3>2 DEF FileOK
    <3>3. CASE file' = file /\ (r.is = "daemon" \/ proc[p].is # "daemon")
      <4>1. file \in [holder : Pid \cup {None}, pid : Pid \cup {Empty, "no file"}]
        BY DEF FileOK
      <4>2. file.holder # None =>
              /\ proc'[file.holder].is = "daemon"
              /\ file.pid # "no file"
        BY <3>1, <3>3, <4>1 DEF FileOK
      <4>3. QED
        BY <3>1, <3>3, <4>1, <4>2 DEF FileOK
    <3>4. CASE file' = Released(file, p)
      <4>1. /\ Released(file, p) \in [holder : Pid \cup {None},
                                      pid : Pid \cup {Empty, "no file"}]
            /\ Released(file, p).pid = file.pid
            /\ Released(file, p).holder # p
            /\ Released(file, p).holder \in {file.holder, None}
        BY Releasing
      <4>2. Released(file, p).holder # None =>
              /\ proc'[Released(file, p).holder].is = "daemon"
              /\ Released(file, p).pid # "no file"
        BY <3>1, <4>1 DEF FileOK
      <4>3. QED
        BY <3>1, <3>4, <4>1, <4>2 DEF FileOK
    <3>5. QED
      BY <2>b, <3>1, <3>2, <3>3, <3>4
  <2>1. ASSUME NEW p \in Pid, NEW c \in {"start", "stop", "restart"}, Run(p, c)
        PROVE  ProcOK' /\ FileOK' /\ overlap' \in BOOLEAN
    <3>1. Sane(Cli(c, IF c = "start" THEN "start" ELSE "stop"))
      BY Kinds DEF Starts
    <3>2. proc[p].is = "none"
      BY <2>1 DEF Run, Free, Alive
    <3>3. overlap' \in BOOLEAN
      BY <2>1 DEF Run, Settled
    <3>4. QED
      BY <2>1, <2>b, <3>1, <3>2, <3>3 DEF Run
  <2>2. ASSUME NEW p \in Pid, Look(p)
        PROVE  ProcOK' /\ FileOK' /\ overlap' \in BOOLEAN
    <3> DEFINE r == [Step(p, "judge") EXCEPT !.seen = file.pid]
    <3>1. proc[p].is = "cli" /\ UNCHANGED <<file, overlap>>
      BY <2>2 DEF Look
    <3>2. CASE file = NoFile
      BY <2>2, <2>b, <3>1, <3>2, Answers DEF Look
    <3>3. CASE file # NoFile
      <4>1. file.pid \in Pid \cup {Empty}
        BY <3>3 DEF FileOK, NoFile
      <4>2. proc[p] \in Record /\ Sane(proc[p])
        BY DEF ProcOK
      <4>3. /\ r.is = proc[p].is /\ r.cmd = proc[p].cmd /\ r.job = proc[p].job
            /\ r.step = "judge" /\ r.seen = file.pid
        BY <4>2 DEF Step, Record
      <4>4. r \in Record
        BY <4>1, <4>2 DEF Step, Record
      <4>5. file.pid # None
        BY <4>1 DEF Empty
      <4>6. Sane(r)
        BY <3>1, <4>2, <4>3, <4>4, <4>5 DEF Sane
      <4> HIDE DEF r
      <4>7. proc' = [proc EXCEPT ![p] = r]
        BY <2>2, <3>3 DEF Look, r
      <4>8. QED
        BY <2>b, <3>1, <4>6, <4>7
    <3>4. QED
      BY <3>2, <3>3
  <2>3. ASSUME NEW p \in Pid, Judge(p)
        PROVE  ProcOK' /\ FileOK' /\ overlap' \in BOOLEAN
    <3>1. proc[p].is = "cli" /\ proc[p].seen \in Pid \cup {Empty, None}
          /\ proc[p].seen # None /\ overlap' = overlap
      BY <2>3 DEF Judge, ProcOK, Sane, Record
    <3>2. \/ proc' = [proc EXCEPT ![p] = Absent(p)] /\ file' = NoFile
          \/ /\ proc' = [proc EXCEPT ![p] = Present(p)] /\ file' = file
             /\ proc[p].seen \in Pid
      BY <2>3, <3>1 DEF Judge
    <3>3. QED
      BY <2>b, <3>1, <3>2, Answers
  <2>4. ASSUME NEW p \in Pid, GiveUp(p)
        PROVE  ProcOK' /\ FileOK' /\ overlap' \in BOOLEAN
    BY <2>4, <2>b, Kinds DEF GiveUp
  <2>5. ASSUME NEW p \in Pid, Fork(p)
        PROVE  ProcOK' /\ FileOK' /\ overlap' \in BOOLEAN
    <3>1. proc[p].is = "cli" /\ Starts(proc[p].cmd) /\ UNCHANGED <<file, overlap>>
      BY <2>5 DEF Fork, ProcOK, Sane
    <3>2. CASE proc' = [proc EXCEPT ![p] = Nobody]
      BY <2>b, <3>1, <3>2, Kinds
    <3>3. ASSUME NEW d \in Free,
                 proc' = [proc EXCEPT ![p] = Nobody, ![d] = Forked(proc[p].cmd)]
          PROVE  ProcOK' /\ FileOK' /\ overlap' \in BOOLEAN
      <4>1. d \in Pid /\ Sane(Nobody) /\ Sane(Forked(proc[p].cmd)) /\ d # p
            /\ proc[d].is = "none"
        BY <3>1, <3>3, Kinds DEF Free, Alive, Starts
      <4>2. ProcOK' /\ \A o \in Pid : o # p /\ o # d => proc'[o] = proc[o]
        <5> DEFINE t == Forked(proc[p].cmd)
        <5>1. ProcOK /\ p \in Pid /\ d \in Pid /\ Sane(Nobody) /\ Sane(t)
              /\ proc' = [proc EXCEPT ![p] = Nobody, ![d] = t]
          BY <3>3, <4>1
        <5> HIDE DEF t
        <5>2. QED
          BY ONLY <5>1, TwoChanges, Zenon
      <4>3. FileOK'
        BY <3>1, <4>1, <4>2 DEF FileOK
      <4>4. QED
        BY <3>1, <4>2, <4>3
    <3>4. QED
      BY <2>5, <3>2, <3>3 DEF Fork
  <2>6. ASSUME NEW p \in Pid, Term(p)
        PROVE  ProcOK' /\ FileOK' /\ overlap' \in BOOLEAN
    <3>1. PICK q \in Pid : /\ q = proc[p].seen /\ proc[p].is = "cli"
                          /\ proc[p].step = "term" /\ overlap' = overlap
      BY <2>6 DEF Term, ProcOK, Sane
    <3>2. CASE ~Alive(q)
      BY <2>6, <2>b, <3>1, <3>2, AfterStopping DEF Term
    <3>3. CASE Alive(q)
      <4>1. Sane(Step(p, "wait"))
        BY <3>1, CliStep
      <4>2. /\ proc' = [proc EXCEPT ![p] = Step(p, "wait"), ![q] = Terminated(q)]
            /\ file' = IF Terminated(q) = Nobody THEN Released(file, q) ELSE file
        BY <2>6, <3>1, <3>3 DEF Term
      <4>3. /\ ProcOK' /\ proc'[q] = Terminated(q)
            /\ \A o \in Pid : o # p /\ o # q => proc'[o] = proc[o]
        <5> DEFINE r == Step(p, "wait")
                   t == Terminated(q)
        <5>1. ProcOK /\ p \in Pid /\ q \in Pid /\ Sane(r) /\ Sane(t)
              /\ proc' = [proc EXCEPT ![p] = r, ![q] = t]
          BY <3>1, <4>1, <4>2, Terminating
        <5> HIDE DEF r, t
        <5>2. /\ ProcOK'
              /\ proc'[q] = t
              /\ p # q => proc'[p] = r
              /\ \A o \in Pid : o # p /\ o # q => proc'[o] = proc[o]
          BY ONLY <5>1, TwoChanges, Zenon
        <5>3. QED
          BY <5>2 DEF t
      <4>4. Terminated(q) # Nobody => Terminated(q).is = "daemon"
        BY <3>1, Terminating
      <4>5. FileOK'
        <5>1. CASE Terminated(q) = Nobody
          BY <3>1, <4>2, <4>3, <5>1, StillLocked
        <5>2. CASE Terminated(q) # Nobody
          BY <3>1, <4>2, <4>3, <4>4, <5>2, StillLocked
        <5>3. QED
          BY <5>1, <5>2
      <4>6. QED
        BY <3>1, <4>3, <4>5
    <3>4. QED
      BY <3>2, <3>3
  <2>7. ASSUME NEW p \in Pid, Gone(p)
        PROVE  ProcOK' /\ FileOK' /\ overlap' \in BOOLEAN
    BY <2>7, <2>b, CliStep DEF Gone
  <2>8. ASSUME NEW p \in Pid, Kill(p)
        PROVE  ProcOK' /\ FileOK' /\ overlap' \in BOOLEAN
    <3>1. PICK q \in Pid : /\ q = proc[p].seen /\ proc[p].is = "cli"
                          /\ proc[p].step = "wait" /\ overlap' = overlap
      BY <2>8 DEF Kill, Timeout, ProcOK, Sane
    <3>2. Sane(Step(p, "sweep"))
      BY <3>1, CliStep
    <3>3. /\ proc' = [proc EXCEPT ![q] = Nobody, ![p] = Step(p, "sweep")]
          /\ file' = Released(file, q)
      BY <2>8, <3>1 DEF Kill
    <3>4. ProcOK' /\ \A o \in Pid : o # p /\ o # q => proc'[o] = proc[o]
      <4> DEFINE r == Step(p, "sweep")
      <4>1. ProcOK /\ p \in Pid /\ q \in Pid /\ Sane(Nobody) /\ Sane(r)
            /\ proc' = [proc EXCEPT ![q] = Nobody, ![p] = r]
        BY <3>1, <3>2, <3>3, Kinds
      <4> HIDE DEF r
      <4>2. /\ ProcOK'
            /\ proc'[p] = r
            /\ q # p => proc'[q] = Nobody
            /\ \A o \in Pid : o # q /\ o # p => proc'[o] = proc[o]
        BY ONLY <4>1, TwoChanges, Zenon
      <4>3. QED
        BY <4>2
    <3>5. FileOK'
      BY <3>1, <3>3, <3>4, StillLocked
    <3>6. QED
      BY <3>1, <3>4, <3>5
  <2>9. ASSUME NEW p \in Pid, Sweep(p)
        PROVE  ProcOK' /\ FileOK' /\ overlap' \in BOOLEAN
    BY <2>9, <2>b, AfterStopping DEF Sweep
  <2>10. ASSUME NEW p \in Pid, Lock(p)
         PROVE  ProcOK' /\ FileOK' /\ overlap' \in BOOLEAN
    <3>1. CASE file.holder # None
      BY <2>10, <2>b, <3>1, Kinds DEF Lock, Die
    <3>2. CASE file.holder = None
      <4>1. /\ proc' = [proc EXCEPT ![p] = Step(p, "locked")]
            /\ file' = [holder |-> p,
                        pid |-> IF file = NoFile THEN Empty ELSE file.pid]
            /\ proc[p].is = "daemon" /\ overlap' = overlap
        BY <2>10, <3>2 DEF Lock
      <4>2. ProcOK' /\ proc'[p].is = "daemon"
        <5>1. Sane(Step(p, "locked")) /\ Step(p, "locked").is = "daemon"
          BY <4>1, DaemonStep
        <5>2. QED
          BY <4>1, <5>1, OneChange
      <4>3. file # NoFile => file.pid \in Pid \cup {Empty}
        BY <3>2 DEF FileOK, NoFile
      <4>4. FileOK'
        BY <4>1, <4>2, <4>3 DEF FileOK, Empty
      <4>5. QED
        BY <4>1, <4>2, <4>4
    <3>3. QED
      BY <3>1, <3>2
  <2>11. ASSUME NEW p \in Pid, WritePid(p)
         PROVE  ProcOK' /\ FileOK' /\ overlap' \in BOOLEAN
    <3>1. /\ proc' = [proc EXCEPT ![p] = Step(p, "config")]
          /\ file' = IF file.holder = p THEN [file EXCEPT !.pid = p] ELSE file
          /\ proc[p].is = "daemon" /\ overlap' = overlap
      BY <2>11 DEF WritePid
    <3>2. /\ ProcOK' /\ proc'[p].is = "daemon"
          /\ \A o \in Pid \ {p} : proc'[o] = proc[o]
      <4>1. Sane(Step(p, "config")) /\ Step(p, "config").is = "daemon"
        BY <3>1, DaemonStep
      <4>2. QED
        BY <3>1, <4>1, OneChange
    <3>3. FileOK'
      BY <3>1, <3>2 DEF FileOK
    <3>4. QED
      BY <3>1, <3>2, <3>3
  <2>12. ASSUME NEW p \in Pid, StartEngines(p)
         PROVE  ProcOK' /\ FileOK' /\ overlap' \in BOOLEAN
    BY <2>12, <2>b, Kinds, DaemonStep DEF StartEngines, Die
  <2>13. ASSUME NEW p \in Pid, EnginesEnd(p)
         PROVE  ProcOK' /\ FileOK' /\ overlap' \in BOOLEAN
    BY <2>13, <2>b, DaemonStep DEF EnginesEnd, ClearFiles
  <2>14. ASSUME NEW p \in Pid, Leave(p) \/ Crash(p)
         PROVE  ProcOK' /\ FileOK' /\ overlap' \in BOOLEAN
    BY <2>14, <2>b, Kinds DEF Leave, Crash, Die
  <2>15. ASSUME NEW p \in Pid, Interrupt(p)
         PROVE  ProcOK' /\ FileOK' /\ overlap' \in BOOLEAN
    BY <2>15, <2>b, DaemonStep DEF Interrupt
  <2>16. ASSUME NEW p \in Pid, StrangerStarts(p)
         PROVE  ProcOK' /\ FileOK' /\ overlap' \in BOOLEAN
    <3>1. proc[p].is = "none" /\ overlap' \in BOOLEAN
      BY <2>16 DEF StrangerStarts, Free, Alive, Settled
    <3>2. QED
      BY <2>16, <2>b, <3>1, Kinds DEF StrangerStarts
  <2>17. ASSUME NEW p \in Pid, StrangerEnds(p)
         PROVE  ProcOK' /\ FileOK' /\ overlap' \in BOOLEAN
    BY <2>17, <2>b, Kinds DEF StrangerEnds, Stranger, Nobody
  <2>18. CASE UNCHANGED vars
    BY <2>18 DEF vars, ProcOK, FileOK
  <2>19. QED
    BY <2>1, <2>2, <2>3, <2>4, <2>5, <2>6, <2>7, <2>8, <2>9, <2>10, <2>11,
       <2>12, <2>13, <2>14, <2>15, <2>16, <2>17, <2>18
       DEF Next, Command
<1>3. QED
  BY <1>1, <1>2, PTL DEF Spec

(* An overlap is never forgotten.                                           *)
LEMMA OverlapStays == Next /\ overlap => overlap'
BY DEF Next, Command, Run, Look, Judge, GiveUp, Fork, Term, Gone, Kill, Timeout,
   Sweep, Lock, WritePid, StartEngines, EnginesEnd, Leave, Crash, Interrupt,
   StrangerStarts, StrangerEnds
-----------------------------------------------------------------------------
(* One process at a time, first as one that acts ...                        *)
LEMMA MoverActs ==
  ASSUME Alone, NEW p \in Pid, Mover(p) \/ \A q \in Pid : ~Mover(q),
         \A q \in Pid : q # p => proc'[q] = proc[q],
         At(p, "daemon", "locked")' => file'.holder = p,
         At(p, "daemon", "config")' => file'.pid = p,
         Syncs(p)' => file'.pid = p,
         \A d \in Pid : d # p /\ Syncs(d) =>
           /\ file'.pid = d /\ ~Clear(p)'
           /\ Seeing(p)' => proc'[p].seen = d
  PROVE  Alone'
<1> USE DEF Alone, Mover, Starting, Syncs, Seeing, Clear, At
<1>1. \A q \in Pid : Mover(q) => q = p
  BY DEF OneMover
<1>2. OneMover'
  BY <1>1 DEF OneMover
<1>3. SyncingNamed'
  BY DEF SyncingNamed
<1>4. StartingNamed'
  BY <1>1 DEF StartingNamed
<1>5. SeenIsSyncing'
  BY <1>1 DEF SeenIsSyncing
<1>6. NoneSyncing'
  BY <1>1 DEF NoneSyncing
<1>7. QED
  BY <1>2, <1>3, <1>4, <1>5, <1>6

(* ... and then as one that comes, goes or ends beside them.                *)
LEMMA OtherActs ==
  ASSUME Alone, NEW p \in Pid, ~Mover(p)',
         \A q \in Pid : q # p => proc'[q] = proc[q],
         Syncs(p)' => Syncs(p),
         file'.pid = file.pid,
         file'.holder # file.holder => file.holder = p
  PROVE  Alone'
<1> USE DEF Alone, Mover, Starting, Syncs, Seeing, Clear, At
<1>1. OneMover'
  BY DEF OneMover
<1>2. SyncingNamed'
  BY DEF SyncingNamed
<1>3. StartingNamed'
  BY DEF StartingNamed
<1>4. SeenIsSyncing'
  BY DEF SeenIsSyncing
<1>5. NoneSyncing'
  BY DEF NoneSyncing
<1>6. QED
  BY <1>1, <1>2, <1>3, <1>4, <1>5

(* A daemon that ends disturbs nobody.                                      *)
LEMMA Ends ==
  ASSUME ProcOK, FileOK, Alone, NEW d \in Pid, Die(d)
  PROVE  Alone'
<1>1. proc'[d] = Nobody /\ \A q \in Pid : q # d => proc'[q] = proc[q]
  BY DEF Die, ProcOK
<1>2. Nobody.is = "none"
  BY DEF Nobody
<1>3. file'.pid = file.pid /\ (file'.holder # file.holder => file.holder = d)
  BY Releasing DEF Die
<1>4. QED
  BY <1>1, <1>2, <1>3, OtherActs DEF Mover, Starting, Syncs

(* The daemon a command has found is the one that syncs; any other pid in   *)
(* its hands is of a process that does not.                                 *)
LEMMA Found ==
  ASSUME ProcOK, Alone, NEW d \in Pid, Syncs(d)
  PROVE  /\ Alive(d) /\ DaemonArgs(d)
         /\ \A o \in Pid : Syncs(o) => o = d
         /\ file.pid = d /\ file # NoFile
<1>1. /\ proc[d].is = "daemon" /\ proc[d].cmd \in {"start", "restart"}
      /\ \A o \in Pid : Syncs(o) => file.pid = o
      /\ file.pid = d
  BY DEF ProcOK, Sane, Starts, Alone, Syncs, SyncingNamed
<1>2. file # NoFile
  <2>1. "no file" \notin Pid
    BY FileAssumption
  <2>2. NoFile.pid = "no file"
    BY DEF NoFile
  <2>3. QED
    BY <1>1, <2>1, <2>2
<1>3. QED
  BY <1>1, <1>2 DEF Alive, DaemonArgs

(* Every step that makes no two commands overlap keeps Alone.               *)
LEMMA AloneInvariance ==
  ASSUME ProcOK, FileOK, Alone, Next, ~overlap', ProcOK', FileOK'
  PROVE  Alone'
<1> USE DaemonAssumption, FileAssumption
<1> USE DEF At
<1>a. Nobody.is = "none" /\ Stranger.is = "other"
  BY DEF Nobody, Stranger
<1>1. ASSUME NEW p \in Pid, NEW c \in {"start", "stop", "restart"}, Run(p, c)
      PROVE  Alone'
  <2> DEFINE r == Cli(c, IF c = "start" THEN "start" ELSE "stop")
  <2>1. r.is = "cli" /\ r.step = "look"
    BY DEF Cli
  <2> HIDE DEF r
  <2>2. /\ proc' = [proc EXCEPT ![p] = r] /\ file' = file
        /\ proc[p].is = "none" /\ Settled
    BY <1>1 DEF Run, Free, Alive, r
  <2>3. \A q \in Pid : ~Mover(q)
    BY <2>2 DEF Settled, Syncing, Daemons, Mover, Starting
  <2>4. proc'[p] = r /\ \A q \in Pid : q # p => proc'[q] = proc[q]
    BY <2>2 DEF ProcOK
  <2>5. ~Clear(p)' /\ ~Seeing(p)' /\ ~Syncs(p)'
    BY <2>1, <2>4 DEF Clear, Seeing, Syncs, Starting
  <2>6. QED
    BY <2>1, <2>2, <2>3, <2>4, <2>5, MoverActs DEF Alone, SyncingNamed
<1>2. ASSUME NEW p \in Pid, Look(p)
      PROVE  Alone'
  <2>1. proc[p].is = "cli" /\ proc[p].step = "look" /\ file' = file
    BY <1>2 DEF Look
  <2>2. CASE file = NoFile
    <3> DEFINE r == Absent(p)
    <3>1. r = Nobody \/ (r.is = "cli" /\ r.step \in {"look", "fork"})
      BY <2>1, Answers
    <3>2. proc' = [proc EXCEPT ![p] = r]
      BY <1>2, <2>2 DEF Look
    <3> HIDE DEF r
    <3>3. proc'[p] = r /\ \A q \in Pid : q # p => proc'[q] = proc[q]
      BY <3>2 DEF ProcOK
    <3>4. \A d \in Pid : ~Syncs(d)
      BY <2>2, Found
    <3>5. QED
      BY <1>a, <2>1, <3>1, <3>3, <3>4, MoverActs DEF Mover, Syncs
  <2>3. CASE file # NoFile
    <3> DEFINE r == [Step(p, "judge") EXCEPT !.seen = file.pid]
    <3>1. r.is = "cli" /\ r.step = "judge" /\ r.seen = file.pid
      BY <2>1 DEF Step, ProcOK, Record
    <3>2. proc' = [proc EXCEPT ![p] = r]
      BY <1>2, <2>3 DEF Look
    <3> HIDE DEF r
    <3>3. proc'[p] = r /\ \A q \in Pid : q # p => proc'[q] = proc[q]
      BY <3>2 DEF ProcOK
    <3>4. ~Clear(p)' /\ ~Syncs(p)'
      BY <3>1, <3>3 DEF Clear, Syncs, Starting
    <3>5. QED
      BY <2>1, <3>1, <3>3, <3>4, MoverActs DEF Mover, Alone, SyncingNamed
  <2>4. QED
    BY <2>2, <2>3
<1>3. ASSUME NEW p \in Pid, Judge(p)
      PROVE  Alone'
  <2> DEFINE q == proc[p].seen
             found == q # Empty /\ Alive(q) /\ DaemonArgs(q)
  <2>1. proc[p].is = "cli" /\ proc[p].step = "judge" /\ q \in Pid \cup {Empty}
    BY <1>3 DEF Judge, ProcOK, Sane, Record
  <2>2. \A d \in Pid : Syncs(d) => q = d
    BY <2>1 DEF Alone, SeenIsSyncing, Seeing
  <2>3. CASE found
    <3> DEFINE r == Present(p)
    <3>1. r.is = "cli" /\ r.step \in {"term", "refused"} /\ r.seen = q
      BY <2>1, <2>3, Answers
    <3>2. proc' = [proc EXCEPT ![p] = r] /\ file' = file
      BY <1>3, <2>3 DEF Judge
    <3> HIDE DEF r
    <3>3. proc'[p] = r /\ \A o \in Pid : o # p => proc'[o] = proc[o]
      BY <3>2 DEF ProcOK
    <3>4. ~Clear(p)' /\ ~Syncs(p)'
      BY <3>1, <3>3 DEF Clear, Syncs, Starting
    <3>5. QED
      BY <2>1, <2>2, <3>1, <3>2, <3>3, <3>4, MoverActs
         DEF Mover, Alone, SyncingNamed
  <2>4. CASE ~found
    <3> DEFINE r == Absent(p)
    <3>1. r = Nobody \/ (r.is = "cli" /\ r.step \in {"look", "fork"})
      BY <2>1, Answers
    <3>2. proc' = [proc EXCEPT ![p] = r]
      BY <1>3, <2>4 DEF Judge
    <3> HIDE DEF r
    <3>3. proc'[p] = r /\ \A o \in Pid : o # p => proc'[o] = proc[o]
      BY <3>2 DEF ProcOK
    <3>4. \A d \in Pid : ~Syncs(d)
      BY <2>2, <2>4, Found
    <3>5. QED
      BY <1>a, <2>1, <3>1, <3>3, <3>4, MoverActs DEF Mover, Syncs
  <2>5. QED
    BY <2>3, <2>4
<1>4. ASSUME NEW p \in Pid, GiveUp(p)
      PROVE  Alone'
  <2>1. proc[p].is = "cli" /\ proc' = [proc EXCEPT ![p] = Nobody] /\ file' = file
    BY <1>4 DEF GiveUp
  <2>2. proc'[p] = Nobody /\ \A q \in Pid : q # p => proc'[q] = proc[q]
    BY <2>1 DEF ProcOK
  <2>3. QED
    BY <1>a, <2>1, <2>2, OtherActs DEF Mover, Starting, Syncs
<1>5. ASSUME NEW p \in Pid, Fork(p)
      PROVE  Alone'
  <2>1. proc[p].is = "cli" /\ proc[p].step = "fork" /\ file' = file
    BY <1>5 DEF Fork
  <2>2. CASE proc' = [proc EXCEPT ![p] = Nobody]
    <3>1. proc'[p] = Nobody /\ \A q \in Pid : q # p => proc'[q] = proc[q]
      BY <2>2 DEF ProcOK
    <3>2. QED
      BY <1>a, <2>1, <3>1, OtherActs DEF Mover, Starting, Syncs
  <2>3. ASSUME NEW d \in Free,
               proc' = [proc EXCEPT ![p] = Nobody, ![d] = Forked(proc[p].cmd)]
        PROVE  Alone'
    <3> DEFINE t == Forked(proc[p].cmd)
    <3>1. t.is = "daemon" /\ t.step = "forked"
      BY DEF Forked, Nobody
    <3>2. d \in Pid /\ proc[d].is = "none" /\ d # p
      BY <2>1 DEF Free, Alive
    <3> HIDE DEF t
    <3>3. /\ proc'[p] = Nobody /\ proc'[d] = t
          /\ \A o \in Pid : o # p /\ o # d => proc'[o] = proc[o]
      BY <2>3, <3>2 DEF t, ProcOK
    <3>4. \A q \in Pid : Mover(q) => q = p
      BY <2>1 DEF Alone, OneMover, Mover
    <3>5. \A q \in Pid : ~Syncs(q)
      BY <2>1 DEF Alone, NoneSyncing, Clear
    <3>6. /\ \A q \in Pid : Mover(q)' => q = d
          /\ \A q \in Pid : ~Syncs(q)'
      BY <1>a, <3>1, <3>2, <3>3, <3>4, <3>5 DEF Mover, Starting, Syncs
    <3>7. QED
      BY <3>1, <3>3, <3>6 DEF Alone, OneMover, SyncingNamed, StartingNamed,
         SeenIsSyncing, NoneSyncing, Mover, Starting
  <2>4. QED
    BY <1>5, <2>2, <2>3 DEF Fork
<1>6. ASSUME NEW p \in Pid, Term(p)
      PROVE  Alone'
  <2>1. PICK q \in Pid : /\ q = proc[p].seen /\ proc[p].is = "cli"
                        /\ proc[p].step = "term"
    BY <1>6 DEF Term, ProcOK, Sane
  <2>2. \A d \in Pid : Syncs(d) => q = d
    BY <2>1 DEF Alone, SeenIsSyncing, Seeing
  <2>3. CASE ~Alive(q)
    <3> DEFINE r == AfterStop(p)
    <3>1. r = Nobody \/ (r.is = "cli" /\ r.step \in {"look", "fork"})
      BY <2>1, AfterStopping
    <3>2. proc' = [proc EXCEPT ![p] = r]
      BY <1>6, <2>1, <2>3 DEF Term
    <3> HIDE DEF r
    <3>3. proc'[p] = r /\ \A o \in Pid : o # p => proc'[o] = proc[o]
      BY <3>2 DEF ProcOK
    <3>4. \A d \in Pid : ~Syncs(d)
      BY <2>2, <2>3, Found
    <3>5. QED
      BY <1>a, <2>1, <3>1, <3>3, <3>4, MoverActs DEF Mover, Syncs
  <2>4. CASE Alive(q)
    <3> DEFINE r == Step(p, "wait")
               t == Terminated(q)
    <3>1. /\ proc' = [proc EXCEPT ![p] = r, ![q] = t]
          /\ file' = IF t = Nobody THEN Released(file, q) ELSE file
      BY <1>6, <2>1, <2>4 DEF Term
    <3>2. r.is = "cli" /\ r.step = "wait" /\ r.seen = q
      BY <2>1 DEF Step, ProcOK, Record
    <3>3. \/ t = Nobody
          \/ t.is = "daemon" /\ t.step = "leaving"
          \/ t.is = "daemon" /\ t.step = "stopping" /\ Syncs(q)
      BY Terminating DEF Syncing, Daemons, Syncs
    <3>4. file'.pid = file.pid
      BY <3>1, Releasing
    <3> HIDE DEF r, t
    <3>5. /\ proc'[q] = t
          /\ p # q => proc'[p] = r
          /\ \A o \in Pid : o # p /\ o # q => proc'[o] = proc[o]
      BY <3>1 DEF ProcOK
    <3>6. \A o \in Pid : Mover(o) => o = p
      BY <2>1 DEF Alone, OneMover, Mover
    <3>7. /\ \A o \in Pid : Mover(o)' => o = p /\ proc'[p] = r
          /\ \A o \in Pid : Syncs(o)' => Syncs(o)
      BY <1>a, <3>2, <3>3, <3>5, <3>6 DEF Mover, Starting, Syncs
    <3>8. \A o \in Pid : Syncs(o)' => o = q /\ file'.pid = o
      BY <2>2, <3>4, <3>7 DEF Alone, SyncingNamed
    <3>9. \A o \in Pid : Mover(o)' => o = p /\ ~Starting(o)' /\ ~Clear(o)'
      BY <3>2, <3>7 DEF Starting, Clear
    <3>10. SeenIsSyncing'
      BY <3>2, <3>7, <3>8 DEF SeenIsSyncing, Seeing, Mover
    <3>11. QED
      BY <3>8, <3>9, <3>10 DEF Alone, OneMover, SyncingNamed, StartingNamed,
         NoneSyncing, Mover, Starting, Clear
  <2>5. QED
    BY <2>3, <2>4
<1>7. ASSUME NEW p \in Pid, Gone(p)
      PROVE  Alone'
  <2> DEFINE r == Step(p, "sweep")
  <2>1. /\ proc[p].is = "cli" /\ proc[p].step = "wait" /\ ~Alive(proc[p].seen)
        /\ proc' = [proc EXCEPT ![p] = r]
    BY <1>7 DEF Gone
  <2>2. r.is = "cli" /\ r.step = "sweep"
    BY <2>1 DEF Step, ProcOK, Record
  <2> HIDE DEF r
  <2>3. proc'[p] = r /\ \A o \in Pid : o # p => proc'[o] = proc[o]
    BY <2>1 DEF ProcOK
  <2>4. \A d \in Pid : ~Syncs(d)
    BY <2>1, Found DEF Alone, SeenIsSyncing, Seeing
  <2>5. QED
    BY <2>1, <2>2, <2>3, <2>4, MoverActs DEF Mover, Syncs
<1>8. ASSUME NEW p \in Pid, Kill(p)
      PROVE  Alone'
  <2>1. PICK q \in Pid : /\ q = proc[p].seen /\ proc[p].is = "cli"
                        /\ proc[p].step = "wait"
    BY <1>8 DEF Kill, Timeout, ProcOK, Sane
  <2> DEFINE r == Step(p, "sweep")
  <2>2. proc' = [proc EXCEPT ![q] = Nobody, ![p] = r]
    BY <1>8, <2>1 DEF Kill
  <2>3. r.is = "cli" /\ r.step = "sweep"
    BY <2>1 DEF Step, ProcOK, Record
  <2> HIDE DEF r
  <2>4. /\ proc'[p] = r
        /\ q # p => proc'[q] = Nobody
        /\ \A o \in Pid : o # p /\ o # q => proc'[o] = proc[o]
    BY <2>2 DEF ProcOK
  <2>5. \A d \in Pid : Syncs(d) => q = d
    BY <2>1 DEF Alone, SeenIsSyncing, Seeing
  <2>6. \A o \in Pid : Mover(o) => o = p
    BY <2>1 DEF Alone, OneMover, Mover
  <2>7. \A o \in Pid : (Mover(o)' => o = p) /\ ~Syncs(o)'
    BY <1>a, <2>3, <2>4, <2>5, <2>6 DEF Mover, Starting, Syncs
  <2>8. QED
    BY <2>3, <2>4, <2>7 DEF Alone, OneMover, SyncingNamed, StartingNamed,
       SeenIsSyncing, NoneSyncing, Mover, Starting

<1>9. ASSUME NEW p \in Pid, Sweep(p)
      PROVE  Alone'
  <2> DEFINE r == AfterStop(p)
  <2>1. /\ proc[p].is = "cli" /\ proc[p].step = "sweep"
        /\ proc' = [proc EXCEPT ![p] = r]
    BY <1>9 DEF Sweep
  <2>2. r = Nobody \/ (r.is = "cli" /\ r.step \in {"look", "fork"})
    BY <2>1, AfterStopping
  <2> HIDE DEF r
  <2>3. proc'[p] = r /\ \A o \in Pid : o # p => proc'[o] = proc[o]
    BY <2>1 DEF ProcOK
  <2>4. \A d \in Pid : ~Syncs(d)
    BY <2>1 DEF Alone, NoneSyncing, Clear
  <2>5. QED
    BY <1>a, <2>1, <2>2, <2>3, <2>4, MoverActs DEF Mover, Syncs
<1>10. ASSUME NEW p \in Pid, Lock(p)
       PROVE  Alone'
  <2>1. proc[p].is = "daemon" /\ proc[p].step = "forked"
    BY <1>10 DEF Lock
  <2>2. CASE file.holder # None
    BY <1>10, <2>2, Ends DEF Lock
  <2>3. CASE file.holder = None
    <3> DEFINE r == Step(p, "locked")
    <3>1. proc' = [proc EXCEPT ![p] = r] /\ file'.holder = p
      <4>1. /\ proc' = [proc EXCEPT ![p] = r]
            /\ file' = [holder |-> p, pid |-> IF file = NoFile THEN Empty ELSE file.pid]
        BY <1>10, <2>3 DEF Lock
      <4>2. QED
        BY <4>1
    <3>2. r.is = "daemon" /\ r.step = "locked"
      BY <2>1 DEF Step, ProcOK, Record
    <3> HIDE DEF r
    <3>3. proc'[p] = r /\ \A o \in Pid : o # p => proc'[o] = proc[o]
      BY <3>1 DEF ProcOK
    <3>4. \A d \in Pid : ~Syncs(d)
      BY <2>1 DEF Alone, NoneSyncing, Clear, Starting
    <3>5. QED
      BY <2>1, <3>1, <3>2, <3>3, <3>4, MoverActs DEF Mover, Starting, Syncs
  <2>4. QED
    BY <2>2, <2>3
<1>11. ASSUME NEW p \in Pid, WritePid(p)
       PROVE  Alone'
  <2> DEFINE r == Step(p, "config")
  <2>1. proc[p].is = "daemon" /\ proc[p].step = "locked" /\ file.holder = p
    BY <1>11 DEF WritePid, Alone, StartingNamed
  <2>2. proc' = [proc EXCEPT ![p] = r] /\ file'.pid = p
    BY <1>11, <2>1 DEF WritePid, FileOK
  <2>3. r.is = "daemon" /\ r.step = "config"
    BY <2>1 DEF Step, ProcOK, Record
  <2> HIDE DEF r
  <2>4. proc'[p] = r /\ \A o \in Pid : o # p => proc'[o] = proc[o]
    BY <2>2 DEF ProcOK
  <2>5. \A d \in Pid : ~Syncs(d)
    BY <2>1 DEF Alone, NoneSyncing, Clear, Starting
  <2>6. QED
    BY <2>1, <2>2, <2>3, <2>4, <2>5, MoverActs DEF Mover, Starting, Syncs
<1>12. ASSUME NEW p \in Pid, StartEngines(p)
       PROVE  Alone'
  <2> DEFINE r == Step(p, "running")
  <2>1. proc[p].is = "daemon" /\ proc[p].step = "config" /\ file.pid = p
    BY <1>12 DEF StartEngines, Alone, StartingNamed
  <2>2. CASE proc' = [proc EXCEPT ![p] = r] /\ UNCHANGED file
    <3>1. r.is = "daemon" /\ r.step = "running"
      BY <2>1 DEF Step, ProcOK, Record
    <3> HIDE DEF r
    <3>2. proc'[p] = r /\ \A o \in Pid : o # p => proc'[o] = proc[o]
      BY <2>2 DEF ProcOK
    <3>3. \A d \in Pid : ~Syncs(d)
      BY <2>1 DEF Alone, NoneSyncing, Clear, Starting
    <3>4. QED
      BY <2>1, <2>2, <3>1, <3>2, <3>3, MoverActs DEF Mover, Starting, Syncs
  <2>3. CASE Die(p)
    BY <2>3, Ends
  <2>4. QED
    BY <1>12, <2>2, <2>3 DEF StartEngines
<1>13. ASSUME NEW p \in Pid, EnginesEnd(p)
       PROVE  Alone'
  <2> DEFINE r == Step(p, "leaving")
  <2>1. /\ proc[p].is = "daemon" /\ proc[p].step = "stopping" /\ Syncs(p)
        /\ proc' = [proc EXCEPT ![p] = r]
    BY <1>13 DEF EnginesEnd, Syncs
  <2>2. r.is = "daemon" /\ r.step = "leaving"
    BY <2>1 DEF Step, ProcOK, Record
  <2> HIDE DEF r
  <2>3. proc'[p] = r /\ \A o \in Pid : o # p => proc'[o] = proc[o]
    BY <2>1 DEF ProcOK
  <2>4. \A d \in Pid : ~Syncs(d)'
    BY <2>1, <2>2, <2>3, Found DEF Syncs
  <2>5. \A d \in Pid : ~Starting(d)' /\ (Mover(d)' => Mover(d))
    BY <2>1, <2>2, <2>3 DEF Alone, NoneSyncing, Clear, Starting, Mover
  <2>6. QED
    BY <2>4, <2>5 DEF Alone, OneMover, SyncingNamed, StartingNamed,
       SeenIsSyncing, NoneSyncing, Starting
<1>14. ASSUME NEW p \in Pid, Leave(p) \/ Crash(p)
       PROVE  Alone'
  BY <1>14, Ends DEF Leave, Crash
<1>15. ASSUME NEW p \in Pid, Interrupt(p)
       PROVE  Alone'
  <2> DEFINE r == Step(p, "stopping")
  <2>1. /\ proc[p].is = "daemon" /\ proc[p].step = "running" /\ Syncs(p)
        /\ proc' = [proc EXCEPT ![p] = r] /\ file' = file
    BY <1>15 DEF Interrupt, Syncs
  <2>2. r.is = "daemon" /\ r.step = "stopping"
    BY <2>1 DEF Step, ProcOK, Record
  <2> HIDE DEF r
  <2>3. proc'[p] = r /\ \A o \in Pid : o # p => proc'[o] = proc[o]
    BY <2>1 DEF ProcOK
  <2>4. QED
    BY <2>1, <2>2, <2>3, OtherActs DEF Mover, Starting
<1>16. ASSUME NEW p \in Pid, StrangerStarts(p)
       PROVE  Alone'
  <2>1. p \in Pid /\ proc' = [proc EXCEPT ![p] = Stranger] /\ file' = file
    BY <1>16 DEF StrangerStarts
  <2>2. proc'[p] = Stranger /\ \A o \in Pid : o # p => proc'[o] = proc[o]
    BY <2>1 DEF ProcOK
  <2>3. QED
    BY <1>a, <2>1, <2>2, OtherActs DEF Mover, Starting, Syncs
<1>17. ASSUME NEW p \in Pid, StrangerEnds(p)
       PROVE  Alone'
  <2>1. p \in Pid /\ proc' = [proc EXCEPT ![p] = Nobody] /\ file' = file
    BY <1>17 DEF StrangerEnds
  <2>2. proc'[p] = Nobody /\ \A o \in Pid : o # p => proc'[o] = proc[o]
    BY <2>1 DEF ProcOK
  <2>3. QED
    BY <1>a, <2>1, <2>2, OtherActs DEF Mover, Starting, Syncs
<1>18. QED
  BY <1>1, <1>2, <1>3, <1>4, <1>5, <1>6, <1>7, <1>8, <1>9, <1>10, <1>11, <1>12,
     <1>13, <1>14, <1>15, <1>16, <1>17 DEF Next, Command
-----------------------------------------------------------------------------
(* A stop has in its hands a process that no other program runs: it judged  *)
(* the process before, and a program that takes its pid since is noted.     *)
Spared == \A p \in Pid : At(p, "cli", "term") => proc[proc[p].seen].is # "other"

(* No step puts a stranger under a pid that is being signalled.             *)
LEMMA SparedInvariance ==
  ASSUME ProcOK, FileOK, Spared, Next, ~overlap', ProcOK'
  PROVE  Spared'
<1> USE DaemonAssumption, FileAssumption
<1> USE DEF At
<1>a. Nobody.is = "none" /\ Stranger.is = "other"
  BY DEF Nobody, Stranger
<1>b. \A p \in Pid : proc[p].is = "cli" /\ proc[p].step = "term" => proc[p].seen \in Pid
  BY DEF ProcOK, Sane
<1>1. ASSUME \A o \in Pid : At(o, "cli", "term")' =>
               At(o, "cli", "term") /\ proc'[o] = proc[o],
             \A o \in Pid : proc'[o].is = "other" => proc[o].is = "other"
      PROVE  Spared'
  <2> SUFFICES ASSUME NEW p \in Pid, At(p, "cli", "term")'
               PROVE  proc'[proc'[p].seen].is # "other"
    BY DEF Spared
  <2>1. At(p, "cli", "term") /\ proc'[p] = proc[p]
    BY <1>1
  <2>2. proc[p].seen \in Pid /\ proc[proc[p].seen].is # "other"
    BY <1>b, <2>1 DEF Spared
  <2>3. QED
    BY <1>1, <2>1, <2>2
<1>2. ASSUME NEW p \in Pid, NEW r, proc' = [proc EXCEPT ![p] = r],
             r.is # "other", ~(r.is = "cli" /\ r.step = "term")
      PROVE  Spared'
  <2>1. proc'[p] = r /\ \A o \in Pid : o # p => proc'[o] = proc[o]
    BY <1>2 DEF ProcOK
  <2>2. QED
    BY <1>1, <1>2, <2>1
<1>3. ASSUME NEW p \in Pid, NEW q \in Pid, NEW r, NEW t,
             proc' = [proc EXCEPT ![p] = r, ![q] = t],
             r.is # "other", ~(r.is = "cli" /\ r.step = "term"),
             t.is # "other", ~(t.is = "cli" /\ t.step = "term")
      PROVE  Spared'
  <2>1. /\ proc'[q] = t /\ (p # q => proc'[p] = r)
        /\ \A o \in Pid : o # p /\ o # q => proc'[o] = proc[o]
    BY <1>3 DEF ProcOK
  <2>2. QED
    BY <1>1, <1>3, <2>1
<1>4. ASSUME NEW p \in Pid, proc[p].is \in {"cli", "daemon"}, NEW s,
             s # "term" \/ proc[p].is = "daemon"
      PROVE  /\ Step(p, s).is # "other"
             /\ ~(Step(p, s).is = "cli" /\ Step(p, s).step = "term")
  BY <1>4 DEF Step, ProcOK, Record
<1>5. ASSUME NEW p \in Pid
      PROVE  /\ AfterStop(p).is # "other"
             /\ ~(AfterStop(p).is = "cli" /\ AfterStop(p).step = "term")
  BY DEF AfterStop, Cli, Nobody
<1>6. ASSUME NEW p \in Pid, \E c \in {"start", "stop", "restart"} : Run(p, c)
      PROVE  Spared'
  <2>1. PICK c \in {"start", "stop", "restart"} :
          proc' = [proc EXCEPT ![p] = Cli(c, IF c = "start" THEN "start" ELSE "stop")]
    BY <1>6 DEF Run
  <2>2. \A j : Cli(c, j).is = "cli" /\ Cli(c, j).step = "look"
    BY DEF Cli
  <2>3. QED
    BY <1>2, <2>1, <2>2
<1>7. ASSUME NEW p \in Pid, Look(p)
      PROVE  Spared'
  <2>1. proc[p].is = "cli"
    BY <1>7 DEF Look
  <2>2. CASE file = NoFile
    <3>1. proc' = [proc EXCEPT ![p] = Absent(p)]
      BY <1>7, <2>2 DEF Look
    <3>2. Absent(p).is # "other" /\ ~(Absent(p).is = "cli" /\ Absent(p).step = "term")
      BY <1>a, <2>1, Answers
    <3>3. QED
      BY <1>2, <3>1, <3>2
  <2>3. CASE file # NoFile
    <3> DEFINE r == [Step(p, "judge") EXCEPT !.seen = file.pid]
    <3>1. r.is = "cli" /\ r.step = "judge"
      BY <2>1 DEF Step, ProcOK, Record
    <3>2. proc' = [proc EXCEPT ![p] = r]
      BY <1>7, <2>3 DEF Look
    <3> HIDE DEF r
    <3>3. QED
      BY <1>2, <3>1, <3>2
  <2>4. QED
    BY <2>2, <2>3
<1>8. ASSUME NEW p \in Pid, Judge(p)
      PROVE  Spared'
  <2> DEFINE q == proc[p].seen
             found == q # Empty /\ Alive(q) /\ DaemonArgs(q)
  <2>1. proc[p].is = "cli" /\ proc[p].step = "judge" /\ q \in Pid \cup {Empty}
    BY <1>8 DEF Judge, ProcOK, Sane, Record
  <2>2. CASE found
    <3> DEFINE r == Present(p)
    <3>1. r.is = "cli" /\ r.seen = q /\ q \in Pid
      BY <2>1, <2>2, Answers
    <3>2. proc' = [proc EXCEPT ![p] = r]
      BY <1>8, <2>2 DEF Judge
    <3> HIDE DEF r
    <3>3. proc'[p] = r /\ \A o \in Pid : o # p => proc'[o] = proc[o]
      BY <3>2 DEF ProcOK
    <3>4. proc[q].is # "other"
      BY <2>2 DEF DaemonArgs
    <3>5. \A o \in Pid : proc'[o].is = "other" => proc[o].is = "other"
      BY <3>1, <3>3
    <3>6. QED
      BY <1>b, <3>1, <3>3, <3>4, <3>5 DEF Spared
  <2>3. CASE ~found
    <3>1. proc' = [proc EXCEPT ![p] = Absent(p)]
      BY <1>8, <2>3 DEF Judge
    <3>2. Absent(p).is # "other" /\ ~(Absent(p).is = "cli" /\ Absent(p).step = "term")
      BY <1>a, <2>1, Answers
    <3>3. QED
      BY <1>2, <3>1, <3>2
  <2>4. QED
    BY <2>2, <2>3
<1>9. ASSUME NEW p \in Pid, GiveUp(p) \/ StrangerEnds(p)
      PROVE  Spared'
  BY <1>9, <1>2, <1>a DEF GiveUp, StrangerEnds
<1>10. ASSUME NEW p \in Pid, Fork(p)
       PROVE  Spared'
  <2>1. CASE proc' = [proc EXCEPT ![p] = Nobody]
    BY <1>2, <1>a, <2>1
  <2>2. ASSUME NEW d \in Free,
               proc' = [proc EXCEPT ![p] = Nobody, ![d] = Forked(proc[p].cmd)]
        PROVE  Spared'
    <3>1. Forked(proc[p].cmd).is = "daemon" /\ d \in Pid
      BY DEF Forked, Nobody, Free
    <3>2. QED
      BY <1>3, <1>a, <2>2, <3>1
  <2>3. QED
    BY <1>10, <2>1, <2>2 DEF Fork
<1>11. ASSUME NEW p \in Pid, Term(p)
       PROVE  Spared'
  <2>1. PICK q \in Pid : q = proc[p].seen /\ proc[p].is = "cli"
    BY <1>11 DEF Term, ProcOK, Sane
  <2>2. CASE ~Alive(q)
    BY <1>2, <1>5, <1>11, <2>1, <2>2 DEF Term
  <2>3. CASE Alive(q)
    <3> DEFINE r == Step(p, "wait")
               t == Terminated(q)
    <3>1. proc' = [proc EXCEPT ![p] = r, ![q] = t]
      BY <1>11, <2>1, <2>3 DEF Term
    <3>2. r.is # "other" /\ ~(r.is = "cli" /\ r.step = "term")
      BY <1>4, <2>1
    <3>3. t.is # "other" /\ t.is # "cli"
      BY <1>a, Terminating
    <3> HIDE DEF r, t
    <3>4. QED
      BY <1>3, <3>1, <3>2, <3>3
  <2>4. QED
    BY <2>2, <2>3
<1>12. ASSUME NEW p \in Pid, Gone(p)
       PROVE  Spared'
  BY <1>12, <1>2, <1>4 DEF Gone
<1>13. ASSUME NEW p \in Pid, Kill(p)
       PROVE  Spared'
  <2>1. PICK q \in Pid : q = proc[p].seen /\ proc[p].is = "cli"
    BY <1>13 DEF Kill, Timeout, ProcOK, Sane
  <2>2. proc' = [proc EXCEPT ![q] = Nobody, ![p] = Step(p, "sweep")]
    BY <1>13, <2>1 DEF Kill
  <2>3. LET r == Step(p, "sweep")
        IN  r.is # "other" /\ ~(r.is = "cli" /\ r.step = "term")
    BY <1>4, <2>1
  <2>4. QED
    BY <1>3, <1>a, <2>2, <2>3
<1>14. ASSUME NEW p \in Pid, Sweep(p)
       PROVE  Spared'
  BY <1>14, <1>2, <1>5 DEF Sweep
<1>15. ASSUME NEW p \in Pid, Die(p)
       PROVE  Spared'
  BY <1>15, <1>2, <1>a DEF Die
<1>16. ASSUME NEW p \in Pid,
              \/ Lock(p) \/ WritePid(p) \/ StartEngines(p) \/ EnginesEnd(p)
              \/ Leave(p) \/ Crash(p) \/ Interrupt(p)
       PROVE  Spared'
  <2>1. CASE \E s \in DaemonSteps : proc' = [proc EXCEPT ![p] = Step(p, s)]
    <3>1. proc[p].is = "daemon"
      BY <1>16 DEF Lock, WritePid, StartEngines, EnginesEnd, Leave, Crash,
                   Interrupt, Daemons
    <3>2. QED
      BY <1>2, <1>4, <2>1, <3>1
  <2>2. QED
    BY <1>15, <1>16, <2>1 DEF Lock, WritePid, StartEngines, EnginesEnd, Leave,
                              Crash, Interrupt, DaemonSteps
<1>17. ASSUME NEW p \in Pid, StrangerStarts(p)
       PROVE  Spared'
  <2>1. Settled /\ p \in Pid /\ proc' = [proc EXCEPT ![p] = Stranger]
    BY <1>17 DEF StrangerStarts
  <2>2. \A o \in Pid : proc[o].is # "cli"
    BY <2>1 DEF Settled, Syncing, Daemons
  <2>3. \A o \in Pid : proc'[o].is # "cli"
    BY <1>a, <2>1, <2>2 DEF ProcOK
  <2>4. QED
    BY <2>3 DEF Spared
<1>18. QED
  BY <1>6, <1>7, <1>8, <1>9, <1>10, <1>11, <1>12, <1>13, <1>14, <1>16, <1>17
     DEF Next, Command
-----------------------------------------------------------------------------
(* Both, until a command overlaps another.                                  *)
LEMMA Apart == Spec => [](ProcOK /\ FileOK /\ IInv /\ (overlap \/ Spared))
<1>1. Init => ProcOK /\ FileOK /\ IInv /\ (overlap \/ Spared)
  <2> SUFFICES ASSUME Init PROVE IInv /\ Spared
    BY InitOK
  <2>1. \A p \in Pid : proc[p].is = "none"
    BY DEF Init, Nobody
  <2>2. QED
    BY <2>1
       DEF IInv, Alone, OneMover, SyncingNamed, StartingNamed, SeenIsSyncing,
       NoneSyncing, Spared, Mover, Starting, Syncs, Seeing, Clear, At
<1>2. ProcOK /\ FileOK /\ ProcOK' /\ FileOK' /\ IInv /\ (overlap \/ Spared)
      /\ [Next]_vars => IInv' /\ (overlap' \/ Spared')
  <2> SUFFICES ASSUME ProcOK, FileOK, ProcOK', FileOK', IInv, overlap \/ Spared,
                      [Next]_vars, ~overlap'
               PROVE  Alone' /\ Spared'
    BY DEF IInv
  <2>1. CASE Next
    <3>1. ~overlap
      BY <2>1, OverlapStays
    <3>2. QED
      BY <2>1, <3>1, AloneInvariance, SparedInvariance DEF IInv
  <2>2. CASE UNCHANGED vars
    BY <2>2 DEF vars, IInv, Alone, OneMover, SyncingNamed, StartingNamed,
       SeenIsSyncing, NoneSyncing, Spared, Mover, Starting, Syncs, Seeing, Clear, At
  <2>3. QED
    BY <2>1, <2>2
<1>3. QED
  BY <1>1, <1>2, TypeCorrect, PTL DEF Spec

(* At most one daemon syncs, if each command waits for the one before.      *)
THEOREM OneAtATime == Spec => []OneDaemon
<1>1. IInv => OneDaemon
  <2> SUFFICES ASSUME Alone PROVE Cardinality(Syncing) <= 1
    BY DEF IInv, OneDaemon
  <2>1. \A d, e \in Syncing : d = e
    BY DEF Alone, SyncingNamed, Syncs, Syncing, Daemons
  <2>2. CASE Syncing = {}
    BY <2>2, FS_EmptySet
  <2>3. CASE Syncing # {}
    <3>1. PICK d : d \in Syncing
      BY <2>3
    <3>2. Syncing = {d}
      BY <2>1, <3>1
    <3>3. QED
      BY <3>2, FS_Singleton
  <2>4. QED
    BY <2>2, <2>3
<1>2. QED
  BY <1>1, Apart, PTL

(* A daemon that runs is the one the pid file names, between commands that  *)
(* wait for each other: `stop` and the next `start` find it.                *)
THEOREM Findable == Spec => []DaemonIsFound
<1>1. IInv => DaemonIsFound
  BY DEF IInv, Alone, SyncingNamed, Syncs, DaemonIsFound, Daemons
<1>2. QED
  BY <1>1, Apart, PTL

(* No process another program runs under a daemon's old pid is signalled.   *)
THEOREM StrangersSpared == Spec => []SparesStrangers
<1>1. overlap \/ Spared => SparesStrangers
  BY DEF Spared, SparesStrangers
<1>2. QED
  BY <1>1, Apart, PTL
=============================================================================
